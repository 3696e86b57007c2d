\* In order, lossy: two receive threads, a two-fragment and a one-fragment event.
SPECIFICATION SafeSpec
CONSTANTS
  t1 = t1
  t2 = t2
  e1 = e1
  e2 = e2
  Threads = {t1, t2}
  Consumers = {c1}
  Events = {e1, e2}
  Bytes <- MCBytes
  Fragments <- MCFragments
  Route <- TwoThreads
  Ordered = TRUE
  Lossy = TRUE
  MaxDups = 0
  MaxItems = 3
  QSIZE = 1
  SizeMod = 16
  useCP = FALSE
  NoItem = NoItem
  NoThread = NoThread
INVARIANTS
  TypeOK
  HandedOnce
  QueuedIsWhole
  CollectedNotQueued
  NothingStranded
  LostNotDelivered
  AllArrivedIsWhole
  StatsAgree
  StopReleases
