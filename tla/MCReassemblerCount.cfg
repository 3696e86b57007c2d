\* In order, lossless: enqueue() may refuse one of two events.
SPECIFICATION SafeSpec
CONSTANTS
  t1 = t1
  t2 = t2
  e1 = e1
  e2 = e2
  Threads = {t1, t2}
  Consumers = {c1}
  Events = {e1, e2}
  Bytes <- MCBytes
  Fragments <- MCFragments
  Route <- TwoThreads
  Ordered = TRUE
  Lossy = FALSE
  MaxDups = 0
  MaxItems = 2
  QSIZE = 1
  SizeMod = 16
  useCP = FALSE
  NoItem = NoItem
  NoThread = NoThread
INVARIANTS
  SuccessNotLost
