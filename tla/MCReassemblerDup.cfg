\* Out of order, lossy, one duplicate: one receive thread, one event of two fragments.
SPECIFICATION Spec
CONSTANTS
  t1 = t1
  t2 = t2
  e1 = e1
  e2 = e2
  Threads = {t1}
  Consumers = {c1}
  Events = {e1}
  Bytes <- EvenBytes
  Fragments <- EvenFragments
  Route <- OneEvent
  Ordered = FALSE
  Lossy = TRUE
  MaxDups = 1
  MaxItems = 3
  QSIZE = 1
  SizeMod = 16
  useCP = TRUE
  NoItem = NoItem
  NoThread = NoThread
INVARIANTS
  QueuedIsWhole
  CollectedNotQueued
PROPERTIES
  InProgressResolved
  StopReturns
  QueueSpec
