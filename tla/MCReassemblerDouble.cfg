\* In order, lossy, one duplicate: a fragment counted twice.
SPECIFICATION SafeSpec
CONSTANTS
  t1 = t1
  t2 = t2
  e1 = e1
  e2 = e2
  Threads = {t1}
  Consumers = {c1}
  Events = {e1}
  Bytes <- EvenBytes
  Fragments <- EvenFragments
  Route <- OneEvent
  Ordered = TRUE
  Lossy = TRUE
  MaxDups = 1
  MaxItems = 3
  QSIZE = 1
  SizeMod = 16
  useCP = TRUE
  NoItem = NoItem
  NoThread = NoThread
INVARIANTS
  DeliveredIsWhole
