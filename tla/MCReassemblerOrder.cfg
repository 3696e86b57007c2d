\* Out of order but lossless and without duplicates.
SPECIFICATION SafeSpec
CONSTANTS
  t1 = t1
  t2 = t2
  e1 = e1
  e2 = e2
  Threads = {t1}
  Consumers = {c1}
  Events = {e1}
  Bytes <- OneBytes
  Fragments <- OneFragments
  Route <- OneEvent
  Ordered = FALSE
  Lossy = FALSE
  MaxDups = 0
  MaxItems = 2
  QSIZE = 2
  SizeMod = 16
  useCP = FALSE
  NoItem = NoItem
  NoThread = NoThread
INVARIANTS
  AllArrivedIsWhole
