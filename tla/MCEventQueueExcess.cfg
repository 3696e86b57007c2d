\* Two events in a queue of nominal capacity 1, and no consumer that could wrap the counter.
SPECIFICATION SafeSpec
CONSTANTS
  Items = {i1, i2}
  Producers = {p1}
  Consumers = {}
  QSIZE = 1
  SizeMod = 16
  useCP = TRUE
  NoItem = NoItem
INVARIANTS
  FillInRange
