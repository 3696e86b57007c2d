\* Two events in a queue of nominal capacity 4: the fill can never exceed a half.
SPECIFICATION SafeSpec
CONSTANTS
  Items = {i1, i2}
  Producers = {p1}
  Consumers = {c1}
  QSIZE = 4
  SizeMod = 16
  useCP = TRUE
  NoItem = NoItem
INVARIANTS
  FillInRange
