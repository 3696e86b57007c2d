\* Two producers, two consumers, three events, nominal capacity 2: the queue fills up.
SPECIFICATION Spec
CONSTANTS
  Items = {i1, i2, i3}
  Producers = {p1, p2}
  Consumers = {c1, c2}
  QSIZE = 2
  SizeMod = 16
  useCP = TRUE
  NoItem = NoItem
INVARIANTS
  TypeOK
  DepthAgrees
  ConservedOnce
  StoppedMeansEmpty
PROPERTIES
  WaiterServed
  RecvReturnsOnStop
  StopCompletes
