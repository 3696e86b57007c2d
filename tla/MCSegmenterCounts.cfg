\* An event of one fragment, sent with sendmmsg.
SPECIFICATION SafeSpec
CONSTANTS
  e1 = e1
  e2 = e2
  Users = {u1}
  Workers = {w1}
  numSendSockets = 1
  Events = {e2}
  Bytes <- OneBytes
  maxPldLen = 2
  QSIZE = 1
  Modes = {"sendmmsg"}
  Requests = {0}
  useCP = FALSE
  Calls = {"enqueue"}
  MaxEventNum = 1
  NoEvent = NoEvent
INVARIANT CountsAsDocumented
CHECK_DEADLOCK FALSE
