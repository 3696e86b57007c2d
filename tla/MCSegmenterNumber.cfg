\* Two users ask for event numbers at the same time.
SPECIFICATION SafeSpec
CONSTANTS
  e1 = e1
  e2 = e2
  Users = {u1, u2}
  Workers = {w1}
  numSendSockets = 1
  Events = {e1, e2}
  Bytes <- RingBytes
  maxPldLen = 2
  QSIZE = 2
  Modes = {"sendmsg"}
  Requests = {1, 2}
  useCP = FALSE
  Calls = {"enqueue", "direct"}
  MaxEventNum = 4
  NoEvent = NoEvent
INVARIANT ExplicitNumberKept
CHECK_DEADLOCK FALSE
