\* sendEvent() beside the queue at one ring.
SPECIFICATION SafeSpec
CONSTANTS
  e1 = e1
  e2 = e2
  Users = {u1}
  Workers = {w1}
  numSendSockets = 1
  Events = {e1, e2}
  Bytes <- RingBytes
  maxPldLen = 2
  QSIZE = 1
  Modes = {"liburing_send"}
  Requests = {0}
  useCP = FALSE
  Calls = {"enqueue", "direct"}
  MaxEventNum = 2
  NoEvent = NoEvent
INVARIANT EarlyCalledBack
CHECK_DEADLOCK FALSE
