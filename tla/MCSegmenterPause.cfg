\* One user that may pause, one ring, fair threads and a kernel that answers.
SPECIFICATION Spec
CONSTANTS
  e1 = e1
  e2 = e2
  Users = {u1}
  Workers = {w1}
  numSendSockets = 1
  Events = {e1, e2}
  Bytes <- RingBytes
  maxPldLen = 2
  QSIZE = 1
  Modes = {"liburing_send"}
  Requests = {0}
  useCP = FALSE
  Calls = {"enqueue"}
  MaxEventNum = 2
  NoEvent = NoEvent
PROPERTY CallbackEventually
CHECK_DEADLOCK FALSE
