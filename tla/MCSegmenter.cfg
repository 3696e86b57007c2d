\* One user, two workers at one ring, events of two fragments and of none, all
\* ways to send, fair threads and a kernel that answers.
SPECIFICATION Spec
CONSTANTS
  e1 = e1
  e2 = e2
  Users = {u1}
  Workers = {w1, w2}
  numSendSockets = 1
  Events = {e1, e2}
  Bytes <- MCBytes
  maxPldLen = 2
  QSIZE = 1
  Modes = {"sendmsg", "sendmmsg", "liburing_send"}
  Requests = {0}
  useCP = TRUE
  Calls = {"enqueue", "direct"}
  MaxEventNum = 3
  NoEvent = NoEvent
INVARIANTS
  TypeOK
  EachOnce
  FragmentsTile
  CallbackOnce
  StopFlushes
  SendStatsAgree
  OutstandingAgrees
PROPERTIES
  AcceptedFinished
  StopCompletes
CHECK_DEADLOCK FALSE
