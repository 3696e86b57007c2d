------------------------------ MODULE Segmenter ------------------------------
(***************************************************************************)
(* The Segmenter: users that number events and put them on the send queue  *)
(* or send them themselves, the send thread that posts queued events to a  *)
(* pool of workers, the workers that cut an event into fragments and give  *)
(* them to the kernel in one of three ways, the sync thread that takes the *)
(* count of events sent, and stopThreads.                                  *)
(***************************************************************************)
EXTENDS Integers, Sequences, FiniteSets

CONSTANTS
  Users,        \* threads that call addToSendQueue() or sendEvent()
  Workers,      \* threads of the pool
  numSendSockets, \* send sockets, each with a ring of its own
  Events,       \* event buffers; each is given to the Segmenter once
  Bytes,        \* Bytes[e]: length of event e
  maxPldLen,    \* bytes that fit into a fragment
  QSIZE,        \* capacity of the send queue
  Modes,        \* optimizations to choose from: a subset of SendModes
  Requests,     \* event numbers a user may ask for; 0 asks for none
  useCP,        \* whether there is a control plane to send sync messages to
  Calls,        \* calls users make: a subset of {"enqueue", "direct"}
  MaxEventNum,  \* bound: event numbers taken
  NoEvent

SendModes == {"sendmsg", "sendmmsg", "liburing_send"}
NoNumber  == -1
Sockets   == 0 .. numSendSockets - 1

ASSUME ThreadsAssumption ==
  Users \cap Workers = {} /\ IsFiniteSet(Users \cup Workers) /\ numSendSockets \in Nat \ {0}
ASSUME EventsAssumption == Bytes \in [Events -> Nat] /\ NoEvent \notin Events
ASSUME SizesAssumption == maxPldLen \in Nat \ {0} /\ QSIZE \in Nat \ {0}
ASSUME ModesAssumption ==
  /\ Modes \subseteq SendModes /\ Requests \subseteq Nat /\ Calls \subseteq {"enqueue", "direct"}
  /\ useCP \in BOOLEAN

VARIABLES
  mode,             \* the optimization selected before the Segmenter was made
  userEventNum,     \* the next event number
  eventQueue,       \* the send queue, head first
  at, ev, curOffset, \* where each user and worker is, with its event, and how far
  sendAt, sendItem, \* the send thread, and the item it popped
  pool,             \* [ev, rri]: events posted to the pool with their socket
  roundRobinIndex,  \* the socket used last
  rri,              \* each thread's socket
  submitted,        \* [frag, ring, last]: SQEs the kernel has not completed
  completed,        \* CQEs not yet reaped: the same with the kernel's answer
  outstandingSends,
  msgCnt, errCnt,   \* sendStats
  eventsInCurrentSync,
  syncAt,
  threadsStop, syncThreadStop, stopAt,
  (* histories *)
  used,             \* events that are with the Segmenter or have been
  asked,            \* the event number asked for, 0 for none
  eventNum,         \* the event number the event got
  accepted,         \* events addToSendQueue() took
  early,            \* those it had taken when stopThreads() was called
  sent,             \* [ev, off, len]: fragments given to the kernel
  complete,         \* events whose _send() ran to its end
  failed,           \* events whose _send() returned an error
  finished,         \* queued events whose item a worker deleted
  called,           \* how often each event's callback was called
  reported          \* events in the sync periods that are over

userVars == <<userEventNum, used, asked, eventNum, accepted>>
threadVars == <<at, ev, curOffset>>
queueVars == <<eventQueue, sendAt, sendItem, pool, roundRobinIndex, rri>>
ringVars == <<submitted, completed, outstandingSends>>
statVars == <<msgCnt, errCnt, eventsInCurrentSync>>
syncVars == <<syncAt, reported>>
stopVars == <<threadsStop, syncThreadStop, stopAt, early>>
doneVars == <<sent, complete, failed, finished, called>>
vars == <<mode, userVars, threadVars, queueVars, ringVars, statVars, syncVars, stopVars, doneVars>>

Threads == Users \cup Workers

Init ==
  /\ mode \in Modes
  /\ userEventNum = 0 /\ used = {} /\ accepted = {}
  /\ asked = [e \in Events |-> 0] /\ eventNum = [e \in Events |-> NoNumber]
  /\ at = [t \in Threads |-> IF t \in Users THEN "out" ELSE "idle"]
  /\ ev = [t \in Threads |-> NoEvent] /\ curOffset = [t \in Threads |-> 0]
  /\ eventQueue = <<>> /\ sendAt = "check" /\ sendItem = NoEvent /\ pool = <<>>
  /\ roundRobinIndex = 0 /\ rri = [t \in Threads |-> 0]
  /\ submitted = {} /\ completed = {} /\ outstandingSends = 0
  /\ msgCnt = 0 /\ errCnt = 0 /\ eventsInCurrentSync = 0
  /\ syncAt = (IF useCP THEN "first" ELSE "exited") /\ reported = 0
  /\ threadsStop = FALSE /\ syncThreadStop = FALSE /\ stopAt = "run" /\ early = {}
  /\ sent = {} /\ complete = {} /\ failed = {} /\ finished = {}
  /\ called = [e \in Events |-> 0]

-----------------------------------------------------------------------------
(* Users *)

(* User u calls addToSendQueue() (place "enqueue") or sendEvent() (place
   "direct") with event e: if it asks for event number n, that is next. *)
Call(u, e, n, place) ==
  /\ at[u] = "out" /\ e \notin used
  /\ userEventNum + Cardinality({v \in Users : at[v] \in {"enqueue", "direct"}}) < MaxEventNum
  /\ used' = used \cup {e}
  /\ asked' = [asked EXCEPT ![e] = n]
  /\ userEventNum' = IF n # 0 THEN n ELSE userEventNum
  /\ at' = [at EXCEPT ![u] = place]
  /\ ev' = [ev EXCEPT ![u] = e]
  /\ UNCHANGED <<mode, eventNum, accepted, curOffset, queueVars, ringVars, statVars, syncVars,
                 stopVars, doneVars>>

(* The round-robin index is a plain variable that the send thread and
   sendEvent() share: any socket, when one of the others is at it too. *)
NextSocket(racing) == IF racing THEN Sockets ELSE {(roundRobinIndex + 1) % numSendSockets}

(* The event gets the next number; another user may have come in between.
   sendEvent() takes the next socket as well. *)
TakeNumber(u) ==
  /\ at[u] \in {"enqueue", "direct"}
  /\ eventNum' = [eventNum EXCEPT ![ev[u]] = userEventNum]
  /\ userEventNum' = userEventNum + 1
  /\ \/ /\ at[u] = "enqueue"
        /\ at' = [at EXCEPT ![u] = "push"]
        /\ UNCHANGED <<roundRobinIndex, rri>>
     \/ /\ at[u] = "direct"
        /\ at' = [at EXCEPT ![u] = "send"]
        /\ roundRobinIndex' \in NextSocket(sendAt = "post" \/ \E v \in Users \ {u} : at[v] = "direct")
        /\ rri' = [rri EXCEPT ![u] = roundRobinIndex']
  /\ UNCHANGED <<mode, used, asked, accepted, ev, curOffset, eventQueue, sendAt, sendItem, pool,
                 ringVars, statVars, syncVars, stopVars, doneVars>>

(* There is room in the queue: addToSendQueue() returns 0. *)
Push(u) ==
  /\ at[u] = "push" /\ Len(eventQueue) < QSIZE
  /\ eventQueue' = Append(eventQueue, ev[u])
  /\ accepted' = accepted \cup {ev[u]}
  /\ at' = [at EXCEPT ![u] = "out"]
  /\ ev' = [ev EXCEPT ![u] = NoEvent]
  /\ UNCHANGED <<mode, userEventNum, used, asked, eventNum, curOffset, sendAt, sendItem, pool,
                 roundRobinIndex, rri, ringVars, statVars, syncVars, stopVars, doneVars>>

(* The queue is full: MemoryError, and the caller may try again later. The
   number is gone. *)
PushFull(u) ==
  /\ at[u] = "push" /\ Len(eventQueue) >= QSIZE
  /\ used' = used \ {ev[u]}
  /\ eventNum' = [eventNum EXCEPT ![ev[u]] = NoNumber]
  /\ at' = [at EXCEPT ![u] = "out"]
  /\ ev' = [ev EXCEPT ![u] = NoEvent]
  /\ UNCHANGED <<mode, userEventNum, asked, accepted, curOffset, queueVars, ringVars, statVars,
                 syncVars, stopVars, doneVars>>

-----------------------------------------------------------------------------
(* The send thread *)

SendStep == UNCHANGED <<mode, userVars, threadVars, rri, statVars, syncVars, stopVars>>

(* Top of the outer loop. *)
CheckStop ==
  /\ sendAt = "check"
  /\ sendAt' = IF threadsStop THEN "join" ELSE "pop"
  /\ UNCHANGED <<eventQueue, sendItem, pool, roundRobinIndex, ringVars, doneVars>> /\ SendStep

(* Mutant: the item stays in the queue. *)
Pop_peeks ==
  /\ sendAt = "pop"
  /\ IF eventQueue = <<>>
       THEN sendAt' = "check" /\ UNCHANGED sendItem
       ELSE sendAt' = "post" /\ sendItem' = Head(eventQueue)
  /\ UNCHANGED <<eventQueue, pool, roundRobinIndex, ringVars, doneVars>> /\ SendStep

(* Inner loop: pop an event, or find the queue empty. *)
Pop ==
  /\ sendAt = "pop"
  /\ IF eventQueue = <<>>
       THEN sendAt' = "check" /\ UNCHANGED <<eventQueue, sendItem>>
       ELSE /\ sendAt' = "post"
            /\ sendItem' = Head(eventQueue)
            /\ eventQueue' = Tail(eventQueue)
  /\ UNCHANGED <<pool, roundRobinIndex, ringVars, doneVars>> /\ SendStep

(* Post the item to the pool with the next socket. *)
Post ==
  /\ sendAt = "post"
  /\ roundRobinIndex' \in NextSocket(\E u \in Users : at[u] = "direct")
  /\ pool' = Append(pool, [ev |-> sendItem, rri |-> roundRobinIndex'])
  /\ sendItem' = NoEvent
  /\ sendAt' = "pop"
  /\ UNCHANGED <<eventQueue, ringVars, doneVars>> /\ SendStep

(* The pool's join: all that was posted has been done. *)
PoolIdle == pool = <<>> /\ \A w \in Workers : at[w] = "idle"

OfRing(r) == {c \in completed : c.ring = r}

(* Mutant: a batch is counted as one. *)
Reap_countsBatch(r) ==
  /\ OfRing(r) # {}
  /\ completed' = completed \ OfRing(r)
  /\ outstandingSends' = outstandingSends - 1
  /\ errCnt' = errCnt + Cardinality({c \in OfRing(r) : ~c.ok})
  /\ called' = [e \in Events |->
                  called[e] + Cardinality({c \in OfRing(r) : c.last /\ c.frag.ev = e})]
  /\ UNCHANGED submitted

(* _reap(): take what the kernel has completed in ring r, count the errors and
   call the callbacks of the events whose last fragment is among it. *)
Reap(r) ==
  /\ OfRing(r) # {}
  /\ completed' = completed \ OfRing(r)
  /\ outstandingSends' = outstandingSends - Cardinality(OfRing(r))
  /\ errCnt' = errCnt + Cardinality({c \in OfRing(r) : ~c.ok})
  /\ called' = [e \in Events |->
                  called[e] + Cardinality({c \in OfRing(r) : c.last /\ c.frag.ev = e})]
  /\ UNCHANGED submitted

(* After the join: reap until nothing is outstanding. *)
DrainRing(r) ==
  /\ sendAt = "join" /\ PoolIdle /\ outstandingSends # 0
  /\ Reap(r)
  /\ UNCHANGED <<mode, userVars, threadVars, queueVars, msgCnt, eventsInCurrentSync, syncVars,
                 stopVars, sent, complete, failed, finished>>

(* Mutants: the thread ends with sends outstanding, or abandons the pool. *)
SendExit_outstanding ==
  /\ sendAt = "join" /\ PoolIdle
  /\ sendAt' = "done"
  /\ UNCHANGED <<eventQueue, sendItem, pool, roundRobinIndex, ringVars, doneVars>> /\ SendStep

SendExit_abandons ==
  /\ sendAt = "join" /\ outstandingSends = 0
  /\ sendAt' = "done" /\ pool' = <<>>
  /\ UNCHANGED <<eventQueue, sendItem, roundRobinIndex, ringVars, doneVars>> /\ SendStep

(* Nothing is outstanding: close the sockets. *)
SendExit ==
  /\ sendAt = "join" /\ PoolIdle /\ outstandingSends = 0
  /\ sendAt' = "done"
  /\ UNCHANGED <<eventQueue, sendItem, pool, roundRobinIndex, ringVars, doneVars>> /\ SendStep

-----------------------------------------------------------------------------
(* _send(), by a worker or by the user of sendEvent() *)

(* Mutant: every fragment is a full one. *)
PldLen_full(e, off) == maxPldLen

(* The length of the fragment of e that begins at offset off. *)
PldLen(e, off) == IF Bytes[e] > off + maxPldLen THEN maxPldLen ELSE Bytes[e] - off

Fragment(e, off) == [ev |-> e, off |-> off, len |-> PldLen(e, off)]

(* All fragments of e, in order. *)
numBuffers(e) == (Bytes[e] + maxPldLen - 1) \div maxPldLen
Fragments(e)  == [k \in 1 .. numBuffers(e) |-> Fragment(e, (k - 1) * maxPldLen)]

(* Where thread t goes from _send(). *)
Leave(t, e) ==
  /\ at' = [at EXCEPT ![t] = IF t \in Users THEN "out"
                             ELSE IF mode = "liburing_send" THEN "reap" ELSE "callback"]
  /\ ev' = [ev EXCEPT ![t] = IF t \in Users THEN NoEvent ELSE e]
  /\ curOffset' = [curOffset EXCEPT ![t] = 0]

InSend == UNCHANGED <<mode, userVars, queueVars, syncVars, stopVars, finished, called>>

(* Mutant: the offset moves by a full fragment. *)
SendMsg_fullStep(t) ==
  LET f == Fragment(ev[t], curOffset[t])
  IN  /\ at[t] = "send" /\ mode = "sendmsg" /\ curOffset[t] < Bytes[ev[t]]
      /\ msgCnt' = msgCnt + 1
      /\ sent' = sent \cup {f}
      /\ curOffset' = [curOffset EXCEPT ![t] = @ + maxPldLen]
      /\ UNCHANGED <<at, ev, ringVars, errCnt, eventsInCurrentSync, complete, failed>> /\ InSend

(* sendmsg(): one fragment. *)
SendMsg(t) ==
  LET f == Fragment(ev[t], curOffset[t])
  IN  /\ at[t] = "send" /\ mode = "sendmsg" /\ curOffset[t] < Bytes[ev[t]]
      /\ msgCnt' = msgCnt + 1
      /\ sent' = sent \cup {f}
      /\ curOffset' = [curOffset EXCEPT ![t] = @ + f.len]
      /\ UNCHANGED <<at, ev, ringVars, errCnt, eventsInCurrentSync, complete, failed>> /\ InSend

(* sendmsg() fails: the rest of the event is not sent. *)
SendMsgFails(t) ==
  /\ at[t] = "send" /\ mode = "sendmsg" /\ curOffset[t] < Bytes[ev[t]]
  /\ msgCnt' = msgCnt + 1
  /\ errCnt' = errCnt + 1
  /\ failed' = failed \cup {ev[t]}
  /\ Leave(t, ev[t])
  /\ UNCHANGED <<ringVars, eventsInCurrentSync, sent, complete>> /\ InSend

(* sendmmsg(): all fragments at once; the kernel takes the first k of them. It
   answers -1, not 0, when it takes none, and the difference is what is counted. *)
SendMMsg(t, k) ==
  LET e == ev[t]
      n == numBuffers(e)
      err == IF k = 0 /\ n > 0 THEN -1 ELSE k
  IN  /\ at[t] = "send" /\ mode = "sendmmsg" /\ k \in 0 .. n
      /\ msgCnt' = msgCnt + n
      /\ sent' = sent \cup {Fragments(e)[j] : j \in 1 .. k}
      /\ errCnt' = errCnt + (n - err)
      /\ complete' = IF k = n THEN complete \cup {e} ELSE complete
      /\ failed' = IF k = n THEN failed ELSE failed \cup {e}
      /\ eventsInCurrentSync' = eventsInCurrentSync + (IF k = n THEN 1 ELSE 0)
      /\ Leave(t, e)
      /\ UNCHANGED ringVars /\ InSend

(* Mutant: every fragment carries the callback. *)
Submit_allCall(t) ==
  LET e == ev[t]
      f == Fragment(e, curOffset[t])
  IN  /\ at[t] = "send" /\ mode = "liburing_send" /\ curOffset[t] < Bytes[e]
      /\ msgCnt' = msgCnt + 1
      /\ submitted' = submitted \cup {[frag |-> f, ring |-> rri[t], last |-> t \in Workers]}
      /\ sent' = sent \cup {f}
      /\ curOffset' = [curOffset EXCEPT ![t] = @ + f.len]
      /\ UNCHANGED <<at, ev, completed, outstandingSends, errCnt, eventsInCurrentSync, complete,
                     failed>> /\ InSend

(* io_uring: submit one fragment; the last one carries the callback, if a worker
   sends it. *)
Submit(t) ==
  LET e == ev[t]
      f == Fragment(e, curOffset[t])
  IN  /\ at[t] = "send" /\ mode = "liburing_send" /\ curOffset[t] < Bytes[e]
      /\ msgCnt' = msgCnt + 1
      /\ submitted' = submitted \cup
           {[frag |-> f, ring |-> rri[t], last |-> t \in Workers /\ f.off + f.len >= Bytes[e]]}
      /\ sent' = sent \cup {f}
      /\ curOffset' = [curOffset EXCEPT ![t] = @ + f.len]
      /\ UNCHANGED <<at, ev, completed, outstandingSends, errCnt, eventsInCurrentSync, complete,
                     failed>> /\ InSend

(* Mutant: one send is counted for the event. *)
SendDone_countsOne(t) ==
  /\ at[t] = "send" /\ mode # "sendmmsg" /\ curOffset[t] = Bytes[ev[t]]
  /\ outstandingSends' = IF mode = "liburing_send" THEN outstandingSends + 1 ELSE outstandingSends
  /\ eventsInCurrentSync' = eventsInCurrentSync + 1
  /\ complete' = complete \cup {ev[t]}
  /\ Leave(t, ev[t])
  /\ UNCHANGED <<submitted, completed, msgCnt, errCnt, sent, failed>> /\ InSend

(* The end of _send() without an error. *)
SendDone(t) ==
  /\ at[t] = "send" /\ mode # "sendmmsg" /\ curOffset[t] = Bytes[ev[t]]
  /\ outstandingSends' = IF mode = "liburing_send" THEN outstandingSends + numBuffers(ev[t])
                         ELSE outstandingSends
  /\ eventsInCurrentSync' = eventsInCurrentSync + 1
  /\ complete' = complete \cup {ev[t]}
  /\ Leave(t, ev[t])
  /\ UNCHANGED <<submitted, completed, msgCnt, errCnt, sent, failed>> /\ InSend

(* The kernel completes a submitted send, in an order of its own. *)
Complete(s, ok) ==
  /\ s \in submitted
  /\ submitted' = submitted \ {s}
  /\ completed' = completed \cup {[frag |-> s.frag, ring |-> s.ring, last |-> s.last, ok |-> ok]}
  /\ UNCHANGED <<mode, userVars, threadVars, queueVars, outstandingSends, statVars, syncVars,
                 stopVars, doneVars>>

-----------------------------------------------------------------------------
(* Workers *)

(* A free worker of the pool takes the next posted event. *)
Take(w) ==
  /\ at[w] = "idle" /\ pool # <<>>
  /\ ev' = [ev EXCEPT ![w] = Head(pool).ev]
  /\ rri' = [rri EXCEPT ![w] = Head(pool).rri]
  /\ pool' = Tail(pool)
  /\ at' = [at EXCEPT ![w] = IF mode = "liburing_send" THEN "lock" ELSE "send"]
  /\ UNCHANGED <<mode, userVars, curOffset, eventQueue, sendAt, sendItem, roundRobinIndex, ringVars,
                 statVars, syncVars, stopVars, doneVars>>

(* Mutant: the ring is not locked. *)
Lock_none(w) ==
  /\ at[w] = "lock"
  /\ at' = [at EXCEPT ![w] = "send"]
  /\ UNCHANGED <<mode, userVars, ev, curOffset, queueVars, ringVars, statVars, syncVars,
                 stopVars, doneVars>>

(* Lock the ring for sending and reaping. *)
Lock(w) ==
  /\ at[w] = "lock"
  /\ \A v \in Workers : at[v] \in {"send", "reap"} => rri[v] # rri[w]
  /\ at' = [at EXCEPT ![w] = "send"]
  /\ UNCHANGED <<mode, userVars, ev, curOffset, queueVars, ringVars, statVars, syncVars,
                 stopVars, doneVars>>

ReapRing(w) ==
  /\ at[w] = "reap"
  /\ Reap(rri[w])
  /\ UNCHANGED <<mode, userVars, threadVars, queueVars, msgCnt, eventsInCurrentSync, syncVars,
                 stopVars, sent, complete, failed, finished>>

Finish(w) ==
  /\ finished' = finished \cup {ev[w]}
  /\ at' = [at EXCEPT ![w] = "idle"]
  /\ ev' = [ev EXCEPT ![w] = NoEvent]
  /\ UNCHANGED <<mode, userVars, curOffset, queueVars, ringVars, statVars, syncVars, stopVars,
                 sent, complete, failed>>

(* Nothing left to reap: unlock the ring and delete the item. *)
Unlock(w) ==
  /\ at[w] = "reap" /\ OfRing(rri[w]) = {}
  /\ UNCHANGED called
  /\ Finish(w)

(* Without rings: call the callback, whatever _send() returned, and delete the item. *)
Callback(w) ==
  /\ at[w] = "callback"
  /\ called' = [called EXCEPT ![ev[w]] = @ + 1]
  /\ Finish(w)

-----------------------------------------------------------------------------
(* The sync thread and stopThreads() *)

(* Mutant: the count is read and not reset. *)
Sync_noReset ==
  /\ syncAt \in {"first", "loop"} /\ ~syncThreadStop
  /\ syncAt' = "loop"
  /\ reported' = IF syncAt = "first" THEN reported ELSE reported + eventsInCurrentSync
  /\ UNCHANGED <<mode, userVars, threadVars, queueVars, ringVars, statVars, stopVars, doneVars>>

(* A sync period ends: take the count of events and begin another, except that
   there is none before the first. *)
Sync ==
  /\ syncAt \in {"first", "loop"} /\ ~syncThreadStop
  /\ syncAt' = "loop"
  /\ IF syncAt = "first" THEN UNCHANGED <<reported, eventsInCurrentSync>>
     ELSE reported' = reported + eventsInCurrentSync /\ eventsInCurrentSync' = 0
  /\ UNCHANGED <<mode, userVars, threadVars, queueVars, ringVars, msgCnt, errCnt, stopVars, doneVars>>

SyncExit ==
  /\ syncAt \in {"first", "loop"} /\ syncThreadStop
  /\ syncAt' = "exited"
  /\ UNCHANGED <<mode, userVars, threadVars, queueVars, ringVars, statVars, reported, stopVars,
                 doneVars>>

StopStep == UNCHANGED <<mode, userVars, threadVars, queueVars, ringVars, statVars, syncVars, doneVars>>

(* stopThreads() is called, and waits for the queue to empty. *)
StopThreads ==
  /\ stopAt = "run"
  /\ stopAt' = "waiting" /\ early' = accepted
  /\ UNCHANGED <<threadsStop, syncThreadStop>> /\ StopStep

(* Mutant: it does not wait for the queue. *)
StopSend_now ==
  /\ stopAt = "waiting"
  /\ stopAt' = "empty"
  /\ UNCHANGED <<threadsStop, syncThreadStop, early>> /\ StopStep

(* The queue is seen empty. *)
StopSend ==
  /\ stopAt = "waiting" /\ eventQueue = <<>>
  /\ stopAt' = "empty"
  /\ UNCHANGED <<threadsStop, syncThreadStop, early>> /\ StopStep

(* Then it tells the send thread to stop, however full the queue is now. *)
StopFlag ==
  /\ stopAt = "empty"
  /\ stopAt' = "join" /\ threadsStop' = TRUE
  /\ UNCHANGED <<syncThreadStop, early>> /\ StopStep

(* The send thread is joined; the sync thread's turn. *)
StopSync ==
  /\ stopAt = "join" /\ sendAt = "done"
  /\ stopAt' = "joinSync" /\ syncThreadStop' = TRUE
  /\ UNCHANGED <<threadsStop, early>> /\ StopStep

StopReturn ==
  /\ stopAt = "joinSync" /\ syncAt = "exited"
  /\ stopAt' = "stopped"
  /\ UNCHANGED <<threadsStop, syncThreadStop, early>> /\ StopStep

-----------------------------------------------------------------------------

UserStep(u) == TakeNumber(u) \/ Push(u) \/ PushFull(u)

SendThread == CheckStop \/ Pop \/ Post \/ SendExit \/ \E r \in Sockets : DrainRing(r)

SendCall(t) ==
  \/ SendMsg(t) \/ SendMsgFails(t) \/ Submit(t) \/ SendDone(t)
  \/ \E k \in (IF at[t] = "send" THEN 0 .. numBuffers(ev[t]) ELSE {}) : SendMMsg(t, k)

WorkerStep(w) == Take(w) \/ Lock(w) \/ ReapRing(w) \/ Unlock(w) \/ Callback(w)

Kernel == \E s \in submitted, ok \in BOOLEAN : Complete(s, ok)

Stop == StopSend \/ StopFlag \/ StopSync \/ StopReturn

Next ==
  \/ \E u \in Users, e \in Events, n \in Requests, p \in Calls : Call(u, e, n, p)
  \/ \E u \in Users : UserStep(u)
  \/ \E t \in Threads : SendCall(t)
  \/ SendThread
  \/ \E w \in Workers : WorkerStep(w)
  \/ Kernel \/ Sync \/ SyncExit
  \/ StopThreads \/ Stop

SafeSpec == Init /\ [][Next]_vars

(* Every thread inside the library keeps running and the kernel answers. Nobody
   has to call, and no send has to succeed. *)
Fairness ==
  /\ \A u \in Users : WF_vars(UserStep(u))
  /\ \A t \in Threads : WF_vars(SendCall(t))
  /\ \A w \in Workers : WF_vars(WorkerStep(w))
  /\ WF_vars(SendThread) /\ WF_vars(Kernel) /\ WF_vars(SyncExit) /\ WF_vars(Stop)

Spec == SafeSpec /\ Fairness
-----------------------------------------------------------------------------
(* Properties *)

TypeOK ==
  /\ mode \in Modes
  /\ userEventNum \in Nat
  /\ eventQueue \in Seq(Events) /\ Len(eventQueue) <= QSIZE
  /\ at \in [Threads -> {"out", "enqueue", "direct", "push", "send", "idle", "lock", "reap", "callback"}]
  /\ ev \in [Threads -> Events \cup {NoEvent}]
  /\ \A t \in Threads : curOffset[t] \in (IF ev[t] = NoEvent THEN {0} ELSE 0 .. Bytes[ev[t]])
  /\ sendAt \in {"check", "pop", "post", "join", "done"}
  /\ sendItem \in Events \cup {NoEvent}
  /\ pool \in Seq([ev : Events, rri : Sockets])
  /\ roundRobinIndex \in Sockets /\ rri \in [Threads -> Sockets]
  /\ \A s \in submitted \cup completed : s.frag.ev \in Events /\ s.ring \in Sockets
  /\ outstandingSends \in Int
  /\ msgCnt \in Nat /\ errCnt \in Nat /\ eventsInCurrentSync \in Nat /\ reported \in Nat
  /\ syncAt \in {"first", "loop", "exited"}
  /\ stopAt \in {"run", "waiting", "empty", "join", "joinSync", "stopped"}
  /\ {threadsStop, syncThreadStop} \subseteq BOOLEAN
  /\ early \cup used \cup complete \cup failed \cup finished \subseteq Events
  /\ asked \in [Events -> Nat] /\ called \in [Events -> Nat]
  /\ eventNum \in [Events -> Nat \cup {NoNumber}]

SentOf(e)  == {f \in sent : f.ev = e}
Direct     == {f.ev : f \in sent} \ accepted   \* the events of sendEvent()
InQueue(e) == {i \in 1 .. Len(eventQueue) : eventQueue[i] = e}
InPool(e)  == {i \in 1 .. Len(pool) : pool[i].ev = e}
With(e)    == {w \in Workers : ev[w] = e}

(* An event that addToSendQueue() took is in one place until its item is
   deleted: the queue, the send thread, the pool or a worker. *)
EachOnce ==
  \A e \in Events :
    Cardinality(InQueue(e)) + Cardinality(InPool(e)) + Cardinality(With(e))
      + (IF sendItem = e THEN 1 ELSE 0) + (IF e \in finished THEN 1 ELSE 0)
    = (IF e \in accepted THEN 1 ELSE 0)

(* The fragments of an event are not empty, fit into a packet, and have each
   byte of what was sent once: all bytes of an event sent without an error, and
   those from 0 on of any other. *)
FragmentsTile ==
  \A e \in Events :
    LET bytes == UNION {f.off .. f.off + f.len - 1 : f \in SentOf(e)}
    IN  /\ \A f \in SentOf(e) : f.len \in 1 .. maxPldLen
        /\ \A f, g \in SentOf(e) : f.off < g.off => f.off + f.len <= g.off
        /\ bytes = 0 .. Cardinality(bytes) - 1 /\ Cardinality(bytes) <= Bytes[e]
        /\ e \in complete => Cardinality(bytes) = Bytes[e]

(* An event's callback is called at most once, for queued events only, and only
   after its _send() has returned; with rings no other worker can reap the last
   fragment before the one that sent it has counted it. *)
CallbackOnce ==
  \A e \in Events : called[e] = 0 \/ (called[e] = 1 /\ e \in accepted \cap (complete \cup failed))

(* "optional callback function to call after event is sent": no fragment of the
   event is still to be read from its buffer. *)
CallbackAfterSend ==
  \A e \in Events : called[e] > 0 => \A s \in submitted : s.frag.ev # e

(* stopThreads() returns after every event that was in the queue when it was
   called has been sent or failed and its callback called, however many came
   after. Callbacks are left out where the code makes none (with rings, for an
   event of length 0), and with rings whenever sendEvent() is used as well: it
   counts its sends after a worker may have reaped them. *)
StopFlushes ==
  stopAt = "stopped" =>
    \A e \in early :
      /\ e \in finished
      /\ called[e] = 1 \/ (mode = "liburing_send" /\ (Bytes[e] = 0 \/ Direct # {}))

(* The statistics agree with what was given to the kernel: as long as no send has
   failed, each fragment is one message; without rings there is an error exactly
   when an event was cut short; and every event without an error is in one sync
   period, whatever workers and users add while the sync thread takes the count. *)
SendStatsAgree ==
  /\ errCnt = 0 => msgCnt = Cardinality(sent)
  /\ mode # "liburing_send" => (errCnt = 0 <=> failed = {})
  /\ eventsInCurrentSync + reported = Cardinality(complete)

Unsent == UNION {{Fragments(e)[k] : k \in 1 .. numBuffers(e)} : e \in failed} \ sent

(* "fragments sent", "errors encountered on send": no fragment that the kernel
   turned down counts as sent, and an event cut short has no more errors than it
   has fragments that were not sent. *)
CountsAsDocumented ==
  /\ msgCnt <= Cardinality(sent)
  /\ errCnt <= Cardinality(Unsent)

(* outstandingSends, added to after an event's fragments were submitted and
   taken from when they are reaped, by whatever thread, falls short of what the
   rings hold by exactly the fragments submitted in _send() calls that have not
   returned: so the send thread's last loop, which waits for 0, ends with a
   completion in a ring only beside such a call. *)
OutstandingAgrees ==
  mode = "liburing_send" =>
    outstandingSends + Cardinality({f \in sent : \E t \in Threads : at[t] = "send" /\ ev[t] = f.ev})
      = Cardinality(submitted) + Cardinality(completed)

(* "optionally override the internal event number": the event gets the number
   its caller asked for. *)
ExplicitNumberKept ==
  \A e \in Events : asked[e] # 0 /\ eventNum[e] # NoNumber => eventNum[e] = asked[e]

(* "reap the remaining CQEs", "optional callback function to call after event is
   sent": once stopThreads() and every sendEvent() have returned, each event with
   a fragment that was in the queue at the time of the stop has had its callback. *)
EarlyCalledBack ==
  (stopAt = "stopped" /\ \A u \in Users : at[u] = "out")
    => \A e \in early : Bytes[e] > 0 => called[e] = 1

(* The same callback, without a stop: it comes in the end, whether or not there is
   another event to send. *)
CallbackEventually ==
  \A e \in Events : (e \in accepted /\ stopAt = "run") ~> (called[e] = 1 \/ stopAt # "run")

(* An event that addToSendQueue() took before stopThreads() was called is sent
   or fails, and its item is deleted. *)
AcceptedFinished ==
  \A e \in Events : (e \in accepted /\ stopAt = "run") ~> (e \in finished)

(* stopThreads() returns. *)
StopCompletes == (stopAt = "waiting") ~> (stopAt = "stopped")
=============================================================================
