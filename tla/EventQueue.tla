----------------------------- MODULE EventQueue -----------------------------
(***************************************************************************)
(* The Reassembler's shared event queue: the lock-free queue of            *)
(* EventQueueItem pointers, the separate atomic counter that reflects how  *)
(* many entries are in it, the threads that enqueue (receive threads) and  *)
(* dequeue (user threads in getEvent and recvEvent), the SendState thread  *)
(* that samples the counter, and the part of stopThreads that drains the   *)
(* queue.                                                                  *)
(*                                                                         *)
(* A push or a pop and the update of the counter that goes with it are two *)
(* steps: any other thread may run between them.                           *)
(***************************************************************************)
EXTENDS Integers, Sequences, FiniteSets

CONSTANTS
  Items,      \* the event buffers, one EventQueueItem each
  Producers,  \* threads that call enqueue()
  Consumers,  \* user threads that call getEvent() or recvEvent()
  QSIZE,      \* nominal capacity of the queue
  useCP,      \* is there a SendState thread?
  SizeMod,    \* eventQueueDepth is a size_t: it is read modulo SizeMod
  NoItem

ASSUME ItemsAssumption == NoItem \notin Items
ASSUME ThreadsAssumption == IsFiniteSet(Producers) /\ IsFiniteSet(Consumers)
ASSUME useCPAssumption == useCP \in BOOLEAN
ASSUME SizesAssumption == QSIZE \in Nat \ {0} /\ SizeMod \in Nat /\ SizeMod > QSIZE

VARIABLES
  eventQueue,       \* the queue, head first
  eventQueueDepth,  \* the atomic counter, before reduction modulo SizeMod
  pAt,              \* where each producer is in enqueue()
  pItem,            \* the item each producer is enqueuing
  cAt,              \* where each consumer is in getEvent() or recvEvent()
  cItem,            \* the item each consumer has popped
  threadsStop,      \* the stop flag all threads poll
  stopAt,           \* where the caller of stopThreads() is
  ssAt,             \* where the SendState thread is
  fill,             \* the queue depth it sampled this period, in units of 1/QSIZE
  offered,          \* history: items enqueue() was called with
  delivered,        \* history: items returned to the user
  dropped,          \* history: items that found the queue full
  drained           \* history: items released by stopThreads()

producerVars == <<pAt, pItem, offered, dropped>>
consumerVars == <<cAt, cItem, delivered>>
stopVars     == <<threadsStop, stopAt, drained>>
stateVars    == <<ssAt, fill>>
queueVars    == <<eventQueue, eventQueueDepth>>

vars == <<eventQueue, eventQueueDepth, pAt, pItem, cAt, cItem, threadsStop, stopAt,
          ssAt, fill, offered, delivered, dropped, drained>>

ProducerPlaces == {"out", "push", "count", "full", "exited"}
ConsumerPlaces == {"out", "try", "count", "empty", "wait"}
StopPlaces     == {"run", "joining", "drain", "stopped"}
SendStatePlaces == {"sleep", "send", "exited"}

Init ==
  /\ eventQueue = <<>>
  /\ eventQueueDepth = 0
  /\ pAt = [p \in Producers |-> "out"]
  /\ pItem = [p \in Producers |-> NoItem]
  /\ cAt = [c \in Consumers |-> "out"]
  /\ cItem = [c \in Consumers |-> NoItem]
  /\ threadsStop = FALSE
  /\ stopAt = "run"
  /\ ssAt = (IF useCP THEN "sleep" ELSE "exited")
  /\ fill = 0
  /\ offered = {}
  /\ delivered = {}
  /\ dropped = {}
  /\ drained = {}

-----------------------------------------------------------------------------
(* enqueue() *)

(* A receive thread enters enqueue() with a completed event, one it has not
   enqueued before, and copies the item. *)
Offer(p, i) ==
  /\ pAt[p] = "out"
  /\ i \notin offered
  /\ pAt' = [pAt EXCEPT ![p] = "push"]
  /\ pItem' = [pItem EXCEPT ![p] = i]
  /\ offered' = offered \cup {i}
  /\ UNCHANGED <<queueVars, consumerVars, stopVars, stateVars, dropped>>

(* What boost::lockfree::queue::push does: it appends the item, allocating a
   node beyond the nominal capacity if it must. *)
PushAccepted(p) ==
  /\ pAt[p] = "push"
  /\ eventQueue' = Append(eventQueue, pItem[p])
  /\ pAt' = [pAt EXCEPT ![p] = "count"]
  /\ pItem' = [pItem EXCEPT ![p] = NoItem]
  /\ UNCHANGED <<eventQueueDepth, consumerVars, stopVars, stateVars, offered, dropped>>

(* notify_all(): every consumer that waits on the condition goes on. *)
Notified == [c \in Consumers |-> IF cAt[c] = "wait" THEN "try" ELSE cAt[c]]

(* Mutant: a refused push is counted as well. *)
PushRefused_counts(p) ==
  /\ pAt[p] = "push"
  /\ Len(eventQueue) >= QSIZE
  /\ eventQueueDepth' = eventQueueDepth + 1
  /\ pAt' = [pAt EXCEPT ![p] = "full"]
  /\ UNCHANGED <<eventQueue, pItem, offered, dropped, consumerVars, stopVars, stateVars>>

(* push returned false, which the queue may do once it holds QSIZE items:
   enqueue() notifies and returns 1. *)
PushRefused(p) ==
  /\ pAt[p] = "push"
  /\ Len(eventQueue) >= QSIZE
  /\ pAt' = [pAt EXCEPT ![p] = "full"]
  /\ cAt' = Notified
  /\ UNCHANGED <<queueVars, pItem, offered, dropped, cItem, delivered, stopVars, stateVars>>

(* After a successful push: count it, notify the consumers, return 0. *)
CountPush(p) ==
  /\ pAt[p] = "count"
  /\ eventQueueDepth' = eventQueueDepth + 1
  /\ pAt' = [pAt EXCEPT ![p] = "out"]
  /\ cAt' = Notified
  /\ UNCHANGED <<eventQueue, pItem, offered, dropped, cItem, delivered, stopVars, stateVars>>

(* enqueue() returned 1: its caller releases the event. *)
Drop(p) ==
  /\ pAt[p] = "full"
  /\ dropped' = dropped \cup {pItem[p]}
  /\ pAt' = [pAt EXCEPT ![p] = "out"]
  /\ pItem' = [pItem EXCEPT ![p] = NoItem]
  /\ UNCHANGED <<queueVars, consumerVars, stopVars, stateVars, offered>>

(* A producer that finds the stop flag set, outside enqueue(), exits. *)
ProducerExit(p) ==
  /\ pAt[p] = "out"
  /\ threadsStop
  /\ pAt' = [pAt EXCEPT ![p] = "exited"]
  /\ UNCHANGED <<queueVars, pItem, offered, dropped, consumerVars, stopVars, stateVars>>

-----------------------------------------------------------------------------
(* dequeue(), getEvent() and recvEvent() *)

(* The user calls getEvent() or recvEvent(): both first try to dequeue. *)
Call(c) ==
  /\ cAt[c] = "out"
  /\ cAt' = [cAt EXCEPT ![c] = "try"]
  /\ UNCHANGED <<queueVars, producerVars, cItem, delivered, stopVars, stateVars>>

(* Mutant: the pop reads the head and leaves it for another thread. *)
Pop_leavesHead(c) ==
  /\ cAt[c] = "try"
  /\ eventQueue # <<>>
  /\ cItem' = [cItem EXCEPT ![c] = Head(eventQueue)]
  /\ cAt' = [cAt EXCEPT ![c] = "count"]
  /\ UNCHANGED <<queueVars, producerVars, delivered, stopVars, stateVars>>

(* dequeue() pops the head of the queue; its counter update comes later. *)
Pop(c) ==
  /\ cAt[c] = "try"
  /\ eventQueue # <<>>
  /\ cItem' = [cItem EXCEPT ![c] = Head(eventQueue)]
  /\ eventQueue' = Tail(eventQueue)
  /\ cAt' = [cAt EXCEPT ![c] = "count"]
  /\ UNCHANGED <<eventQueueDepth, producerVars, delivered, stopVars, stateVars>>

(* dequeue() found the queue empty. *)
PopEmpty(c) ==
  /\ cAt[c] = "try"
  /\ eventQueue = <<>>
  /\ cAt' = [cAt EXCEPT ![c] = "empty"]
  /\ UNCHANGED <<queueVars, producerVars, cItem, delivered, stopVars, stateVars>>

(* dequeue() counts its pop and the call returns the event to the user. *)
Return(c) ==
  /\ cAt[c] = "count"
  /\ eventQueueDepth' = eventQueueDepth - 1
  /\ delivered' = delivered \cup {cItem[c]}
  /\ cAt' = [cAt EXCEPT ![c] = "out"]
  /\ cItem' = [cItem EXCEPT ![c] = NoItem]
  /\ UNCHANGED <<eventQueue, producerVars, stopVars, stateVars>>

(* Mutant: recvEvent() does not look at the stop flag before it waits. *)
Wait_ignoresStop(c) ==
  /\ cAt[c] = "empty"
  /\ cAt' = [cAt EXCEPT ![c] = "wait"]
  /\ UNCHANGED <<queueVars, producerVars, cItem, delivered, stopVars, stateVars>>

(* recvEvent(): nothing to dequeue and no stop yet, so wait on the condition. *)
Wait(c) ==
  /\ cAt[c] = "empty"
  /\ ~threadsStop
  /\ cAt' = [cAt EXCEPT ![c] = "wait"]
  /\ UNCHANGED <<queueVars, producerVars, cItem, delivered, stopVars, stateVars>>

(* Mutant: the wait ends only when notified. *)
WaitTimeout_never(c) == FALSE

(* The wait ends by itself after recvWaitTimeout_ms, notified or not. *)
WaitTimeout(c) ==
  /\ cAt[c] = "wait"
  /\ cAt' = [cAt EXCEPT ![c] = "try"]
  /\ UNCHANGED <<queueVars, producerVars, cItem, delivered, stopVars, stateVars>>

(* Nothing to dequeue: getEvent(), and a recvEvent() whose time is up, return -1. *)
GiveUp(c) ==
  /\ cAt[c] = "empty"
  /\ cAt' = [cAt EXCEPT ![c] = "out"]
  /\ UNCHANGED <<queueVars, producerVars, cItem, delivered, stopVars, stateVars>>

-----------------------------------------------------------------------------
(* The SendState thread *)

(* Mutant: the counter is read as a signed number. *)
Sample_signed ==
  /\ ssAt = "sleep"
  /\ ~threadsStop
  /\ fill' = eventQueueDepth
  /\ ssAt' = "send"
  /\ UNCHANGED <<queueVars, producerVars, consumerVars, stopVars>>

(* Sample the counter for this period's report. *)
Sample ==
  /\ ssAt = "sleep"
  /\ ~threadsStop
  /\ fill' = eventQueueDepth % SizeMod
  /\ ssAt' = "send"
  /\ UNCHANGED <<queueVars, producerVars, consumerVars, stopVars>>

(* sendState() refuses a fill outside [0:1] or makes the RPC, which answers or
   fails; either way the thread goes to sleep for the rest of the period. *)
Report ==
  /\ ssAt = "send"
  /\ ssAt' = "sleep"
  /\ fill' = 0
  /\ UNCHANGED <<queueVars, producerVars, consumerVars, stopVars>>

(* Mutant: the SendState thread never looks at the stop flag. *)
SendStateExit_never == FALSE

(* The SendState thread finds the stop flag set. *)
SendStateExit ==
  /\ ssAt = "sleep"
  /\ threadsStop
  /\ ssAt' = "exited"
  /\ UNCHANGED <<queueVars, producerVars, consumerVars, stopVars, fill>>

-----------------------------------------------------------------------------
(* stopThreads() *)

(* Set the flag and notify the consumers. *)
StopThreads ==
  /\ stopAt = "run"
  /\ threadsStop' = TRUE
  /\ stopAt' = "joining"
  /\ cAt' = Notified
  /\ UNCHANGED <<queueVars, producerVars, cItem, delivered, stateVars, drained>>

(* Mutant: the receive threads are not joined before the queue is drained. *)
JoinThreads_sendStateOnly ==
  /\ stopAt = "joining"
  /\ useCP => ssAt = "exited"
  /\ stopAt' = "drain"
  /\ UNCHANGED <<queueVars, producerVars, consumerVars, stateVars, threadsStop, drained>>

(* The SendState thread, if there is one, and every receive thread have been
   joined. *)
JoinThreads ==
  /\ stopAt = "joining"
  /\ useCP => ssAt = "exited"
  /\ \A p \in Producers : pAt[p] = "exited"
  /\ stopAt' = "drain"
  /\ UNCHANGED <<queueVars, producerVars, consumerVars, stateVars, threadsStop, drained>>

(* Pop one item and release it; this pop is not counted. *)
DrainPop ==
  /\ stopAt = "drain"
  /\ eventQueue # <<>>
  /\ drained' = drained \cup {Head(eventQueue)}
  /\ eventQueue' = Tail(eventQueue)
  /\ UNCHANGED <<eventQueueDepth, producerVars, consumerVars, stateVars, threadsStop, stopAt>>

(* The queue is empty: done with it. *)
DrainEnd ==
  /\ stopAt = "drain"
  /\ eventQueue = <<>>
  /\ stopAt' = "stopped"
  /\ UNCHANGED <<queueVars, producerVars, consumerVars, stateVars, threadsStop, drained>>

-----------------------------------------------------------------------------

Enqueue(p) == PushAccepted(p) \/ PushRefused(p) \/ CountPush(p) \/ Drop(p)
Dequeue(c) == Pop(c) \/ PopEmpty(c) \/ Return(c)
Drain      == JoinThreads \/ DrainPop \/ DrainEnd

Next ==
  \/ \E p \in Producers : (\E i \in Items : Offer(p, i)) \/ Enqueue(p) \/ ProducerExit(p)
  \/ \E c \in Consumers : Call(c) \/ Dequeue(c) \/ Wait(c) \/ WaitTimeout(c) \/ GiveUp(c)
  \/ Sample \/ Report \/ SendStateExit
  \/ StopThreads \/ Drain

SafeSpec == Init /\ [][Next]_vars

(* Every thread inside a call of the library keeps running, and so does the
   condition variable's timer. A recvEvent() is only sure to give up once the
   stop flag is set; no user has to call, and nobody has to stop. *)
Fairness ==
  /\ \A p \in Producers : WF_vars(Enqueue(p)) /\ WF_vars(ProducerExit(p))
  /\ \A c \in Consumers :
       /\ WF_vars(Dequeue(c))
       /\ WF_vars(WaitTimeout(c))
       /\ WF_vars(Wait(c) \/ (threadsStop /\ GiveUp(c)))
  /\ WF_vars(Report) /\ WF_vars(SendStateExit)
  /\ WF_vars(Drain)

Spec == SafeSpec /\ Fairness

-----------------------------------------------------------------------------
(* Properties *)

TypeOK ==
  /\ eventQueue \in Seq(Items)
  /\ eventQueueDepth \in Int
  /\ pAt \in [Producers -> ProducerPlaces]
  /\ pItem \in [Producers -> Items \cup {NoItem}]
  /\ cAt \in [Consumers -> ConsumerPlaces]
  /\ cItem \in [Consumers -> Items \cup {NoItem}]
  /\ threadsStop \in BOOLEAN
  /\ stopAt \in StopPlaces
  /\ ssAt \in SendStatePlaces
  /\ fill \in 0 .. (SizeMod - 1)
  /\ offered \subseteq Items
  /\ delivered \subseteq Items
  /\ dropped \subseteq Items
  /\ drained \subseteq Items

(* Producers between their push and its count; consumers between a pop and its count. *)
Counting   == {p \in Producers : pAt[p] = "count"}
Uncounting == {c \in Consumers : cAt[c] = "count"}

(* The counter is the number of entries, plus the pops not yet counted, minus
   the pushes not yet counted; the pops of stopThreads() never are. *)
DepthAgrees ==
  eventQueueDepth = Len(eventQueue) + Cardinality(Uncounting) + Cardinality(drained)
                      - Cardinality(Counting)

(* The items a producer has not pushed yet, those in the queue, and those a
   consumer has popped and not returned yet. *)
Offering == {p \in Producers : pAt[p] \in {"push", "full"}}
InHand   == {pItem[p] : p \in Offering}
InQueue  == {eventQueue[k] : k \in DOMAIN eventQueue}
Taken    == {cItem[c] : c \in Uncounting}

Places == <<InHand, InQueue, Taken, delivered, dropped, drained>>

NoItemTwice ==
  /\ \A p, q \in Offering : pItem[p] = pItem[q] => p = q
  /\ \A k, l \in DOMAIN eventQueue : eventQueue[k] = eventQueue[l] => k = l
  /\ \A c, d \in Uncounting : cItem[c] = cItem[d] => c = d

PlacesDisjoint ==
  \A m, n \in 1 .. 6 : m # n => Places[m] \cap Places[n] = {}

NoItemLost ==
  offered = InHand \cup InQueue \cup Taken \cup delivered \cup dropped \cup drained

(* Every event given to enqueue() is in exactly one place from then on: with
   its producer, in one slot of the queue, with the one consumer that popped
   it, returned to the user, dropped on a full queue or drained by
   stopThreads(). No interleaving loses one, delivers one twice or both
   delivers and frees it. *)
ConservedOnce == NoItemTwice /\ PlacesDisjoint /\ NoItemLost

(* Once stopThreads() has drained the queue it stays empty: nothing is pushed
   behind its back. *)
StoppedMeansEmpty == stopAt = "stopped" => eventQueue = <<>>

(* A consumer waiting in recvEvent() while an event is in the queue gets an
   event, or finds that another consumer emptied the queue: the notification
   that comes between its failed pop and its wait is not needed. *)
WaiterServed ==
  \A c \in Consumers :
    (cAt[c] = "wait" /\ eventQueue # <<>>) ~> (cAt[c] = "out" \/ eventQueue = <<>>)

(* A thread blocked in recvEvent() returns once stopThreads() is called. *)
RecvReturnsOnStop ==
  \A c \in Consumers : (threadsStop /\ cAt[c] # "out") ~> (cAt[c] = "out")

(* stopThreads() finishes with the queue. *)
StopCompletes == (stopAt = "joining") ~> (stopAt = "stopped")

(* sendState()'s documented range: "[0:1] percentage filled of the queue". *)
FillInRange == ssAt = "send" => fill \in 0 .. QSIZE
=============================================================================
