---------------------------- MODULE Reassembler ----------------------------
(***************************************************************************)
(* The Reassembler: receive threads that put UDP fragments together into   *)
(* events, the garbage collection thread that gives up on events that      *)
(* linger, the event queue they hand completed events to, and stopThreads. *)
(*                                                                         *)
(* Each event arrives at one receive thread (all fragments of an event     *)
(* carry the same entropy). A receive thread holds its mutex only to look  *)
(* up or erase a map entry: it copies the fragment, counts it and tests    *)
(* for completion with the mutex free.                                     *)
(***************************************************************************)
EXTENDS Integers, Sequences, FiniteSets

CONSTANTS
  Threads,    \* receive threads
  Consumers,  \* user threads
  Events,     \* <event number, data id> pairs
  Bytes,      \* Bytes[e]: length of event e
  Fragments,  \* [ev, off, len]: the fragments the segmenter cuts the events into
  Route,      \* Route[e]: the thread whose port e's entropy selects
  Ordered,    \* does the network keep the order of an event's fragments?
  Lossy,      \* may it lose a fragment?
  MaxDups,    \* bound: how many fragments it may duplicate
  MaxItems,   \* bound: how many EventQueueItems are made
  QSIZE, SizeMod, useCP,
  NoItem, NoThread

ASSUME ThreadsAssumption == IsFiniteSet(Threads) /\ IsFiniteSet(Consumers)
ASSUME SizesAssumption ==
  /\ MaxItems \in Nat /\ NoItem \notin 1 .. MaxItems /\ MaxDups \in Nat
  /\ QSIZE \in Nat \ {0} /\ SizeMod \in Nat /\ SizeMod > QSIZE
ASSUME FlagsAssumption == {Ordered, Lossy, useCP} \subseteq BOOLEAN
ASSUME RouteAssumption == Route \in [Events -> Threads] /\ NoThread \notin Threads
ASSUME BytesAssumption == Bytes \in [Events -> Nat \ {0}]
ASSUME FragmentsAssumption ==
  \A f \in Fragments : /\ f.ev \in Events /\ f.off \in Nat /\ f.len \in Nat \ {0}
                       /\ f.off + f.len <= Bytes[f.ev]

(* The bytes of a fragment. The fragments of an event share none, and together
   they have all of them (Segmenter, FragmentsTile). *)
Span(f) == f.off .. (f.off + f.len - 1)
ASSUME TilingAssumption ==
  /\ \A f, g \in Fragments : f.ev = g.ev /\ f # g => Span(f) \cap Span(g) = {}
  /\ \A e \in Events : \A x \in 0 .. (Bytes[e] - 1) :
       \E f \in Fragments : f.ev = e /\ x \in Span(f)

VARIABLES
  (* the network *)
  net,              \* copies of each fragment in flight
  dups,             \* fragments duplicated so far
  (* receive threads *)
  rAt, rFrag, rItem, \* where each is, its fragment and its item
  items,            \* the EventQueueItems made so far; an item is its index
  eventsInProgress, \* the map of the event's thread: its item, or NoItem
  old,              \* items in progress for longer than eventTimeout_ms
  (* the garbage collector *)
  gAt, gLeft, gThread, gOld,
  (* losses and statistics *)
  lostEvents, lostEventsQueue, enqueueLoss, reassemblyLoss, eventSuccess,
  (* stopThreads() has returned *)
  stopReturned,
  (* histories *)
  handled,          \* fragments copied into an item
  collected,        \* items whose buffer the garbage collector deleted
  torn,             \* those it deleted while a receive thread was using them
  late,             \* items made after the collector's last look at their thread
  (* EventQueue *)
  eventQueue, eventQueueDepth, pAt, pItem, cAt, cItem, threadsStop, stopAt, ssAt, fill,
  offered, delivered, dropped, drained

Q == INSTANCE EventQueue WITH Items <- 1 .. MaxItems, Producers <- Threads

netVars  == <<net, dups>>
recvVars == <<rAt, rFrag, rItem, items, handled, late>>
mapVars  == <<eventsInProgress, old>>
gcVars   == <<gAt, gLeft, gThread, gOld, collected, torn>>
queueVars == <<eventQueue, eventQueueDepth, pAt, pItem, cAt, cItem, threadsStop, stopAt,
               ssAt, fill, offered, delivered, dropped, drained>>
lostVars == <<lostEvents, lostEventsQueue, enqueueLoss, reassemblyLoss>>
vars == <<netVars, recvVars, mapVars, gcVars, lostVars, eventSuccess, stopReturned, queueVars>>

NoFrag == [ev |-> NoItem, off |-> 0, len |-> 0]

Init ==
  /\ net = [f \in Fragments |-> 1]
  /\ dups = 0
  /\ rAt = [t \in Threads |-> "loop"]
  /\ rFrag = [t \in Threads |-> NoFrag]
  /\ rItem = [t \in Threads |-> NoItem]
  /\ items = <<>>
  /\ eventsInProgress = [e \in Events |-> NoItem]
  /\ old = {}
  /\ gAt = "top" /\ gLeft = {} /\ gThread = NoThread /\ gOld = {}
  /\ lostEvents = [t \in Threads |-> {}]
  /\ lostEventsQueue = <<>>
  /\ enqueueLoss = 0 /\ reassemblyLoss = 0 /\ eventSuccess = 0
  /\ stopReturned = FALSE
  /\ handled = {} /\ collected = {} /\ torn = {} /\ late = {}
  /\ Q!Init

-----------------------------------------------------------------------------
(* The network, and time *)

Lose(f) ==
  /\ Lossy /\ net[f] > 0
  /\ net' = [net EXCEPT ![f] = @ - 1]
  /\ UNCHANGED <<dups, recvVars, mapVars, gcVars, lostVars, eventSuccess, stopReturned, queueVars>>

Duplicate(f) ==
  /\ dups < MaxDups /\ net[f] > 0
  /\ net' = [net EXCEPT ![f] = @ + 1]
  /\ dups' = dups + 1
  /\ UNCHANGED <<recvVars, mapVars, gcVars, lostVars, eventSuccess, stopReturned, queueVars>>

InProgress == {eventsInProgress[e] : e \in Events} \ {NoItem}

(* eventTimeout_ms pass since the first segment of item b, the oldest that is
   not over time yet. *)
Age(b) ==
  /\ b \in InProgress \ old
  /\ \A c \in InProgress \ old : b <= c
  /\ old' = old \cup {b}
  /\ UNCHANGED <<netVars, recvVars, eventsInProgress, gcVars, lostVars, eventSuccess,
                 stopReturned, queueVars>>

-----------------------------------------------------------------------------
(* Receive threads *)

(* Top of the loop: select on the sockets, or exit on the stop flag. *)
Select(t) ==
  /\ rAt[t] = "loop" /\ ~threadsStop
  /\ rAt' = [rAt EXCEPT ![t] = "select"]
  /\ UNCHANGED <<netVars, rFrag, rItem, items, handled, late, mapVars, gcVars, lostVars,
                 eventSuccess, stopReturned, queueVars>>

(* Mutant: a thread also exits in the middle of enqueue(). *)
RecvExit_midEnqueue(t) ==
  /\ rAt[t] \in {"loop", "inqueue"} /\ threadsStop
  /\ pAt' = [pAt EXCEPT ![t] = "exited"]
  /\ rAt' = [rAt EXCEPT ![t] = "done"]
  /\ UNCHANGED <<netVars, rFrag, rItem, items, handled, late, mapVars, gcVars, lostVars,
                 eventSuccess, stopReturned>>
  /\ UNCHANGED <<eventQueue, eventQueueDepth, pItem, cAt, cItem, threadsStop, stopAt, ssAt,
                 fill, offered, delivered, dropped, drained>>

RecvExit(t) ==
  /\ rAt[t] = "loop"
  /\ Q!ProducerExit(t)
  /\ rAt' = [rAt EXCEPT ![t] = "done"]
  /\ UNCHANGED <<netVars, rFrag, rItem, items, handled, late, mapVars, gcVars, lostVars,
                 eventSuccess, stopReturned>>

(* Mutant: select() has no timeout. *)
EndPass_noTimeout(t) ==
  /\ rAt[t] = "select"
  /\ \E f \in Fragments : Route[f.ev] = t /\ net[f] > 0
  /\ rAt' = [rAt EXCEPT ![t] = "loop"]
  /\ UNCHANGED <<netVars, rFrag, rItem, items, handled, late, mapVars, gcVars, lostVars,
                 eventSuccess, stopReturned, queueVars>>

(* No socket of this pass has a (valid) fragment left. *)
EndPass(t) ==
  /\ rAt[t] = "select"
  /\ rAt' = [rAt EXCEPT ![t] = "loop"]
  /\ UNCHANGED <<netVars, rFrag, rItem, items, handled, late, mapVars, gcVars, lostVars,
                 eventSuccess, stopReturned, queueVars>>

(* Thread t takes fragment f off a socket and can lock its map. *)
Arrives(t, f) ==
  /\ rAt[t] = "select" /\ gThread # t
  /\ Route[f.ev] = t /\ net[f] > 0
  /\ Ordered => \A g \in Fragments : g.ev = f.ev /\ g.off < f.off => net[g] = 0
  /\ net' = [net EXCEPT ![f] = @ - 1]
  /\ rAt' = [rAt EXCEPT ![t] = "copy"]
  /\ rFrag' = [rFrag EXCEPT ![t] = f]

(* Mutant: every fragment makes an item. *)
StartItem_always(t, f) ==
  /\ Arrives(t, f)
  /\ Len(items) < MaxItems
  /\ items' = Append(items, [ev |-> f.ev, curBytes |-> 0, got |-> {}])
  /\ eventsInProgress' = [eventsInProgress EXCEPT ![f.ev] = Len(items) + 1]
  /\ rItem' = [rItem EXCEPT ![t] = Len(items) + 1]
  /\ late' = IF gAt = "done" \/ (gAt = "drain" /\ t \notin gLeft)
               THEN late \cup {Len(items) + 1} ELSE late
  /\ old' = old \ {eventsInProgress[f.ev]}
  /\ UNCHANGED <<dups, handled, gcVars, lostVars, eventSuccess, stopReturned, queueVars>>

(* A fragment at offset 0, or of an event not in progress: make a new item and
   enter it in the map, over whatever the map holds. *)
StartItem(t, f) ==
  /\ Arrives(t, f)
  /\ f.off = 0 \/ eventsInProgress[f.ev] = NoItem
  /\ Len(items) < MaxItems
  /\ items' = Append(items, [ev |-> f.ev, curBytes |-> 0, got |-> {}])
  /\ eventsInProgress' = [eventsInProgress EXCEPT ![f.ev] = Len(items) + 1]
  /\ rItem' = [rItem EXCEPT ![t] = Len(items) + 1]
  /\ late' = IF gAt = "done" \/ (gAt = "drain" /\ t \notin gLeft)
               THEN late \cup {Len(items) + 1} ELSE late
  /\ old' = old \ {eventsInProgress[f.ev]}
  /\ UNCHANGED <<dups, handled, gcVars, lostVars, eventSuccess, stopReturned, queueVars>>

(* Any other fragment joins the item in the map. *)
JoinItem(t, f) ==
  /\ Arrives(t, f)
  /\ f.off # 0 /\ eventsInProgress[f.ev] # NoItem
  /\ rItem' = [rItem EXCEPT ![t] = eventsInProgress[f.ev]]
  /\ UNCHANGED <<dups, items, handled, late, mapVars, gcVars, lostVars, eventSuccess,
                 stopReturned, queueVars>>

(* Item i with the bytes of fragment f copied in, and counted. *)
Filled(i, f) == [ev |-> i.ev, curBytes |-> i.curBytes + f.len, got |-> i.got \cup Span(f)]

(* Mutant: the fragment is copied behind its place. *)
Copy_pastEnd(t) ==
  LET f == rFrag[t]
      b == rItem[t]
      full == items[b].curBytes + f.len = Bytes[f.ev]
  IN  /\ rAt[t] = "copy"
      /\ items' = [items EXCEPT ![b] = Filled(@, [f EXCEPT !.off = @ + f.len])]
      /\ handled' = handled \cup {f}
      /\ rAt' = [rAt EXCEPT ![t] = IF full THEN "erase" ELSE "select"]
      /\ rFrag' = [rFrag EXCEPT ![t] = NoFrag]
      /\ rItem' = [rItem EXCEPT ![t] = IF full THEN b ELSE NoItem]
      /\ UNCHANGED <<netVars, late, mapVars, gcVars, lostVars, eventSuccess, stopReturned, queueVars>>

(* Mutant: an event is complete when its last fragment is in. *)
Copy_lastFragment(t) ==
  LET f == rFrag[t]
      b == rItem[t]
      full == f.off + f.len = Bytes[f.ev]
  IN  /\ rAt[t] = "copy"
      /\ items' = [items EXCEPT ![b] = Filled(@, f)]
      /\ handled' = handled \cup {f}
      /\ rAt' = [rAt EXCEPT ![t] = IF full THEN "erase" ELSE "select"]
      /\ rFrag' = [rFrag EXCEPT ![t] = NoFrag]
      /\ rItem' = [rItem EXCEPT ![t] = IF full THEN b ELSE NoItem]
      /\ UNCHANGED <<netVars, late, mapVars, gcVars, lostVars, eventSuccess, stopReturned, queueVars>>

(* Copy the fragment into the event buffer and count its bytes, unlocked. *)
Copy(t) ==
  LET f == rFrag[t]
      b == rItem[t]
      full == items[b].curBytes + f.len = Bytes[f.ev]
  IN  /\ rAt[t] = "copy"
      /\ items' = [items EXCEPT ![b] = Filled(@, f)]
      /\ handled' = handled \cup {f}
      /\ rAt' = [rAt EXCEPT ![t] = IF full THEN "erase" ELSE "select"]
      /\ rFrag' = [rFrag EXCEPT ![t] = NoFrag]
      /\ rItem' = [rItem EXCEPT ![t] = IF full THEN b ELSE NoItem]
      /\ UNCHANGED <<netVars, late, mapVars, gcVars, lostVars, eventSuccess, stopReturned, queueVars>>

(* Mutant: the key stays in the map. *)
Erase_keepsKey(t) ==
  /\ rAt[t] = "erase" /\ gThread # t
  /\ rAt' = [rAt EXCEPT ![t] = "enqueue"]
  /\ UNCHANGED <<netVars, rFrag, rItem, items, handled, late, mapVars, gcVars, lostVars,
                 eventSuccess, stopReturned, queueVars>>

(* The event is complete: erase its key from the map. *)
Erase(t) ==
  /\ rAt[t] = "erase" /\ gThread # t
  /\ eventsInProgress' = [eventsInProgress EXCEPT ![items[rItem[t]].ev] = NoItem]
  /\ old' = old \ {rItem[t]}
  /\ rAt' = [rAt EXCEPT ![t] = "enqueue"]
  /\ UNCHANGED <<netVars, rFrag, rItem, items, handled, late, gcVars, lostVars,
                 eventSuccess, stopReturned, queueVars>>

(* Call enqueue() with it, and go through it. *)
CallEnqueue(t) ==
  /\ rAt[t] = "enqueue"
  /\ Q!Offer(t, rItem[t])
  /\ rAt' = [rAt EXCEPT ![t] = "inqueue"]
  /\ UNCHANGED <<netVars, rFrag, rItem, items, handled, late, mapVars, gcVars, lostVars,
                 eventSuccess, stopReturned>>

InEnqueue(t) ==
  /\ Q!PushAccepted(t) \/ Q!PushRefused(t)
  /\ UNCHANGED <<netVars, recvVars, mapVars, gcVars, lostVars, eventSuccess, stopReturned>>

Enqueued(t) ==
  /\ Q!CountPush(t)
  /\ rAt' = [rAt EXCEPT ![t] = "success"]
  /\ UNCHANGED <<netVars, rFrag, rItem, items, handled, late, mapVars, gcVars, lostVars,
                 eventSuccess, stopReturned>>

(* Mutant: an event is counted each time it is lost. *)
LogLostEvent_again(t, e, enqueLoss) ==
  /\ lostEvents' = [lostEvents EXCEPT ![t] = @ \cup {e}]
  /\ lostEventsQueue' = Append(lostEventsQueue, e)
  /\ enqueueLoss' = enqueueLoss + (IF enqueLoss THEN 1 ELSE 0)
  /\ reassemblyLoss' = reassemblyLoss + (IF enqueLoss THEN 0 ELSE 1)

(* logLostEvent() for thread t: an event is logged and counted once. *)
LogLostEvent(t, e, enqueLoss) ==
  IF e \in lostEvents[t] THEN UNCHANGED lostVars
  ELSE /\ lostEvents' = [lostEvents EXCEPT ![t] = @ \cup {e}]
       /\ lostEventsQueue' = Append(lostEventsQueue, e)
       /\ enqueueLoss' = enqueueLoss + (IF enqueLoss THEN 1 ELSE 0)
       /\ reassemblyLoss' = reassemblyLoss + (IF enqueLoss THEN 0 ELSE 1)

(* Mutant: and try again to enqueue it. *)
EnqueueFailed_retries(t) ==
  /\ Q!Drop(t)
  /\ LogLostEvent(t, items[rItem[t]].ev, TRUE)
  /\ rAt' = [rAt EXCEPT ![t] = "enqueue"]
  /\ UNCHANGED <<netVars, rFrag, rItem, items, handled, late, mapVars, gcVars, eventSuccess,
                 stopReturned>>

(* enqueue() returned 1: log the event as lost and delete its buffer. *)
EnqueueFailed(t) ==
  /\ Q!Drop(t)
  /\ LogLostEvent(t, items[rItem[t]].ev, TRUE)
  /\ rAt' = [rAt EXCEPT ![t] = "success"]
  /\ UNCHANGED <<netVars, rFrag, rItem, items, handled, late, mapVars, gcVars, eventSuccess,
                 stopReturned>>

(* Enqueued or not, count a success and go on to the next socket. *)
CountSuccess(t) ==
  /\ rAt[t] = "success"
  /\ eventSuccess' = eventSuccess + 1
  /\ rItem' = [rItem EXCEPT ![t] = NoItem]
  /\ rAt' = [rAt EXCEPT ![t] = "select"]
  /\ UNCHANGED <<netVars, rFrag, items, handled, late, mapVars, gcVars, lostVars, stopReturned, queueVars>>

-----------------------------------------------------------------------------
(* The garbage collector *)

(* Items a receive thread is working on with its mutex free. *)
InUse == {rItem[t] : t \in {u \in Threads : rAt[u] \in {"copy", "erase", "enqueue"}}}

Delete(B) == collected' = collected \cup B /\ torn' = torn \cup (B \cap InUse)

(* Mutant: the time is taken once, before the loop. *)
GCPass_once ==
  /\ gAt = "top" /\ ~threadsStop
  /\ gAt' = "scan" /\ gLeft' = Threads
  /\ UNCHANGED <<netVars, recvVars, mapVars, gThread, gOld, collected, torn, lostVars,
                 eventSuccess, stopReturned, queueVars>>

(* Top of the loop: take the time, which decides what this pass collects. *)
GCPass ==
  /\ gAt = "top" /\ ~threadsStop
  /\ gAt' = "scan" /\ gLeft' = Threads /\ gOld' = old
  /\ UNCHANGED <<netVars, recvVars, mapVars, gThread, collected, torn, lostVars,
                 eventSuccess, stopReturned, queueVars>>

(* Lock the next thread's map. *)
GCLock(t) ==
  /\ gAt = "scan" /\ gThread = NoThread /\ t \in gLeft
  /\ gThread' = t /\ gLeft' = gLeft \ {t}
  /\ UNCHANGED <<netVars, recvVars, mapVars, gAt, gOld, collected, torn, lostVars,
                 eventSuccess, stopReturned, queueVars>>

Expired(e) == Route[e] = gThread /\ eventsInProgress[e] \in gOld

(* Mutant: the buffer is not deleted. *)
GCCollect_leaks(e) ==
  /\ gAt = "scan" /\ gThread # NoThread /\ Expired(e)
  /\ LogLostEvent(gThread, e, FALSE)
  /\ eventsInProgress' = [eventsInProgress EXCEPT ![e] = NoItem]
  /\ old' = old \ {eventsInProgress[e]}
  /\ UNCHANGED <<netVars, recvVars, gAt, gLeft, gThread, gOld, collected, torn, eventSuccess,
                 stopReturned, queueVars>>

(* Mutant: the key stays in the map. *)
GCCollect_keepsKey(e) ==
  /\ gAt = "scan" /\ gThread # NoThread /\ Expired(e)
  /\ LogLostEvent(gThread, e, FALSE)
  /\ Delete({eventsInProgress[e]})
  /\ gOld' = gOld \ {eventsInProgress[e]}
  /\ UNCHANGED <<netVars, recvVars, mapVars, gAt, gLeft, gThread, eventSuccess,
                 stopReturned, queueVars>>

(* Event e has waited too long: log it as lost, delete its buffer, erase it. *)
GCCollect(e) ==
  /\ gAt = "scan" /\ gThread # NoThread /\ Expired(e)
  /\ LogLostEvent(gThread, e, FALSE)
  /\ Delete({eventsInProgress[e]})
  /\ eventsInProgress' = [eventsInProgress EXCEPT ![e] = NoItem]
  /\ old' = old \ {eventsInProgress[e]}
  /\ UNCHANGED <<netVars, recvVars, gAt, gLeft, gThread, gOld, eventSuccess,
                 stopReturned, queueVars>>

(* Nothing left to collect in this map: unlock it; after the last, sleep. *)
GCUnlock ==
  /\ gAt = "scan" /\ gThread # NoThread /\ \A e \in Events : ~Expired(e)
  /\ gThread' = NoThread
  /\ gAt' = IF gLeft = {} THEN "top" ELSE "scan"
  /\ gOld' = IF gLeft = {} THEN {} ELSE gOld
  /\ UNCHANGED <<netVars, recvVars, mapVars, gLeft, collected, torn, lostVars,
                 eventSuccess, stopReturned, queueVars>>

(* The stop flag is set: drain the maps, whatever the receive threads do. *)
GCStop ==
  /\ gAt = "top" /\ threadsStop
  /\ gAt' = "drain" /\ gLeft' = Threads
  /\ UNCHANGED <<netVars, recvVars, mapVars, gThread, gOld, collected, torn, lostVars,
                 eventSuccess, stopReturned, queueVars>>

(* Delete and erase all that thread t has in progress, without its mutex. *)
GCDrain(t) ==
  /\ gAt = "drain" /\ t \in gLeft
  /\ Delete({eventsInProgress[e] : e \in {d \in Events : Route[d] = t}} \ {NoItem})
  /\ eventsInProgress' = [e \in Events |-> IF Route[e] = t THEN NoItem ELSE eventsInProgress[e]]
  /\ gLeft' = gLeft \ {t}
  /\ gAt' = IF gLeft' = {} THEN "done" ELSE "drain"
  /\ old' = old \ {eventsInProgress[e] : e \in {d \in Events : Route[d] = t}}
  /\ UNCHANGED <<netVars, recvVars, gThread, gOld, lostVars, eventSuccess,
                 stopReturned, queueVars>>

-----------------------------------------------------------------------------
(* The user: events, lost events, stopThreads() *)

NotQueue == <<netVars, recvVars, mapVars, gcVars, lostVars, eventSuccess, stopReturned>>

Consume(c) ==
  /\ Q!Call(c) \/ Q!Dequeue(c) \/ Q!Wait(c) \/ Q!WaitTimeout(c) \/ Q!GiveUp(c)
  /\ UNCHANGED NotQueue

SendState ==
  /\ Q!Sample \/ Q!Report \/ Q!SendStateExit
  /\ UNCHANGED NotQueue

StopThreads == Q!StopThreads /\ UNCHANGED NotQueue

StopDrain == Q!Drain /\ UNCHANGED NotQueue

GetLostEvent ==
  /\ lostEventsQueue # <<>>
  /\ lostEventsQueue' = Tail(lostEventsQueue)
  /\ UNCHANGED <<netVars, recvVars, mapVars, gcVars, lostEvents, enqueueLoss, reassemblyLoss,
                 eventSuccess, stopReturned, queueVars>>

(* Mutant: the garbage collector is not joined. *)
StopReturn_noJoin ==
  /\ stopAt = "stopped" /\ ~stopReturned
  /\ lostEventsQueue' = <<>>
  /\ stopReturned' = TRUE
  /\ UNCHANGED <<netVars, recvVars, mapVars, gcVars, lostEvents, enqueueLoss, reassemblyLoss,
                 eventSuccess, queueVars>>

(* The queue is drained and the garbage collector joined: drain the lost
   events and return. *)
StopReturn ==
  /\ stopAt = "stopped" /\ gAt = "done" /\ ~stopReturned
  /\ lostEventsQueue' = <<>>
  /\ stopReturned' = TRUE
  /\ UNCHANGED <<netVars, recvVars, mapVars, gcVars, lostEvents, enqueueLoss, reassemblyLoss,
                 eventSuccess, queueVars>>

-----------------------------------------------------------------------------

(* What receive thread t does by itself; a fragment's arrival is the network's. *)
RecvStep(t) ==
  \/ Select(t) \/ RecvExit(t) \/ EndPass(t)
  \/ Copy(t) \/ Erase(t) \/ CallEnqueue(t) \/ InEnqueue(t)
  \/ Enqueued(t) \/ EnqueueFailed(t) \/ CountSuccess(t)

GCStep ==
  \/ GCPass \/ GCUnlock \/ GCStop
  \/ \E t \in Threads : GCLock(t) \/ GCDrain(t)
  \/ \E e \in Events : GCCollect(e)

Next ==
  \/ \E f \in Fragments :
       Lose(f) \/ Duplicate(f) \/ \E t \in Threads : StartItem(t, f) \/ JoinItem(t, f)
  \/ \E b \in InProgress : Age(b)
  \/ \E t \in Threads : RecvStep(t)
  \/ GCStep
  \/ \E c \in Consumers : Consume(c)
  \/ SendState \/ StopThreads \/ StopDrain \/ GetLostEvent \/ StopReturn

SafeSpec == Init /\ [][Next]_vars

(* Each thread keeps running, and time passes. Nothing is asked of the network
   or the user. *)
Fairness ==
  /\ \A t \in Threads : WF_vars(RecvStep(t))
  /\ WF_vars(GCStep)
  /\ WF_vars(SendState)
  /\ WF_vars(\E b \in InProgress : Age(b))
  /\ WF_vars(StopDrain) /\ WF_vars(StopReturn)

Spec == SafeSpec /\ Fairness

-----------------------------------------------------------------------------
(* Properties *)

TypeOK ==
  /\ net \in [Fragments -> Nat]
  /\ dups \in 0 .. MaxDups
  /\ rAt \in [Threads -> {"loop", "select", "copy", "erase", "enqueue", "inqueue",
                          "success", "done"}]
  /\ rFrag \in [Threads -> Fragments \cup {NoFrag}]
  /\ rItem \in [Threads -> (1 .. Len(items)) \cup {NoItem}]
  /\ Len(items) <= MaxItems
  /\ \A b \in 1 .. Len(items) : /\ items[b].ev \in Events
                                /\ items[b].curBytes \in Nat
                                /\ items[b].got \subseteq 0 .. (Bytes[items[b].ev] - 1)
  /\ eventsInProgress \in [Events -> (1 .. Len(items)) \cup {NoItem}]
  /\ old \subseteq InProgress
  /\ gAt \in {"top", "scan", "drain", "done"}
  /\ gLeft \subseteq Threads
  /\ gThread \in Threads \cup {NoThread}
  /\ gOld \subseteq 1 .. Len(items)
  /\ lostEvents \in [Threads -> SUBSET Events]
  /\ enqueueLoss \in Nat /\ reassemblyLoss \in Nat /\ eventSuccess \in Nat
  /\ stopReturned \in BOOLEAN
  /\ handled \subseteq Fragments
  /\ collected \cup torn \cup late \subseteq 1 .. Len(items)
  /\ Q!TypeOK

Made      == 1 .. Len(items)
Whole(b)  == items[b].got = 0 .. (Bytes[items[b].ev] - 1)
Released  == collected \cup delivered \cup dropped \cup drained

(* A completed item reaches enqueue() at most once, so the queue never holds
   two pointers to one event buffer. *)
HandedOnce == \A t \in Threads : rAt[t] \in {"erase", "enqueue"} => rItem[t] \notin offered

(* The bytes of an event in the queue or beyond are all there, unless two of
   its fragments overlapped (a duplicate was counted twice). *)
QueuedIsWhole ==
  \A b \in offered : Cardinality(items[b].got) = items[b].curBytes => Whole(b)

(* The garbage collector deletes no buffer that went into the queue, unless it
   took it from under a receive thread. *)
CollectedNotQueued == collected \cap offered \subseteq torn

(* Every event buffer not released yet is still somewhere: in the map, with a
   receive thread, in the queue or with a consumer. *)
NothingStranded ==
  Made \subseteq Released \cup InProgress \cup offered \cup {rItem[t] : t \in Threads}

(* An event that was logged as lost is not given to the user as well. *)
LostNotDelivered ==
  \A t \in Threads, b \in delivered \ torn : items[b].ev \notin lostEvents[t]

(* "count this fragment received (it could be anywhere in the event)": once
   all fragments of an event have been copied, the event is whole, unless it
   timed out or the maps are being drained. *)
AllArrivedIsWhole ==
  \A e \in Events :
    ({f \in Fragments : f.ev = e} \subseteq handled /\ e \notin lostEvents[Route[e]]
       /\ gAt \notin {"drain", "done"})
      => \E b \in Made : items[b].ev = e /\ Whole(b)

(* "mutex for guarding access to events in progress (recv thread, gc thread)":
   no receive thread works on an item whose buffer the collector deleted. *)
NoUseAfterCollect == InUse \cap collected = {}

(* As long as enqueue() refuses nothing, eventSuccess counts each event given to
   it once. The two loss counters together count each event logged as lost once,
   however often it is lost. *)
StatsAgree ==
  /\ dropped = {} =>
       eventSuccess + Cardinality({t \in Threads : rAt[t] \in {"inqueue", "success"}})
         = Cardinality(offered)
  /\ enqueueLoss + reassemblyLoss = Cardinality(UNION {lostEvents[t] : t \in Threads})

(* "number of events received and lost on enqueue", "events successfully
   processed": no event that enqueue() refused is a success. *)
SuccessNotLost == eventSuccess <= Cardinality(offered \ dropped)

(* "number of events lost in reassembly due to missing segments": the user gets
   no event of which bytes are missing. *)
DeliveredIsWhole == \A b \in delivered : Whole(b)

(* When stopThreads() returns, every event buffer has been released or is with
   a consumer, except those of events that began after the collector's drain of
   their thread. *)
StopReleases ==
  stopReturned => Made \subseteq Released \cup late \cup {cItem[c] : c \in Consumers}

(* "drain in progress queues in threads": when stopThreads() returns, every event
   buffer that is not with a consumer has been released. *)
StopReleasesAll ==
  stopReturned => Made \subseteq Released \cup {cItem[c] : c \in Consumers}

(* An event in progress is completed, collected or overtaken by a stop. *)
InProgressResolved ==
  \A e \in Events : (eventsInProgress[e] # NoItem) ~> (eventsInProgress[e] = NoItem \/ threadsStop)

(* stopThreads() returns. *)
StopReturns == (stopAt = "joining") ~> stopReturned

(* The threads use the queue as EventQueue allows. *)
QueueSpec == Q!SafeSpec
=============================================================================
