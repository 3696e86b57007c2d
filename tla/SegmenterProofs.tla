-------------------------- MODULE SegmenterProofs --------------------------
(***************************************************************************)
(* Proofs about Segmenter, for any users, workers, events, lengths,        *)
(* sockets, queue capacity and choice of optimization: who has an event,   *)
(* which of its fragments were sent, what the rings hold and when its      *)
(* callback comes; and so what the statistics, outstandingSends and        *)
(* stopThreads() promise.                                                  *)
(***************************************************************************)
EXTENDS Segmenter, FiniteSetTheorems, TLAPS

-----------------------------------------------------------------------------
(* The inductive invariants *)

UserPlaces   == {"out", "enqueue", "direct", "push", "send"}
WorkerPlaces == {"idle", "lock", "send", "reap", "callback"}
Rings        == mode = "liburing_send"

(* Threads and queues: a thread has an event unless it is out or idle, and an
   offset while it sends. *)
HandInv ==
  /\ mode \in Modes
  /\ at \in [Threads -> UserPlaces \cup WorkerPlaces]
  /\ ev \in [Threads -> Events \cup {NoEvent}]
  /\ curOffset \in [Threads -> Nat]
  /\ rri \in [Threads -> Sockets] /\ roundRobinIndex \in Sockets
  /\ eventQueue \in Seq(Events) /\ Len(eventQueue) <= QSIZE
  /\ pool \in Seq([ev : Events, rri : Sockets])
  /\ sendAt \in {"check", "pop", "post", "join", "done"}
  /\ sendItem \in Events \cup {NoEvent} /\ (sendItem # NoEvent <=> sendAt = "post")
  /\ \A u \in Users : at[u] \in UserPlaces /\ (ev[u] = NoEvent <=> at[u] = "out")
  /\ \A w \in Workers : /\ at[w] \in WorkerPlaces /\ (ev[w] = NoEvent <=> at[w] = "idle")
                        /\ at[w] \in {"lock", "reap"} => Rings
                        /\ at[w] = "callback" => ~Rings
  /\ \A t \in Threads : at[t] # "send" => curOffset[t] = 0

Queued  == {eventQueue[k] : k \in DOMAIN eventQueue}
Posting == {sendItem} \ {NoEvent}
Posted  == {pool[k].ev : k \in DOMAIN pool}
Working == {ev[w] : w \in Workers} \ {NoEvent}

(* No event is in two hands, or twice in a queue. *)
NoneTwice ==
  /\ \A u, v \in Users : ev[u] = ev[v] /\ ev[u] # NoEvent => u = v
  /\ \A w, v \in Workers : ev[w] = ev[v] /\ ev[w] # NoEvent => w = v
  /\ \A k, l \in DOMAIN eventQueue : eventQueue[k] = eventQueue[l] => k = l
  /\ \A k, l \in DOMAIN pool : pool[k].ev = pool[l].ev => k = l

(* The events that were accepted are in one of five places. *)
Apart ==
  /\ Queued \cap (Posting \cup Posted \cup Working \cup finished) = {}
  /\ Posting \cap (Posted \cup Working \cup finished) = {}
  /\ Posted \cap (Working \cup finished) = {}
  /\ Working \cap finished = {}

OwnInv ==
  /\ NoneTwice /\ Apart
  /\ accepted = Queued \cup Posting \cup Posted \cup Working \cup finished
  /\ accepted \subseteq used /\ used \subseteq Events
  /\ \A u \in Users : ev[u] # NoEvent => ev[u] \in used \ accepted

(* An event whose _send() has returned is with its worker or finished. *)
Done == complete \cup failed

DoneInv ==
  /\ Done \subseteq used /\ finished \subseteq Done /\ complete \cap failed = {}
  /\ IsFiniteSet(complete) /\ IsFiniteSet(failed)
  /\ Done \cap accepted \subseteq Working \cup finished
  /\ \A t \in Threads : ev[t] \in Done <=> at[t] \in {"reap", "callback"}
  /\ Rings => failed = {}

(* The first k fragments of event e, and where the next one begins. *)
First(e, k) == {Fragments(e)[j] : j \in 1 .. k}
Reached(e, k) == IF k = numBuffers(e) THEN Bytes[e] ELSE k * maxPldLen

(* What was sent of an event is its first fragments, up to the offset of the
   thread that sends it, or all of them. *)
SentInv ==
  /\ \A f \in sent : f.ev \in Done \/ \E t \in Threads : at[t] = "send" /\ ev[t] = f.ev
  /\ \A e \in Events : \E k \in 0 .. numBuffers(e) :
       /\ SentOf(e) = First(e, k)
       /\ e \in complete => k = numBuffers(e)
       /\ \A t \in Threads : at[t] = "send" /\ ev[t] = e =>
            curOffset[t] = Reached(e, k) /\ (mode = "sendmmsg" => k = 0)

(* The rings have a fragment once, as long as it was sent and not reaped. *)
RingInv ==
  /\ submitted \subseteq [frag : sent, ring : Sockets, last : BOOLEAN]
  /\ completed \subseteq [frag : sent, ring : Sockets, last : BOOLEAN, ok : BOOLEAN]
  /\ \A s, c \in submitted : s.frag = c.frag => s = c
  /\ \A s, c \in completed : s.frag = c.frag => s = c
  /\ \A s \in submitted, c \in completed : s.frag # c.frag
  /\ ~Rings => submitted = {} /\ completed = {}
  /\ IsFiniteSet(sent) /\ IsFiniteSet(submitted) /\ IsFiniteSet(completed)

(* Fragments sent by threads that have not counted them yet. *)
Uncounted == {f \in sent : f.ev \notin complete}

(* What the code counts. A sendmsg() that fails is a message as well as an error,
   and a sendmmsg() that takes nothing is one error more than it has fragments. *)
CountInv ==
  /\ outstandingSends \in Int /\ msgCnt \in Nat /\ errCnt \in Nat
  /\ Rings => outstandingSends + Cardinality(Uncounted) = Cardinality(submitted) + Cardinality(completed)
  /\ ~Rings => outstandingSends = 0
  /\ ~Rings => (errCnt = 0 <=> failed = {})
  /\ mode = "sendmsg" => msgCnt = Cardinality(sent) + errCnt
  /\ mode = "sendmmsg" => /\ msgCnt <= Cardinality(sent) + errCnt
                          /\ Cardinality(sent) + errCnt <= msgCnt + Cardinality(failed)
  /\ Rings => msgCnt = Cardinality(sent)
  /\ eventsInCurrentSync \in Nat /\ reported \in Nat
  /\ eventsInCurrentSync + reported = Cardinality(complete)

(* Entries that carry the callback of event e. *)
Last(e) == {s \in submitted \cup completed : s.last /\ s.frag.ev = e}

(* With rings, a callback rides on the last fragment of a queued event, and is
   reaped when the worker that sent it no longer holds the ring. *)
CallInv ==
  /\ called \in [Events -> {0, 1}]
  /\ ~Rings => \A e \in Events : called[e] = 1 <=> e \in finished
  /\ Rings => \A e \in Events :
       /\ called[e] = 1 => e \in accepted \cap complete
       /\ \A s \in Last(e) :
            /\ called[e] = 0 /\ e \in accepted /\ s.frag.off + s.frag.len >= Bytes[e]
            /\ e \in complete \/ \E w \in Workers : at[w] = "send" /\ ev[w] = e /\ rri[w] = s.ring
       /\ e \in accepted \cap complete /\ Bytes[e] # 0 => called[e] = 1 \/ Last(e) # {}
  /\ Rings => \A w \in Workers :
       at[w] = "send" /\ curOffset[w] = Bytes[ev[w]] /\ Bytes[ev[w]] # 0 => Last(ev[w]) # {}
  /\ Rings => \A w, v \in Workers :
       w # v /\ at[w] \in {"send", "reap"} /\ at[v] \in {"send", "reap"} => rri[w] # rri[v]

(* Once the queue was seen empty, what was in it when stopThreads() was called
   is on its way; once the send thread is done, it has arrived. *)
FlushInv ==
  /\ early \subseteq accepted
  /\ stopAt \notin {"run", "waiting"} => early \cap Queued = {}
  /\ stopAt \in {"joinSync", "stopped"} => sendAt = "done"
  /\ sendAt = "done" => /\ PoolIdle
                        /\ Rings /\ Direct = {} => submitted = {} /\ completed = {}

-----------------------------------------------------------------------------
(* Arithmetic of the fragments *)

(* Products grow with their first factor. *)
LEMMA MulMono ==
  ASSUME NEW a \in Nat, NEW b \in Nat, NEW m \in Nat, a <= b
  PROVE  a * m \in Nat /\ b * m \in Nat /\ a * m <= b * m
  OBVIOUS

LEMMA MulNext ==
  ASSUME NEW a \in Nat, NEW m \in Nat
  PROVE  (a + 1) * m = a * m + m /\ a * m \in Nat
  OBVIOUS

(* The last buffer is the first that reaches the end of the event. *)
LEMMA BuffersCover ==
  ASSUME NEW e \in Events
  PROVE  /\ numBuffers(e) \in Nat /\ Bytes[e] \in Nat /\ maxPldLen \in Nat \ {0}
         /\ Bytes[e] <= numBuffers(e) * maxPldLen
         /\ numBuffers(e) # 0 => (numBuffers(e) - 1) * maxPldLen < Bytes[e]
         /\ numBuffers(e) = 0 <=> Bytes[e] = 0
  <1>. DEFINE M == maxPldLen
              B == Bytes[e]
              n == numBuffers(e)
  <1>1. B \in Nat /\ M \in Nat \ {0}
    BY EventsAssumption, SizesAssumption
  <1>2. n = (B + M - 1) \div M
    BY DEF numBuffers
  <1>. HIDE DEF M, B, n
  <1>3. /\ n \in Nat /\ M * n <= B + M - 1 /\ B + M - 1 < M * n + M
    BY <1>1, <1>2
  <1>4. n # 0 => (n - 1) * M = M * n - M
    BY <1>1, <1>3
  <1>5. n * M = M * n
    BY <1>1, <1>3
  <1>6. n # 0 => n * M >= M
    BY <1>1, <1>3
  <1>. DEFINE p == M * n
  <1>7. p \in Nat /\ (n # 0 => p >= M) /\ (n = 0 => p = 0)
    BY <1>1, <1>3, <1>5, <1>6
  <1>. HIDE DEF p
  <1>8. B <= p /\ (n # 0 => p - M < B) /\ (n = 0 <=> B = 0)
    BY <1>1, <1>3, <1>7 DEF p
  <1>9. B <= n * M /\ (n # 0 => (n - 1) * M < B)
    BY <1>8, <1>4, <1>5 DEF p
  <1>. QED
    BY <1>1, <1>3, <1>8, <1>9 DEF M, B, n

(* Fragment k + 1 begins where k fragments reach, and ends where k + 1 do. *)
LEMMA FragmentAt ==
  ASSUME NEW e \in Events, NEW k \in 0 .. numBuffers(e) - 1
  PROVE  /\ Fragments(e)[k + 1] = Fragment(e, Reached(e, k))
         /\ Fragment(e, Reached(e, k)).ev = e
         /\ Fragment(e, Reached(e, k)).off = k * maxPldLen
         /\ Fragment(e, Reached(e, k)).len \in 1 .. maxPldLen
         /\ Reached(e, k) = k * maxPldLen /\ Reached(e, k) \in Nat
         /\ Reached(e, k + 1) = Reached(e, k) + PldLen(e, Reached(e, k))
         /\ Reached(e, k) < Bytes[e]
         /\ Reached(e, k + 1) \in Nat
         /\ Reached(e, k + 1) >= Bytes[e] <=> k + 1 = numBuffers(e)
  <1>. DEFINE M == maxPldLen
              B == Bytes[e]
              n == numBuffers(e)
              o == k * M
              p == (k + 1) * M
  <1>1. /\ n \in Nat /\ B \in Nat /\ M \in Nat \ {0} /\ B <= n * M
        /\ n # 0 => (n - 1) * M < B
    BY BuffersCover
  <1>2. k \in Nat /\ k < n /\ k <= n - 1 /\ k + 1 \in 1 .. n /\ (k + 1) - 1 = k
    BY <1>1
  <1>3. Fragments(e)[k + 1] = Fragment(e, o)
    BY <1>2 DEF Fragments
  <1>4. Reached(e, k) = o
    BY <1>1, <1>2 DEF Reached
  <1>5. Reached(e, k + 1) = IF k + 1 = n THEN B ELSE p
    BY DEF Reached
  <1>6. /\ Fragment(e, o).off = o /\ Fragment(e, o).len = PldLen(e, o)
        /\ PldLen(e, o) = (IF B > o + M THEN M ELSE B - o) /\ Fragment(e, o).ev = e
    BY DEF Fragment, PldLen
  <1>. HIDE DEF M, B, n
  <1>7. /\ n - 1 \in Nat /\ k * M <= (n - 1) * M /\ p = o + M /\ o \in Nat
    BY <1>1, <1>2, MulMono, MulNext
  <1>8. k + 1 # n => (k + 1) * M <= (n - 1) * M /\ (n - 1) * M < B
    BY <1>1, <1>2, MulMono
  <1>9. k + 1 = n => B <= p
    BY <1>1
  <1>. HIDE DEF o, p
  <1>10. o < B
    BY <1>1, <1>2, <1>7 DEF o
  <1>11. k + 1 # n => p < B
    BY <1>1, <1>8, <1>7 DEF p
  <1>. QED
    BY <1>1, <1>3, <1>4, <1>5, <1>6, <1>7, <1>9, <1>10, <1>11 DEF M, B, n, o, p

(* What k fragments reach grows with k, to the length of the event. *)
LEMMA ReachedBounds ==
  ASSUME NEW e \in Events, NEW k \in 0 .. numBuffers(e)
  PROVE  /\ Reached(e, k) \in 0 .. Bytes[e]
         /\ Reached(e, k) = Bytes[e] <=> k = numBuffers(e)
         /\ Reached(e, 0) = 0
  <1>1. numBuffers(e) \in Nat /\ Bytes[e] \in Nat /\ (numBuffers(e) = 0 <=> Bytes[e] = 0)
    BY BuffersCover
  <1>2. CASE k = numBuffers(e)
    BY <1>1, <1>2, SizesAssumption DEF Reached
  <1>3. ASSUME k # numBuffers(e)
        PROVE  Reached(e, k) \in Nat /\ Reached(e, k) < Bytes[e]
    BY <1>1, <1>3, FragmentAt
  <1>4. Reached(e, 0) = 0
    BY <1>1, SizesAssumption DEF Reached
  <1>. QED
    BY <1>1, <1>2, <1>3, <1>4

-----------------------------------------------------------------------------
(* Steps *)

(* Steps that leave events, fragments and counts alone. *)
Aside == CheckStop \/ SendExit \/ Sync \/ SyncExit \/ StopThreads \/ Stop \/ UNCHANGED vars

LEMMA AsideEffect ==
  ASSUME Aside
  PROVE  /\ UNCHANGED <<mode, userVars, threadVars, eventQueue, sendItem, pool, roundRobinIndex, rri,
                        ringVars, msgCnt, errCnt, doneVars>>
         /\ \/ UNCHANGED sendAt
            \/ sendAt = "check" /\ sendAt' \in {"join", "pop"}
            \/ SendExit /\ sendAt = "join" /\ sendAt' = "done"
         /\ \/ UNCHANGED <<eventsInCurrentSync, reported>>
            \/ eventsInCurrentSync' = 0 /\ reported' = reported + eventsInCurrentSync
  <1>1. CASE CheckStop
    BY <1>1 DEF CheckStop, SendStep, statVars, syncVars, threadVars
  <1>2. CASE SendExit
    BY <1>2 DEF SendExit, SendStep, statVars, syncVars, threadVars
  <1>3. CASE Sync \/ SyncExit
    BY <1>3 DEF Sync, SyncExit, queueVars, statVars, syncVars
  <1>4. CASE StopThreads \/ Stop
    BY <1>4 DEF StopThreads, Stop, StopSend, StopFlag, StopSync, StopReturn, StopStep, queueVars,
                statVars, syncVars
  <1>5. CASE UNCHANGED vars
    BY <1>5 DEF vars, queueVars, statVars, syncVars
  <1>. QED
    BY <1>1, <1>2, <1>3, <1>4, <1>5 DEF Aside

(* Steps that reap ring r. *)
Reaps(r) ==
  \/ DrainRing(r)
  \/ \E w \in Workers : rri[w] = r /\ ReapRing(w)

(* _send() returns without an error, or with one. *)
Sends(t) ==
  \/ SendMsg(t) \/ SendMsgFails(t) \/ Submit(t) \/ SendDone(t)
  \/ \E k \in 0 .. numBuffers(ev[t]) : SendMMsg(t, k)

LEMMA StepCases ==
  ASSUME HandInv, [Next]_vars
  PROVE  \/ \E u \in Users, e \in Events, n \in Requests, p \in Calls : Call(u, e, n, p)
         \/ \E u \in Users : TakeNumber(u) \/ Push(u) \/ PushFull(u)
         \/ \E t \in Threads : Sends(t)
         \/ Pop \/ Post
         \/ \E w \in Workers : Take(w) \/ Lock(w) \/ Unlock(w) \/ Callback(w)
         \/ \E r \in Sockets : Reaps(r)
         \/ \E s \in submitted, ok \in BOOLEAN : Complete(s, ok)
         \/ Aside
  <1>1. ASSUME NEW t \in Threads, SendCall(t)
        PROVE  Sends(t)
    BY <1>1 DEF SendCall, Sends, SendMMsg
  <1>2. ASSUME NEW w \in Workers, ReapRing(w)
        PROVE  \E r \in Sockets : Reaps(r)
    BY <1>2 DEF Reaps, HandInv, Threads
  <1>3. ASSUME NEW r \in Sockets, DrainRing(r)
        PROVE  Reaps(r)
    BY <1>3 DEF Reaps
  <1>. QED
    BY <1>1, <1>2, <1>3 DEF Next, UserStep, SendThread, WorkerStep, Kernel, Aside

LEMMA ReapsEffect ==
  ASSUME NEW r \in Sockets, Reaps(r)
  PROVE  /\ Reap(r)
         /\ UNCHANGED <<mode, userVars, threadVars, queueVars, msgCnt, eventsInCurrentSync, syncVars,
                        stopVars, sent, complete, failed, finished>>
  BY DEF Reaps, DrainRing, ReapRing

(* What _send() does to its thread. *)
LEMMA LeaveEffect ==
  ASSUME HandInv, NEW t \in Threads, Leave(t, ev[t]), UNCHANGED mode
  PROVE  /\ t \in Users => /\ at' = [at EXCEPT ![t] = "out"] /\ ev' = [ev EXCEPT ![t] = NoEvent]
         /\ t \in Workers =>
              /\ at' = [at EXCEPT ![t] = IF Rings THEN "reap" ELSE "callback"]
              /\ ev' = ev
         /\ curOffset' = [curOffset EXCEPT ![t] = 0]
  BY ThreadsAssumption DEF Leave, HandInv, Rings, Threads

LEMMA SendsEffect ==
  ASSUME HandInv, NEW t \in Threads, Sends(t)
  PROVE  /\ at[t] = "send" /\ ev[t] \in Events /\ InSend
         /\ \/ Leave(t, ev[t])
            \/ UNCHANGED <<at, ev>> /\ (SendMsg(t) \/ Submit(t))
  BY ThreadsAssumption DEF Sends, SendMsg, SendMsgFails, Submit, SendDone, SendMMsg, HandInv, Threads

-----------------------------------------------------------------------------
(* Threads and queues *)

(* Appending to a queue adds an entry, taking its head removes that. *)
LEMMA SeqAppend ==
  ASSUME NEW S, NEW q \in Seq(S), NEW x \in S
  PROVE  /\ Append(q, x) \in Seq(S) /\ Len(Append(q, x)) = Len(q) + 1
         /\ DOMAIN Append(q, x) = (DOMAIN q) \cup {Len(q) + 1} /\ Len(q) + 1 \notin DOMAIN q
         /\ \A k \in DOMAIN q : Append(q, x)[k] = q[k]
         /\ Append(q, x)[Len(q) + 1] = x
  OBVIOUS

LEMMA SeqTail ==
  ASSUME NEW S, NEW q \in Seq(S), q # <<>>
  PROVE  /\ Head(q) \in S /\ Head(q) = q[1] /\ 1 \in DOMAIN q
         /\ Tail(q) \in Seq(S) /\ Len(Tail(q)) = Len(q) - 1
         /\ \A k \in DOMAIN Tail(q) : k + 1 \in DOMAIN q /\ k + 1 # 1 /\ Tail(q)[k] = q[k + 1]
         /\ \A k \in DOMAIN q : k # 1 => k - 1 \in DOMAIN Tail(q) /\ Tail(q)[k - 1] = q[k]
  OBVIOUS

LEMMA NextSocketType ==
  ASSUME HandInv, NEW racing, NEW s \in NextSocket(racing)
  PROVE  s \in Sockets
  <1>1. numSendSockets \in Nat \ {0} /\ roundRobinIndex \in 0 .. numSendSockets - 1
    BY ThreadsAssumption DEF HandInv, Sockets
  <1>2. (roundRobinIndex + 1) % numSendSockets \in 0 .. numSendSockets - 1
    BY <1>1
  <1>. QED
    BY <1>2 DEF NextSocket, Sockets

LEMMA HandSends ==
  ASSUME HandInv, NEW t \in Threads, Sends(t)
  PROVE  HandInv'
  <1>1. at[t] = "send" /\ ev[t] \in Events /\ InSend
    BY SendsEffect
  <1>2. CASE Leave(t, ev[t])
    <2>1. UNCHANGED <<mode, eventQueue, sendAt, sendItem, pool, roundRobinIndex, rri>>
      BY <1>1 DEF InSend, queueVars
    <2>2. CASE t \in Users
      <3>1. /\ at' = [at EXCEPT ![t] = "out"] /\ ev' = [ev EXCEPT ![t] = NoEvent]
            /\ curOffset' = [curOffset EXCEPT ![t] = 0]
        BY <1>2, <2>1, <2>2, LeaveEffect
      <3>. QED
        BY <2>1, <2>2, <3>1, ThreadsAssumption DEF HandInv, UserPlaces, WorkerPlaces, Threads, Rings
    <2>3. CASE t \in Workers
      <3>1. /\ at' = [at EXCEPT ![t] = IF Rings THEN "reap" ELSE "callback"] /\ ev' = ev
            /\ curOffset' = [curOffset EXCEPT ![t] = 0]
        BY <1>2, <2>1, <2>3, LeaveEffect
      <3>. QED
        BY <1>1, <2>1, <2>3, <3>1, ThreadsAssumption, EventsAssumption
           DEF HandInv, UserPlaces, WorkerPlaces, Threads, Rings
    <2>. QED
      BY <2>2, <2>3 DEF Threads
  <1>3. CASE UNCHANGED <<at, ev>> /\ (SendMsg(t) \/ Submit(t))
    <2>1. UNCHANGED <<mode, eventQueue, sendAt, sendItem, pool, roundRobinIndex, rri>>
      BY <1>1 DEF InSend, queueVars
    <2>2. /\ curOffset' = [curOffset EXCEPT ![t] = @ + PldLen(ev[t], curOffset[t])]
          /\ curOffset[t] < Bytes[ev[t]]
      BY <1>3 DEF SendMsg, Submit, Fragment
    <2>3. curOffset[t] + PldLen(ev[t], curOffset[t]) \in Nat
      BY <1>1, <2>2, EventsAssumption, SizesAssumption DEF PldLen, HandInv
    <2>. QED
      BY <1>1, <1>3, <2>1, <2>2, <2>3 DEF HandInv, Rings
  <1>. QED
    BY <1>2, <1>3, SendsEffect

LEMMA HandNext ==
  ASSUME HandInv, [Next]_vars
  PROVE  HandInv'
  <1>1. ASSUME NEW u \in Users, NEW e \in Events, NEW n \in Requests, NEW p \in Calls, Call(u, e, n, p)
        PROVE  HandInv'
    BY <1>1, ThreadsAssumption, EventsAssumption, ModesAssumption
       DEF Call, HandInv, UserPlaces, WorkerPlaces, Threads, Rings, queueVars
  <1>2. ASSUME NEW u \in Users, TakeNumber(u)
        PROVE  HandInv'
    <2>1. roundRobinIndex' \in Sockets /\ rri' \in [Threads -> Sockets]
      BY <1>2, NextSocketType DEF TakeNumber, HandInv, Threads
    <2>. QED
      BY <1>2, <2>1, ThreadsAssumption DEF TakeNumber, HandInv, UserPlaces, WorkerPlaces, Threads, Rings
  <1>3. ASSUME NEW u \in Users, Push(u) \/ PushFull(u)
        PROVE  HandInv'
    <2>1. ev[u] \in Events /\ eventQueue \in Seq(Events) /\ Len(eventQueue) <= QSIZE
      BY <1>3, ThreadsAssumption DEF Push, PushFull, HandInv, Threads
    <2>2. Append(eventQueue, ev[u]) \in Seq(Events) /\ Len(Append(eventQueue, ev[u])) = Len(eventQueue) + 1
      BY <2>1, SeqAppend
    <2>3. eventQueue' \in Seq(Events) /\ Len(eventQueue') <= QSIZE
      BY <1>3, <2>1, <2>2, SizesAssumption DEF Push, PushFull, queueVars
    <2>. QED
      BY <1>3, <2>3, ThreadsAssumption
         DEF Push, PushFull, HandInv, UserPlaces, WorkerPlaces, Threads, Rings, queueVars
  <1>4. CASE Pop
    <2>1. CASE eventQueue = <<>>
      BY <1>4, <2>1 DEF Pop, SendStep, threadVars, HandInv, Rings
    <2>2. CASE eventQueue # <<>>
      <3>1. /\ sendAt' = "post" /\ sendItem' = Head(eventQueue) /\ eventQueue' = Tail(eventQueue)
            /\ UNCHANGED <<mode, threadVars, rri, pool, roundRobinIndex>>
        BY <1>4, <2>2 DEF Pop, SendStep
      <3>2. Head(eventQueue) \in Events /\ Tail(eventQueue) \in Seq(Events) /\ Len(Tail(eventQueue)) <= QSIZE
        BY <2>2, SizesAssumption DEF HandInv
      <3>. QED
        BY <3>1, <3>2, EventsAssumption DEF HandInv, threadVars, Rings
    <2>. QED
      BY <2>1, <2>2
  <1>5. CASE Post
    <2>1. roundRobinIndex' \in Sockets
      BY <1>5, NextSocketType DEF Post
    <2>2. sendItem \in Events
      BY <1>5 DEF Post, HandInv
    <2>3. pool' \in Seq([ev : Events, rri : Sockets])
      BY <1>5, <2>1, <2>2 DEF Post, HandInv
    <2>. QED
      BY <1>5, <2>1, <2>3 DEF Post, SendStep, threadVars, HandInv, Rings
  <1>6. ASSUME NEW t \in Threads, Sends(t)
        PROVE  HandInv'
    BY <1>6, HandSends
  <1>7. ASSUME NEW w \in Workers, Take(w)
        PROVE  HandInv'
    <2>1. Head(pool) \in [ev : Events, rri : Sockets] /\ Tail(pool) \in Seq([ev : Events, rri : Sockets])
      BY <1>7, SeqTail DEF Take, HandInv
    <2>2. /\ at' = [at EXCEPT ![w] = IF Rings THEN "lock" ELSE "send"]
          /\ ev' = [ev EXCEPT ![w] = Head(pool).ev] /\ Head(pool).ev \in Events
          /\ rri' \in [Threads -> Sockets] /\ pool' \in Seq([ev : Events, rri : Sockets])
          /\ UNCHANGED <<mode, curOffset, eventQueue, sendAt, sendItem, roundRobinIndex>>
          /\ at[w] = "idle"
      BY <1>7, <2>1 DEF Take, HandInv, Rings, Threads
    <2>. QED
      BY <2>2, ThreadsAssumption, EventsAssumption DEF HandInv, UserPlaces, WorkerPlaces, Threads, Rings
  <1>8. ASSUME NEW w \in Workers, Lock(w) \/ Unlock(w) \/ Callback(w)
        PROVE  HandInv'
    BY <1>8, ThreadsAssumption
       DEF Lock, Unlock, Callback, Finish, HandInv, UserPlaces, WorkerPlaces, Threads, Rings, queueVars
  <1>9. ASSUME NEW r \in Sockets, Reaps(r)
        PROVE  HandInv'
    BY <1>9, ReapsEffect DEF threadVars, queueVars, HandInv, Rings
  <1>10. ASSUME NEW s \in submitted, NEW ok \in BOOLEAN, Complete(s, ok)
         PROVE  HandInv'
    BY <1>10 DEF Complete, threadVars, queueVars, HandInv, Rings
  <1>11. CASE Aside
    <2>1. sendAt' \in {"check", "pop", "post", "join", "done"} /\ (sendAt' = "post" <=> sendAt = "post")
      BY <1>11, AsideEffect DEF HandInv
    <2>. QED
      BY <1>11, <2>1, AsideEffect DEF threadVars, HandInv, Rings
  <1>. QED
    BY <1>1, <1>2, <1>3, <1>4, <1>5, <1>6, <1>7, <1>8, <1>9, <1>10, <1>11, StepCases

LEMMA HandInit == Init => HandInv
  BY ThreadsAssumption, SizesAssumption, EventsAssumption
     DEF Init, HandInv, UserPlaces, WorkerPlaces, Threads, Rings, Sockets

LEMMA HandCorrect == SafeSpec => []HandInv
  <1>1. HandInv /\ [Next]_vars => HandInv'
    BY HandNext
  <1>. QED
    BY <1>1, HandInit, PTL DEF SafeSpec

-----------------------------------------------------------------------------
(* Who has an event *)

LEMMA QueuedAppend ==
  ASSUME HandInv, NoneTwice, NEW e \in Events, e \notin Queued, eventQueue' = Append(eventQueue, e)
  PROVE  /\ Queued' = Queued \cup {e}
         /\ \A k, l \in DOMAIN eventQueue' : eventQueue'[k] = eventQueue'[l] => k = l
  <1>. DEFINE n == Len(eventQueue) + 1
  <1>1. /\ DOMAIN eventQueue' = (DOMAIN eventQueue) \cup {n} /\ n \notin DOMAIN eventQueue
        /\ \A k \in DOMAIN eventQueue : eventQueue'[k] = eventQueue[k]
        /\ eventQueue'[n] = e
    BY SeqAppend DEF HandInv
  <1>. HIDE DEF n
  <1>. QED
    BY <1>1 DEF Queued, NoneTwice

LEMMA QueuedTail ==
  ASSUME HandInv, NoneTwice, eventQueue # <<>>, eventQueue' = Tail(eventQueue)
  PROVE  /\ Head(eventQueue) \in Queued /\ Head(eventQueue) \in Events
         /\ Queued' = Queued \ {Head(eventQueue)}
         /\ \A k, l \in DOMAIN eventQueue' : eventQueue'[k] = eventQueue'[l] => k = l
  <1>1. /\ Head(eventQueue) \in Events /\ Head(eventQueue) = eventQueue[1] /\ 1 \in DOMAIN eventQueue
        /\ \A k \in DOMAIN eventQueue' : k + 1 \in DOMAIN eventQueue /\ k + 1 # 1
                                         /\ eventQueue'[k] = eventQueue[k + 1]
        /\ \A k \in DOMAIN eventQueue : k # 1 => k - 1 \in DOMAIN eventQueue'
                                                 /\ eventQueue'[k - 1] = eventQueue[k]
    BY SeqTail DEF HandInv
  <1>2. /\ DOMAIN eventQueue' \subseteq Int
    <2>1. Tail(eventQueue) \in Seq(Events)
      BY SeqTail DEF HandInv
    <2>. QED
      BY <2>1
  <1>3. \A k, l \in DOMAIN eventQueue' : eventQueue'[k] = eventQueue'[l] => k = l
    <2>1. \A k, l \in DOMAIN eventQueue' : eventQueue'[k] = eventQueue'[l] => k + 1 = l + 1
      BY <1>1 DEF NoneTwice
    <2>. QED
      BY <2>1, <1>2
  <1>4. Queued' \subseteq Queued \ {Head(eventQueue)}
    BY <1>1 DEF Queued, NoneTwice
  <1>5. Queued \ {Head(eventQueue)} \subseteq Queued'
    BY <1>1 DEF Queued
  <1>6. Head(eventQueue) \in Queued
    BY <1>1 DEF Queued
  <1>. QED
    BY <1>1, <1>3, <1>4, <1>5, <1>6

LEMMA PostedAppend ==
  ASSUME HandInv, NoneTwice, NEW p \in [ev : Events, rri : Sockets], p.ev \notin Posted,
         pool' = Append(pool, p)
  PROVE  /\ Posted' = Posted \cup {p.ev}
         /\ \A k, l \in DOMAIN pool' : pool'[k].ev = pool'[l].ev => k = l
  <1>. DEFINE n == Len(pool) + 1
  <1>1. /\ DOMAIN pool' = (DOMAIN pool) \cup {n} /\ n \notin DOMAIN pool
        /\ \A k \in DOMAIN pool : pool'[k] = pool[k]
        /\ pool'[n] = p
    BY SeqAppend DEF HandInv
  <1>. HIDE DEF n
  <1>. QED
    BY <1>1 DEF Posted, NoneTwice

LEMMA PostedTail ==
  ASSUME HandInv, NoneTwice, pool # <<>>, pool' = Tail(pool)
  PROVE  /\ Head(pool).ev \in Posted /\ Head(pool) \in [ev : Events, rri : Sockets]
         /\ Posted' = Posted \ {Head(pool).ev}
         /\ \A k, l \in DOMAIN pool' : pool'[k].ev = pool'[l].ev => k = l
  <1>. DEFINE S == [ev : Events, rri : Sockets]
  <1>1. pool \in Seq(S)
    BY DEF HandInv
  <1>. HIDE DEF S
  <1>2. /\ Head(pool) \in S /\ Head(pool) = pool[1] /\ 1 \in DOMAIN pool /\ pool' \in Seq(S)
        /\ \A k \in DOMAIN pool' : k + 1 \in DOMAIN pool /\ k + 1 # 1 /\ pool'[k] = pool[k + 1]
        /\ \A k \in DOMAIN pool : k # 1 => k - 1 \in DOMAIN pool' /\ pool'[k - 1] = pool[k]
    BY <1>1, SeqTail
  <1>3. DOMAIN pool' \subseteq Int
    BY <1>2
  <1>4. \A k, l \in DOMAIN pool' : pool'[k].ev = pool'[l].ev => k = l
    <2>1. \A k, l \in DOMAIN pool' : pool'[k].ev = pool'[l].ev => k + 1 = l + 1
      BY <1>2 DEF NoneTwice
    <2>. QED
      BY <2>1, <1>3
  <1>5. Posted' \subseteq Posted \ {Head(pool).ev}
    BY <1>2 DEF Posted, NoneTwice
  <1>6. ASSUME NEW k \in DOMAIN pool, pool[k].ev # Head(pool).ev
        PROVE  pool[k].ev \in Posted'
    <2>1. k - 1 \in DOMAIN pool' /\ pool'[k - 1] = pool[k]
      BY <1>2, <1>6
    <2>. QED
      BY <2>1 DEF Posted
  <1>7. Head(pool).ev \in Posted
    BY <1>2 DEF Posted
  <1>8. Posted \ {Head(pool).ev} \subseteq Posted'
    BY <1>6 DEF Posted
  <1>. QED
    BY <1>2, <1>4, <1>5, <1>7, <1>8 DEF S

(* Steps that put no event into another hand; a user may let go of its own. *)
OwnIdle ==
  /\ UNCHANGED <<eventQueue, sendItem, pool, finished, accepted, used>>
  /\ \A w \in Workers : ev'[w] = ev[w]
  /\ \A u \in Users : ev'[u] = ev[u] \/ ev'[u] = NoEvent

LEMMA OwnFrame ==
  ASSUME OwnInv, OwnIdle
  PROVE  OwnInv'
  <1>1. Queued' = Queued /\ Posting' = Posting /\ Posted' = Posted /\ Working' = Working
    BY DEF OwnIdle, Queued, Posting, Posted, Working
  <1>2. NoneTwice'
    BY DEF OwnIdle, OwnInv, NoneTwice
  <1>. QED
    BY <1>1, <1>2 DEF OwnIdle, OwnInv, Apart

LEMMA OwnIdles ==
  ASSUME HandInv,
         \/ \E u \in Users : TakeNumber(u)
         \/ \E t \in Threads : Sends(t)
         \/ \E w \in Workers : Lock(w)
         \/ \E r \in Sockets : Reaps(r)
         \/ \E s \in submitted, ok \in BOOLEAN : Complete(s, ok)
         \/ Aside
  PROVE  OwnIdle
  <1>1. ASSUME NEW u \in Users, TakeNumber(u)
        PROVE  OwnIdle
    BY <1>1 DEF TakeNumber, OwnIdle, stopVars, doneVars
  <1>2. ASSUME NEW t \in Threads, Sends(t)
        PROVE  OwnIdle
    <2>1. UNCHANGED <<mode, eventQueue, sendItem, pool, finished, accepted, used>>
      BY <1>2, SendsEffect DEF InSend, queueVars, userVars
    <2>2. CASE Leave(t, ev[t])
      BY <2>1, <2>2, LeaveEffect, ThreadsAssumption DEF OwnIdle, HandInv, Threads
    <2>3. CASE ev' = ev
      BY <2>1, <2>3 DEF OwnIdle
    <2>. QED
      BY <1>2, <2>2, <2>3, SendsEffect
  <1>3. ASSUME NEW w \in Workers, Lock(w)
        PROVE  OwnIdle
    BY <1>3 DEF Lock, OwnIdle, userVars, queueVars, doneVars
  <1>4. ASSUME NEW r \in Sockets, Reaps(r)
        PROVE  OwnIdle
    BY <1>4, ReapsEffect DEF OwnIdle, userVars, threadVars, queueVars
  <1>5. ASSUME NEW s \in submitted, NEW ok \in BOOLEAN, Complete(s, ok)
        PROVE  OwnIdle
    BY <1>5 DEF Complete, OwnIdle, userVars, threadVars, queueVars, doneVars
  <1>6. CASE Aside
    BY <1>6, AsideEffect DEF OwnIdle, userVars, threadVars, doneVars
  <1>. QED
    BY <1>1, <1>2, <1>3, <1>4, <1>5, <1>6

LEMMA OwnNext ==
  ASSUME HandInv, OwnInv, [Next]_vars
  PROVE  OwnInv'
  <1>1. ASSUME NEW u \in Users, NEW e \in Events, NEW n \in Requests, NEW p \in Calls, Call(u, e, n, p)
        PROVE  OwnInv'
    <2>1. /\ UNCHANGED <<eventQueue, sendItem, pool, finished, accepted>>
          /\ e \notin used /\ used' = used \cup {e} /\ ev' = [ev EXCEPT ![u] = e]
      BY <1>1 DEF Call, queueVars, doneVars
    <2>2. /\ \A v \in Users : ev'[v] = IF v = u THEN e ELSE ev[v]
          /\ \A w \in Workers : ev'[w] = ev[w]
      BY <2>1, ThreadsAssumption DEF HandInv, Threads
    <2>3. Queued' = Queued /\ Posting' = Posting /\ Posted' = Posted /\ Working' = Working
      BY <2>1, <2>2 DEF Queued, Posting, Posted, Working
    <2>4. NoneTwice'
      BY <2>1, <2>2 DEF OwnInv, NoneTwice
    <2>. QED
      BY <2>1, <2>2, <2>3, <2>4 DEF OwnInv, Apart
  <1>2. ASSUME NEW u \in Users, Push(u)
        PROVE  OwnInv'
    <2>. DEFINE e == ev[u]
    <2>1. /\ UNCHANGED <<sendItem, pool, finished, used>>
          /\ eventQueue' = Append(eventQueue, e) /\ accepted' = accepted \cup {e}
          /\ ev' = [ev EXCEPT ![u] = NoEvent]
          /\ at[u] = "push"
      BY <1>2 DEF Push, doneVars
    <2>2. e \in Events /\ e # NoEvent /\ e \in used \ accepted
      BY <2>1, ThreadsAssumption DEF HandInv, OwnInv, Threads
    <2>3. /\ \A v \in Users : ev'[v] = IF v = u THEN NoEvent ELSE ev[v]
          /\ \A w \in Workers : ev'[w] = ev[w]
      BY <2>1, ThreadsAssumption DEF HandInv, Threads
    <2>. HIDE DEF e
    <2>4. e \notin Queued \cup Posting \cup Posted \cup Working \cup finished
      BY <2>2 DEF OwnInv
    <2>5. /\ Queued' = Queued \cup {e}
          /\ \A k, l \in DOMAIN eventQueue' : eventQueue'[k] = eventQueue'[l] => k = l
      BY <2>1, <2>2, <2>4, QueuedAppend DEF OwnInv
    <2>6. Posting' = Posting /\ Posted' = Posted /\ Working' = Working
      BY <2>1, <2>3 DEF Posting, Posted, Working
    <2>7. NoneTwice'
      BY <2>1, <2>3, <2>5 DEF OwnInv, NoneTwice
    <2>8. \A v \in Users : ev'[v] # NoEvent => ev'[v] # e
      BY <2>2, <2>3 DEF OwnInv, NoneTwice, e
    <2>. QED
      BY <2>1, <2>2, <2>3, <2>4, <2>5, <2>6, <2>7, <2>8 DEF OwnInv, Apart
  <1>3. ASSUME NEW u \in Users, PushFull(u)
        PROVE  OwnInv'
    <2>1. /\ UNCHANGED <<eventQueue, sendItem, pool, finished, accepted>>
          /\ used' = used \ {ev[u]} /\ ev' = [ev EXCEPT ![u] = NoEvent] /\ at[u] = "push"
      BY <1>3 DEF PushFull, queueVars, doneVars
    <2>2. /\ \A v \in Users : ev'[v] = IF v = u THEN NoEvent ELSE ev[v]
          /\ \A w \in Workers : ev'[w] = ev[w]
      BY <2>1, ThreadsAssumption DEF HandInv, Threads
    <2>3. Queued' = Queued /\ Posting' = Posting /\ Posted' = Posted /\ Working' = Working
      BY <2>1, <2>2 DEF Queued, Posting, Posted, Working
    <2>4. NoneTwice'
      BY <2>1, <2>2 DEF OwnInv, NoneTwice
    <2>5. ev[u] # NoEvent /\ ev[u] \notin accepted
      BY <2>1 DEF HandInv, OwnInv
    <2>6. \A v \in Users : ev'[v] # NoEvent => ev'[v] # ev[u]
      BY <2>2, <2>5 DEF OwnInv, NoneTwice
    <2>. QED
      BY <2>1, <2>2, <2>3, <2>4, <2>5, <2>6 DEF OwnInv, Apart
  <1>4. CASE Pop
    <2>1. UNCHANGED <<pool, finished, accepted, used, ev>>
      BY <1>4 DEF Pop, SendStep, userVars, threadVars, doneVars
    <2>2. CASE eventQueue = <<>>
      <3>1. OwnIdle
        BY <1>4, <2>1, <2>2 DEF Pop, OwnIdle
      <3>. QED
        BY <3>1, OwnFrame
    <2>3. CASE eventQueue # <<>>
      <3>. DEFINE e == Head(eventQueue)
      <3>1. sendItem' = e /\ eventQueue' = Tail(eventQueue) /\ sendItem = NoEvent
        BY <1>4, <2>3 DEF Pop, HandInv
      <3>2. /\ e \in Queued /\ e \in Events /\ Queued' = Queued \ {e}
            /\ \A k, l \in DOMAIN eventQueue' : eventQueue'[k] = eventQueue'[l] => k = l
        BY <2>3, <3>1, QueuedTail DEF OwnInv
      <3>. HIDE DEF e
      <3>3. Posting = {} /\ Posting' = {e} /\ Posted' = Posted /\ Working' = Working
        BY <2>1, <3>1, <3>2, EventsAssumption DEF Posting, Posted, Working
      <3>4. NoneTwice'
        BY <2>1, <3>2 DEF OwnInv, NoneTwice
      <3>. QED
        BY <2>1, <3>2, <3>3, <3>4 DEF OwnInv, Apart
    <2>. QED
      BY <2>2, <2>3
  <1>5. CASE Post
    <2>. DEFINE p == [ev |-> sendItem, rri |-> roundRobinIndex']
    <2>1. /\ UNCHANGED <<eventQueue, finished, accepted, used, ev>>
          /\ pool' = Append(pool, p) /\ sendItem' = NoEvent /\ sendItem \in Events
      BY <1>5 DEF Post, SendStep, userVars, threadVars, doneVars, HandInv
    <2>2. p \in [ev : Events, rri : Sockets] /\ p.ev = sendItem
      BY <1>5, <2>1, NextSocketType DEF Post
    <2>. HIDE DEF p
    <2>3. Posting = {sendItem} /\ Posting' = {} /\ Queued' = Queued /\ Working' = Working
      BY <2>1, EventsAssumption DEF Posting, Queued, Working
    <2>4. sendItem \notin Posted
      BY <2>3 DEF OwnInv, Apart
    <2>5. /\ Posted' = Posted \cup {sendItem}
          /\ \A k, l \in DOMAIN pool' : pool'[k].ev = pool'[l].ev => k = l
      BY <2>1, <2>2, <2>4, PostedAppend DEF OwnInv
    <2>6. NoneTwice'
      BY <2>1, <2>5 DEF OwnInv, NoneTwice
    <2>. QED
      BY <2>1, <2>3, <2>5, <2>6 DEF OwnInv, Apart
  <1>6. ASSUME NEW w \in Workers, Take(w)
        PROVE  OwnInv'
    <2>. DEFINE e == Head(pool).ev
    <2>1. /\ UNCHANGED <<eventQueue, sendItem, finished, accepted, used>>
          /\ pool # <<>> /\ pool' = Tail(pool) /\ ev' = [ev EXCEPT ![w] = e]
          /\ at[w] = "idle"
      BY <1>6 DEF Take, userVars, doneVars
    <2>2. /\ e \in Posted /\ e \in Events /\ Posted' = Posted \ {e}
          /\ \A k, l \in DOMAIN pool' : pool'[k].ev = pool'[l].ev => k = l
      BY <2>1, PostedTail DEF OwnInv
    <2>. HIDE DEF e
    <2>3. /\ \A v \in Workers : ev'[v] = IF v = w THEN e ELSE ev[v]
          /\ \A u \in Users : ev'[u] = ev[u]
          /\ ev[w] = NoEvent
      BY <2>1, ThreadsAssumption DEF HandInv, Threads
    <2>4. Working' = Working \cup {e} /\ Queued' = Queued /\ Posting' = Posting
      BY <2>1, <2>2, <2>3, EventsAssumption DEF Working, Queued, Posting
    <2>5. e \notin Working
      BY <2>2 DEF OwnInv, Apart
    <2>6. \A v \in Workers : ev[v] # NoEvent => ev[v] # e
      BY <2>5 DEF Working
    <2>7. NoneTwice'
      BY <2>1, <2>2, <2>3, <2>6 DEF OwnInv, NoneTwice
    <2>. QED
      BY <2>1, <2>2, <2>3, <2>4, <2>7 DEF OwnInv, Apart
  <1>7. ASSUME NEW w \in Workers, Unlock(w) \/ Callback(w)
        PROVE  OwnInv'
    <2>. DEFINE e == ev[w]
    <2>1. /\ UNCHANGED <<eventQueue, sendItem, pool, accepted, used>>
          /\ finished' = finished \cup {e} /\ ev' = [ev EXCEPT ![w] = NoEvent] /\ e # NoEvent
      BY <1>7 DEF Unlock, Callback, Finish, userVars, queueVars, HandInv
    <2>2. /\ \A v \in Workers : ev'[v] = IF v = w THEN NoEvent ELSE ev[v]
          /\ \A u \in Users : ev'[u] = ev[u]
      BY <2>1, ThreadsAssumption DEF HandInv, Threads
    <2>. HIDE DEF e
    <2>3. \A v \in Workers : v # w /\ ev[v] # NoEvent => ev[v] # e
      BY DEF OwnInv, NoneTwice, e
    <2>4. e \in Working /\ Working' = Working \ {e}
      BY <2>1, <2>2, <2>3 DEF Working, e
    <2>5. Queued' = Queued /\ Posting' = Posting /\ Posted' = Posted
      BY <2>1 DEF Queued, Posting, Posted
    <2>6. NoneTwice'
      BY <2>1, <2>2 DEF OwnInv, NoneTwice
    <2>. QED
      BY <2>1, <2>2, <2>4, <2>5, <2>6 DEF OwnInv, Apart
  <1>8. ASSUME OwnIdle
        PROVE  OwnInv'
    BY <1>8, OwnFrame
  <1>. QED
    BY <1>1, <1>2, <1>3, <1>4, <1>5, <1>6, <1>7, <1>8, OwnIdles, StepCases

LEMMA OwnInit == Init => OwnInv
  <1>. SUFFICES ASSUME Init PROVE OwnInv
    OBVIOUS
  <1>1. eventQueue = <<>> /\ pool = <<>> /\ sendItem = NoEvent /\ \A t \in Threads : ev[t] = NoEvent
    BY DEF Init
  <1>2. Queued = {} /\ Posting = {} /\ Posted = {} /\ Working = {}
    BY <1>1 DEF Queued, Posting, Posted, Working, Threads
  <1>3. accepted = {} /\ used = {} /\ finished = {}
    BY DEF Init
  <1>. QED
    BY <1>1, <1>2, <1>3 DEF OwnInv, Apart, NoneTwice, Threads

LEMMA OwnCorrect == SafeSpec => [](HandInv /\ OwnInv)
  <1>1. HandInv /\ OwnInv /\ [Next]_vars => OwnInv'
    BY OwnNext
  <1>. QED
    BY <1>1, OwnInit, HandCorrect, PTL DEF SafeSpec

(* A set of at most one element. *)
LEMMA AtMostOne ==
  ASSUME NEW S, \A x, y \in S : x = y
  PROVE  Cardinality(S) = IF S = {} THEN 0 ELSE 1
  <1>1. CASE S = {}
    BY <1>1, FS_EmptySet
  <1>2. CASE S # {}
    <2>1. PICK x \in S : TRUE
      BY <1>2
    <2>2. S = {x}
      BY <2>1
    <2>. QED
      BY <1>2, <2>2, FS_Singleton
  <1>. QED
    BY <1>1, <1>2

(* An event that addToSendQueue() took is in exactly one of the queue, the send
   thread, the pool, a worker and the deleted items, once. *)
THEOREM EachOnceCorrect == SafeSpec => []EachOnce
  <1>1. ASSUME HandInv, OwnInv PROVE EachOnce
    <2>. SUFFICES ASSUME NEW e \in Events
         PROVE  Cardinality(InQueue(e)) + Cardinality(InPool(e)) + Cardinality(With(e))
                  + (IF sendItem = e THEN 1 ELSE 0) + (IF e \in finished THEN 1 ELSE 0)
                = (IF e \in accepted THEN 1 ELSE 0)
      BY DEF EachOnce
    <2>0. e # NoEvent
      BY EventsAssumption
    <2>1. Cardinality(InQueue(e)) = IF e \in Queued THEN 1 ELSE 0
      <3>1. DOMAIN eventQueue = 1 .. Len(eventQueue)
        BY <1>1 DEF HandInv
      <3>2. \A k, l \in InQueue(e) : k = l
        BY <1>1, <3>1 DEF InQueue, OwnInv, NoneTwice
      <3>3. InQueue(e) = {} <=> e \notin Queued
        BY <3>1 DEF InQueue, Queued
      <3>. QED
        BY <3>2, <3>3, AtMostOne
    <2>2. Cardinality(InPool(e)) = IF e \in Posted THEN 1 ELSE 0
      <3>1. DOMAIN pool = 1 .. Len(pool)
        BY <1>1 DEF HandInv
      <3>2. \A k, l \in InPool(e) : k = l
        BY <1>1, <3>1 DEF InPool, OwnInv, NoneTwice
      <3>3. InPool(e) = {} <=> e \notin Posted
        BY <3>1 DEF InPool, Posted
      <3>. QED
        BY <3>2, <3>3, AtMostOne
    <2>3. Cardinality(With(e)) = IF e \in Working THEN 1 ELSE 0
      <3>1. \A w, v \in With(e) : w = v
        BY <1>1, <2>0 DEF With, OwnInv, NoneTwice
      <3>2. With(e) = {} <=> e \notin Working
        BY <2>0 DEF With, Working
      <3>. QED
        BY <3>1, <3>2, AtMostOne
    <2>4. sendItem = e <=> e \in Posting
      BY <2>0 DEF Posting
    <2>. QED
      BY <1>1, <2>1, <2>2, <2>3, <2>4 DEF OwnInv, Apart
  <1>. QED
    BY <1>1, OwnCorrect, PTL

-----------------------------------------------------------------------------
(* Which events were sent *)

(* No two threads have the same event. *)
LEMMA OneHolder ==
  ASSUME HandInv, OwnInv, NEW t \in Threads, NEW s \in Threads, ev[t] = ev[s], ev[t] # NoEvent
  PROVE  t = s
  <1>1. \A u \in Users, w \in Workers : ev[u] # NoEvent => ev[u] # ev[w]
    BY DEF OwnInv, Working
  <1>. QED
    BY <1>1 DEF OwnInv, NoneTwice, Threads

(* Whether _send() has returned an error or not. *)
LEMMA SendsDone ==
  ASSUME HandInv, NEW t \in Threads, Sends(t)
  PROVE  \/ UNCHANGED <<at, ev, complete, failed>>
         \/ /\ Leave(t, ev[t])
            /\ \/ complete' = complete \cup {ev[t]} /\ failed' = failed
               \/ failed' = failed \cup {ev[t]} /\ complete' = complete /\ ~Rings
  <1>1. CASE SendMsg(t) \/ Submit(t)
    BY <1>1 DEF SendMsg, Submit
  <1>2. CASE SendMsgFails(t)
    BY <1>2 DEF SendMsgFails, Rings
  <1>3. CASE SendDone(t)
    BY <1>3 DEF SendDone
  <1>4. ASSUME NEW k \in 0 .. numBuffers(ev[t]), SendMMsg(t, k)
        PROVE  /\ Leave(t, ev[t])
               /\ \/ complete' = complete \cup {ev[t]} /\ failed' = failed
                  \/ failed' = failed \cup {ev[t]} /\ complete' = complete /\ ~Rings
    BY <1>4 DEF SendMMsg, Rings
  <1>. QED
    BY <1>1, <1>2, <1>3, <1>4 DEF Sends

(* Outside _send() no event is completed or fails. *)
LEMMA DoneStays ==
  ASSUME HandInv, [Next]_vars, ~\E t \in Threads : Sends(t)
  PROVE  UNCHANGED <<complete, failed, sent>>
  <1>1. CASE \E u \in Users, e \in Events, n \in Requests, p \in Calls : Call(u, e, n, p)
    BY <1>1 DEF Call, doneVars
  <1>2. CASE \E u \in Users : TakeNumber(u) \/ Push(u) \/ PushFull(u)
    BY <1>2 DEF TakeNumber, Push, PushFull, doneVars
  <1>3. CASE Pop \/ Post
    BY <1>3 DEF Pop, Post, doneVars
  <1>4. CASE \E w \in Workers : Take(w) \/ Lock(w) \/ Unlock(w) \/ Callback(w)
    BY <1>4 DEF Take, Lock, Unlock, Callback, Finish, doneVars
  <1>5. CASE \E r \in Sockets : Reaps(r)
    BY <1>5, ReapsEffect
  <1>6. CASE \E s \in submitted, ok \in BOOLEAN : Complete(s, ok)
    BY <1>6 DEF Complete, doneVars
  <1>7. CASE Aside
    BY <1>7, AsideEffect DEF doneVars
  <1>. QED
    BY <1>1, <1>2, <1>3, <1>4, <1>5, <1>6, <1>7, StepCases

LEMMA DoneSends ==
  ASSUME HandInv, OwnInv, DoneInv, NEW t \in Threads, Sends(t)
  PROVE  DoneInv'
  <1>1. at[t] = "send" /\ ev[t] \in Events /\ UNCHANGED <<mode, used, accepted, finished>>
    BY SendsEffect DEF InSend, userVars
  <1>2. CASE UNCHANGED <<at, ev, complete, failed>>
    BY <1>1, <1>2 DEF DoneInv, Done, Working, Rings
  <1>3. CASE Leave(t, ev[t]) /\ (\/ complete' = complete \cup {ev[t]} /\ failed' = failed
                                 \/ failed' = failed \cup {ev[t]} /\ complete' = complete /\ ~Rings)
    <2>. DEFINE e == ev[t]
    <2>1. Done' = Done \cup {e} /\ e \notin Done /\ e # NoEvent
      BY <1>1, <1>3, EventsAssumption DEF Done, DoneInv
    <2>2. e \in used /\ (e \in accepted => t \in Workers /\ e \in Working)
      BY <1>1, <2>1 DEF OwnInv, Working, Threads
    <2>3. \A s \in Threads : s # t => ev'[s] = ev[s] /\ at'[s] = at[s] /\ (ev[s] # e \/ ev[s] = NoEvent)
      BY <1>1, <1>3, <2>1, LeaveEffect, OneHolder DEF HandInv, Threads
    <2>4. CASE t \in Users
      <3>1. at'[t] = "out" /\ ev'[t] = NoEvent /\ Working' = Working
        BY <1>1, <1>3, <2>3, <2>4, LeaveEffect, ThreadsAssumption DEF HandInv, Working, Threads
      <3>2. NoEvent \notin Done /\ NoEvent \notin Done'
        BY <2>1, EventsAssumption DEF DoneInv, OwnInv
      <3>. QED
        BY <1>1, <1>3, <2>1, <2>2, <2>3, <2>4, <3>1, <3>2, ThreadsAssumption, FS_AddElement
           DEF DoneInv, Done, Rings
    <2>5. CASE t \in Workers
      <3>1. at'[t] \in {"reap", "callback"} /\ ev' = ev /\ Working' = Working
        BY <1>1, <1>3, <2>5, LeaveEffect DEF HandInv, Working, Threads
      <3>2. NoEvent \notin Done
        BY EventsAssumption DEF DoneInv, OwnInv
      <3>. QED
        BY <1>1, <1>3, <2>1, <2>2, <2>3, <3>1, <3>2, FS_AddElement DEF DoneInv, Done, Rings
    <2>. QED
      BY <2>4, <2>5 DEF Threads
  <1>. QED
    BY <1>2, <1>3, SendsDone

LEMMA DoneNext ==
  ASSUME HandInv, OwnInv, DoneInv, [Next]_vars
  PROVE  DoneInv'
  <1>0. NoEvent \notin Done
    BY EventsAssumption DEF DoneInv, OwnInv
  <1>1. ASSUME NEW t \in Threads, Sends(t)
        PROVE  DoneInv'
    BY <1>1, DoneSends
  <1>2. CASE ~\E t \in Threads : Sends(t)
    <2>0. UNCHANGED <<complete, failed>>
      BY <1>2, DoneStays
    <2>1. ASSUME NEW u \in Users, NEW e \in Events, NEW n \in Requests, NEW p \in Calls, Call(u, e, n, p)
          PROVE  DoneInv'
      <3>1. /\ UNCHANGED <<mode, finished, accepted>> /\ e \notin used /\ used' = used \cup {e}
            /\ ev' = [ev EXCEPT ![u] = e] /\ at' = [at EXCEPT ![u] = p] /\ p \notin {"reap", "callback"}
        BY <2>1, ModesAssumption DEF Call, doneVars
      <3>2. Working' = Working
        BY <3>1, ThreadsAssumption DEF HandInv, Working, Threads
      <3>. QED
        BY <2>0, <3>1, <3>2 DEF DoneInv, Done, HandInv, Rings
    <2>2. ASSUME NEW u \in Users, TakeNumber(u)
          PROVE  DoneInv'
      <3>1. /\ UNCHANGED <<mode, finished, accepted, used, ev>>
            /\ at[u] \in {"enqueue", "direct"} /\ at' = [at EXCEPT ![u] = at'[u]] /\ at'[u] \in {"push", "send"}
        BY <2>2 DEF TakeNumber, doneVars, HandInv, Threads
      <3>. QED
        BY <2>0, <3>1 DEF DoneInv, Done, HandInv, Working, Rings
    <2>3. ASSUME NEW u \in Users, Push(u) \/ PushFull(u)
          PROVE  DoneInv'
      <3>1. /\ UNCHANGED <<mode, finished>> /\ at[u] = "push"
            /\ accepted' \subseteq accepted \cup {ev[u]} /\ used \ {ev[u]} \subseteq used'
            /\ ev' = [ev EXCEPT ![u] = NoEvent] /\ at' = [at EXCEPT ![u] = "out"]
        BY <2>3 DEF Push, PushFull, doneVars
      <3>2. Working' = Working
        BY <3>1, ThreadsAssumption DEF HandInv, Working, Threads
      <3>3. ev[u] \notin Done
        BY <3>1 DEF DoneInv, Threads
      <3>. QED
        BY <1>0, <2>0, <3>1, <3>2, <3>3 DEF DoneInv, Done, HandInv, Rings
    <2>4. CASE Pop \/ Post
      BY <2>0, <2>4 DEF Pop, Post, SendStep, userVars, threadVars, doneVars, DoneInv, Done, Working, Rings
    <2>5. ASSUME NEW w \in Workers, Take(w)
          PROVE  DoneInv'
      <3>. DEFINE e == Head(pool).ev
                  a == IF Rings THEN "lock" ELSE "send"
      <3>1. /\ UNCHANGED <<mode, finished, accepted, used>> /\ pool # <<>> /\ pool' = Tail(pool)
            /\ at[w] = "idle" /\ ev' = [ev EXCEPT ![w] = e] /\ at' = [at EXCEPT ![w] = a]
        BY <2>5 DEF Take, userVars, doneVars, Rings
      <3>2. e \in Posted
        BY <3>1, PostedTail DEF OwnInv
      <3>3. a \notin {"reap", "callback"}
        OBVIOUS
      <3>. HIDE DEF e, a
      <3>4. e \notin Done
        BY <3>2 DEF DoneInv, OwnInv, Apart
      <3>5. ev[w] = NoEvent
        BY <3>1 DEF HandInv
      <3>6. Working \subseteq Working'
        BY <3>1, <3>5 DEF Working, HandInv, Threads
      <3>. QED
        BY <2>0, <3>1, <3>3, <3>4, <3>6 DEF DoneInv, Done, HandInv, Rings
    <2>6. ASSUME NEW w \in Workers, Lock(w)
          PROVE  DoneInv'
      BY <2>0, <2>6 DEF Lock, userVars, queueVars, doneVars, DoneInv, Done, HandInv, Working, Rings
    <2>7. ASSUME NEW w \in Workers, Unlock(w) \/ Callback(w)
          PROVE  DoneInv'
      <3>1. /\ UNCHANGED <<mode, accepted, used>> /\ at[w] \in {"reap", "callback"}
            /\ finished' = finished \cup {ev[w]}
            /\ ev' = [ev EXCEPT ![w] = NoEvent] /\ at' = [at EXCEPT ![w] = "idle"]
        BY <2>7 DEF Unlock, Callback, Finish, userVars
      <3>2. Working \cup finished \subseteq Working' \cup finished'
        BY <3>1 DEF Working, HandInv, Threads
      <3>3. ev[w] \in Done
        BY <3>1 DEF DoneInv, Threads
      <3>. QED
        BY <1>0, <2>0, <3>1, <3>2, <3>3 DEF DoneInv, Done, HandInv, Rings
    <2>8. ASSUME NEW r \in Sockets, Reaps(r)
          PROVE  DoneInv'
      BY <2>8, ReapsEffect DEF userVars, threadVars, DoneInv, Done, Working, Rings
    <2>9. ASSUME NEW s \in submitted, NEW ok \in BOOLEAN, Complete(s, ok)
          PROVE  DoneInv'
      BY <2>9 DEF Complete, userVars, threadVars, doneVars, DoneInv, Done, Working, Rings
    <2>10. CASE Aside
      BY <2>10, AsideEffect DEF userVars, threadVars, doneVars, DoneInv, Done, Working, Rings
    <2>. QED
      BY <1>2, <2>1, <2>2, <2>3, <2>4, <2>5, <2>6, <2>7, <2>8, <2>9, <2>10, StepCases
  <1>. QED
    BY <1>1, <1>2

LEMMA DoneInit == Init => DoneInv
  BY FS_EmptySet, EventsAssumption DEF Init, DoneInv, Done, Threads

LEMMA DoneCorrect == SafeSpec => [](HandInv /\ OwnInv /\ DoneInv)
  <1>1. HandInv /\ OwnInv /\ DoneInv /\ [Next]_vars => DoneInv'
    BY DoneNext
  <1>. QED
    BY <1>1, DoneInit, OwnCorrect, PTL DEF SafeSpec

-----------------------------------------------------------------------------
(* Which fragments were sent *)

Single == \A t, s \in Threads : ev[t] = ev[s] /\ ev[t] # NoEvent => t = s

LEMMA SingleHolder == HandInv /\ OwnInv => Single
  BY OneHolder DEF Single

LEMMA SingleHolderNext == HandInv' /\ OwnInv' => Single'
  BY SingleHolder, PTL

(* The first fragments of an event, one more at a time. *)
LEMMA FirstNext ==
  ASSUME NEW e \in Events, NEW k \in 0 .. numBuffers(e) - 1
  PROVE  /\ First(e, 0) = {}
         /\ First(e, k + 1) = First(e, k) \cup {Fragment(e, Reached(e, k))}
         /\ k \in Nat /\ k + 1 \in 0 .. numBuffers(e)
  <1>1. numBuffers(e) \in Nat
    BY BuffersCover
  <1>2. k \in Nat /\ k + 1 \in 0 .. numBuffers(e) /\ 1 .. (k + 1) = (1 .. k) \cup {k + 1}
    BY <1>1
  <1>3. Fragments(e)[k + 1] = Fragment(e, Reached(e, k))
    BY FragmentAt
  <1>4. 1 .. 0 = {}
    OBVIOUS
  <1>. QED
    BY <1>2, <1>3, <1>4 DEF First

LEMMA FirstNone ==
  ASSUME NEW e \in Events
  PROVE  First(e, 0) = {} /\ 0 \in 0 .. numBuffers(e) /\ Reached(e, 0) = 0
  <1>1. numBuffers(e) \in Nat
    BY BuffersCover
  <1>2. 1 .. 0 = {} /\ 0 \in 0 .. numBuffers(e)
    BY <1>1
  <1>. QED
    BY <1>2, ReachedBounds DEF First

LEMMA FirstEv ==
  ASSUME NEW e \in Events, NEW k \in 0 .. numBuffers(e), NEW f \in First(e, k)
  PROVE  f.ev = e
  <1>1. numBuffers(e) \in Nat
    BY BuffersCover
  <1>2. PICK j \in 1 .. k : f = Fragments(e)[j]
    BY DEF First
  <1>3. j \in 1 .. numBuffers(e)
    BY <1>1, <1>2
  <1>. QED
    BY <1>2, <1>3 DEF Fragments, Fragment

(* Steps that send nothing; a thread may enter _send() with an event of which
   nothing was sent. *)
LEMMA SentFrame ==
  ASSUME SentInv, Single', EventsAssumption, UNCHANGED <<mode, sent, complete, failed>>,
         \A t \in Threads : at[t] = "send" => at'[t] = "send" /\ ev'[t] = ev[t]
                                              /\ curOffset'[t] = curOffset[t],
         \A t \in Threads : at[t] # "send" /\ at'[t] = "send" =>
           /\ curOffset'[t] = 0 /\ ev'[t] \in Events
           /\ \A f \in sent : f.ev # ev'[t]
           /\ ev'[t] \notin complete
  PROVE  SentInv'
  <1>1. \A f \in sent' : f.ev \in Done' \/ \E t \in Threads : at'[t] = "send" /\ ev'[t] = f.ev
    BY DEF SentInv, Done
  <1>2. ASSUME NEW e \in Events
        PROVE  \E k \in 0 .. numBuffers(e) :
                 /\ SentOf(e)' = First(e, k)
                 /\ e \in complete' => k = numBuffers(e)
                 /\ \A t \in Threads : at'[t] = "send" /\ ev'[t] = e =>
                      curOffset'[t] = Reached(e, k) /\ (mode' = "sendmmsg" => k = 0)
    <2>1. CASE \E t \in Threads : at[t] # "send" /\ at'[t] = "send" /\ ev'[t] = e
      <3>1. PICK t \in Threads : at[t] # "send" /\ at'[t] = "send" /\ ev'[t] = e
        BY <2>1
      <3>2. \A s \in Threads : ev'[s] = e => s = t
        BY <3>1, EventsAssumption DEF Single
      <3>3. SentOf(e)' = {} /\ e \notin complete'
        BY <3>1 DEF SentOf
      <3>. QED
        BY <3>1, <3>2, <3>3, FirstNone
    <2>2. CASE ~\E t \in Threads : at[t] # "send" /\ at'[t] = "send" /\ ev'[t] = e
      <3>1. SentOf(e)' = SentOf(e)
        BY DEF SentOf
      <3>2. PICK k \in 0 .. numBuffers(e) :
              /\ SentOf(e) = First(e, k)
              /\ e \in complete => k = numBuffers(e)
              /\ \A t \in Threads : at[t] = "send" /\ ev[t] = e =>
                   curOffset[t] = Reached(e, k) /\ (mode = "sendmmsg" => k = 0)
        BY DEF SentInv
      <3>. QED
        BY <2>2, <3>1, <3>2
    <2>. QED
      BY <2>1, <2>2
  <1>. QED
    BY <1>1, <1>2 DEF SentInv

(* What an event's thread sends of it; nothing of any other event. *)
LEMMA SentSends ==
  ASSUME HandInv, OwnInv, DoneInv, SentInv, NEW t \in Threads, Sends(t)
  PROVE  SentInv'
  <1>1. PICK e \in Events : e = ev[t] /\ at[t] = "send" /\ UNCHANGED mode /\ e # NoEvent
    BY SendsEffect, EventsAssumption DEF InSend
  <1>2. PICK k \in 0 .. numBuffers(e) :
          /\ SentOf(e) = First(e, k)
          /\ curOffset[t] = Reached(e, k) /\ (mode = "sendmmsg" => k = 0)
    BY <1>1 DEF SentInv
  <1>3. /\ Reached(e, k) \in 0 .. Bytes[e] /\ (Reached(e, k) = Bytes[e] <=> k = numBuffers(e))
        /\ numBuffers(e) \in Nat /\ Bytes[e] \in Nat
    BY <1>1, ReachedBounds, BuffersCover
  <1>4. e \notin Done
    BY <1>1 DEF DoneInv
  <1>5. \A s \in Threads : s # t /\ ev[s] # NoEvent => ev[s] # e
    BY <1>1, SingleHolder DEF Single
  <1>6. \E new, m \in 0 .. numBuffers(e) :
          /\ sent' = sent \cup First(e, new)
          /\ SentOf(e) \cup First(e, new) = First(e, m)
          /\ e \in complete' => m = numBuffers(e)
          /\ at'[t] = "send" => curOffset'[t] = Reached(e, m) /\ mode # "sendmmsg"
    <2>0. SentOf(e) \subseteq sent
      BY <1>1 DEF SentOf
    <2>1. CASE SendMsg(t) \/ Submit(t)
      <3>1. /\ sent' = sent \cup {Fragment(e, Reached(e, k))} /\ mode # "sendmmsg"
            /\ Reached(e, k) < Bytes[e] /\ complete' = complete
            /\ curOffset' = [curOffset EXCEPT ![t] = Reached(e, k) + PldLen(e, Reached(e, k))]
        BY <1>1, <1>2, <2>1 DEF SendMsg, Submit, Fragment
      <3>2. k \in 0 .. numBuffers(e) - 1
        BY <1>1, <1>3, <3>1
      <3>3. /\ First(e, k + 1) = First(e, k) \cup {Fragment(e, Reached(e, k))}
            /\ k + 1 \in 0 .. numBuffers(e)
            /\ Reached(e, k + 1) = Reached(e, k) + PldLen(e, Reached(e, k))
        BY <1>1, <3>2, FirstNext, FragmentAt
      <3>4. sent' = sent \cup First(e, k + 1)
        BY <1>1, <1>2, <2>0, <3>1, <3>3
      <3>5. curOffset'[t] = Reached(e, k + 1)
        BY <1>1, <3>1, <3>3 DEF HandInv
      <3>6. e \notin complete'
        BY <1>1, <1>4, <3>1 DEF Done
      <3>. QED
        BY <1>1, <1>2, <3>1, <3>3, <3>4, <3>5, <3>6
    <2>2. CASE SendMsgFails(t) \/ SendDone(t)
      <3>1. sent' = sent /\ Leave(t, ev[t])
        BY <1>1, <2>2 DEF SendMsgFails, SendDone
      <3>2. at'[t] # "send"
        BY <1>1, <3>1 DEF Leave, HandInv
      <3>3. sent' = sent \cup First(e, k) /\ SentOf(e) \cup First(e, k) = First(e, k)
        BY <1>1, <1>2, <2>0, <3>1
      <3>4. e \in complete' => k = numBuffers(e)
        BY <1>1, <1>2, <1>3, <1>4, <2>2 DEF SendMsgFails, SendDone, Done
      <3>. QED
        BY <1>1, <1>2, <3>2, <3>3, <3>4
    <2>3. ASSUME NEW j \in 0 .. numBuffers(e), SendMMsg(t, j)
          PROVE  \E new, m \in 0 .. numBuffers(e) :
                   /\ sent' = sent \cup First(e, new)
                   /\ SentOf(e) \cup First(e, new) = First(e, m)
                   /\ e \in complete' => m = numBuffers(e)
                   /\ at'[t] = "send" => curOffset'[t] = Reached(e, m) /\ mode # "sendmmsg"
      <3>1. /\ sent' = sent \cup First(e, j) /\ mode = "sendmmsg" /\ Leave(t, ev[t])
            /\ complete' = IF j = numBuffers(e) THEN complete \cup {e} ELSE complete
        BY <1>1, <2>3 DEF SendMMsg, First
      <3>2. SentOf(e) = {}
        BY <1>1, <1>2, <3>1, FirstNone
      <3>3. at'[t] # "send"
        BY <1>1, <3>1 DEF Leave, HandInv
      <3>4. e \in complete' => j = numBuffers(e)
        BY <1>1, <1>4, <3>1 DEF Done
      <3>5. SentOf(e) \cup First(e, j) = First(e, j)
        BY <1>1, <3>2
      <3>. QED
        BY <1>1, <3>1, <3>3, <3>4, <3>5
    <2>. QED
      BY <1>1, <2>1, <2>2, <2>3 DEF Sends
  <1>7. PICK new, m \in 0 .. numBuffers(e) :
          /\ sent' = sent \cup First(e, new)
          /\ SentOf(e) \cup First(e, new) = First(e, m)
          /\ e \in complete' => m = numBuffers(e)
          /\ at'[t] = "send" => curOffset'[t] = Reached(e, m) /\ mode # "sendmmsg"
    BY <1>1, <1>6
  <1>8. \A f \in First(e, new) : f.ev = e
    BY <1>1, FirstEv
  <1>9. /\ \A x \in Events : x # e => SentOf(x)' = SentOf(x)
        /\ SentOf(e)' = First(e, m)
    BY <1>1, <1>7, <1>8 DEF SentOf
  <1>10. /\ \A s \in Threads : s # t => at'[s] = at[s] /\ ev'[s] = ev[s] /\ curOffset'[s] = curOffset[s]
         /\ \/ e \in Done'
            \/ at'[t] = "send" /\ ev'[t] = e
         /\ at'[t] = "send" => ev'[t] = e
         /\ Done \subseteq Done' /\ complete' \subseteq complete \cup {e}
    <2>1. CASE SendMsg(t) \/ Submit(t)
      BY <1>1, <2>1 DEF SendMsg, Submit, Done, HandInv
    <2>2. CASE Leave(t, ev[t]) /\ e \in Done' /\ Done \subseteq Done' /\ complete' \subseteq complete \cup {e}
      <3>1. /\ at' = [at EXCEPT ![t] = at'[t]] /\ at'[t] # "send"
            /\ ev' = [ev EXCEPT ![t] = ev'[t]] /\ curOffset' = [curOffset EXCEPT ![t] = 0]
        BY <1>1, <2>2 DEF Leave, HandInv
      <3>. QED
        BY <1>1, <2>2, <3>1 DEF HandInv
    <2>3. CASE SendMsgFails(t) \/ SendDone(t)
      BY <1>1, <2>2, <2>3 DEF SendMsgFails, SendDone, Done
    <2>4. ASSUME NEW j \in 0 .. numBuffers(e), SendMMsg(t, j)
          PROVE  Leave(t, ev[t]) /\ e \in Done' /\ Done \subseteq Done' /\ complete' \subseteq complete \cup {e}
      BY <1>1, <2>4 DEF SendMMsg, Done
    <2>. QED
      BY <1>1, <2>1, <2>2, <2>3, <2>4 DEF Sends
  <1>11. \A f \in sent' : f.ev \in Done' \/ \E s \in Threads : at'[s] = "send" /\ ev'[s] = f.ev
    <2>. SUFFICES ASSUME NEW f \in sent'
         PROVE  f.ev \in Done' \/ \E s \in Threads : at'[s] = "send" /\ ev'[s] = f.ev
      OBVIOUS
    <2>1. CASE f.ev = e
      BY <1>1, <1>10, <2>1
    <2>2. CASE f.ev # e
      <3>1. f \in sent
        BY <1>1, <1>7, <1>8, <2>2
      <3>2. f.ev \in Done \/ \E s \in Threads : at[s] = "send" /\ ev[s] = f.ev
        BY <1>1, <3>1 DEF SentInv
      <3>. QED
        BY <1>1, <1>10, <2>2, <3>2
    <2>. QED
      BY <1>1, <2>1, <2>2
  <1>12. ASSUME NEW x \in Events
         PROVE  \E j \in 0 .. numBuffers(x) :
                  /\ SentOf(x)' = First(x, j)
                  /\ x \in complete' => j = numBuffers(x)
                  /\ \A s \in Threads : at'[s] = "send" /\ ev'[s] = x =>
                       curOffset'[s] = Reached(x, j) /\ (mode' = "sendmmsg" => j = 0)
    <2>1. CASE x = e
      <3>1. \A s \in Threads : at'[s] = "send" /\ ev'[s] = e => s = t
        BY <1>1, <1>5, <1>10
      <3>. QED
        BY <1>1, <1>7, <1>9, <2>1, <3>1
    <2>2. CASE x # e
      <3>1. PICK j \in 0 .. numBuffers(x) :
              /\ SentOf(x) = First(x, j)
              /\ x \in complete => j = numBuffers(x)
              /\ \A s \in Threads : at[s] = "send" /\ ev[s] = x =>
                   curOffset[s] = Reached(x, j) /\ (mode = "sendmmsg" => j = 0)
        BY <1>1 DEF SentInv
      <3>. QED
        BY <1>1, <1>9, <1>10, <2>2, <3>1
    <2>. QED
      BY <1>1, <2>1, <2>2
  <1>. QED
    BY <1>1, <1>11, <1>12 DEF SentInv

(* Nothing was sent of an event that is with no thread and not done. *)
LEMMA NothingSent ==
  ASSUME SentInv, NEW e, e \notin Done, \A t \in Threads : ev[t] = e => at[t] # "send"
  PROVE  \A f \in sent : f.ev # e
  BY DEF SentInv

LEMMA SentNext ==
  ASSUME HandInv, OwnInv, DoneInv, SentInv, OwnInv', [Next]_vars
  PROVE  SentInv'
  <1>1. ASSUME NEW t \in Threads, Sends(t)
        PROVE  SentInv'
    BY <1>1, SentSends
  <1>2. CASE ~\E t \in Threads : Sends(t)
    <2>1. UNCHANGED <<sent, complete, failed>>
      BY <1>2, DoneStays
    <2>2. Single'
      BY HandNext, SingleHolderNext
    <2>3. ASSUME UNCHANGED <<at, ev, curOffset, mode>>
          PROVE  SentInv'
      BY <2>1, <2>2, <2>3, SentFrame, EventsAssumption
    <2>4. ASSUME NEW t \in Threads, UNCHANGED <<curOffset, mode>>,
                 \A s \in Threads : s # t => at'[s] = at[s] /\ ev'[s] = ev[s],
                 at[t] # "send",
                 at'[t] = "send" => ev'[t] \in Events /\ ev'[t] \notin Done
                                    /\ \A f \in sent : f.ev # ev'[t]
          PROVE  SentInv'
      <3>1. at'[t] = "send" => curOffset'[t] = 0
        BY <2>4 DEF HandInv
      <3>. QED
        BY <2>1, <2>2, <2>4, <3>1, SentFrame, EventsAssumption DEF Done
    <2>5. ASSUME NEW u \in Users, NEW e \in Events, NEW n \in Requests, NEW p \in Calls, Call(u, e, n, p)
          PROVE  SentInv'
      <3>1. /\ UNCHANGED <<curOffset, mode>> /\ at' = [at EXCEPT ![u] = p] /\ ev' = [ev EXCEPT ![u] = e]
            /\ at[u] = "out" /\ p # "send"
        BY <2>5, ModesAssumption DEF Call
      <3>. QED
        BY <2>4, <3>1 DEF HandInv, Threads
    <2>6. ASSUME NEW u \in Users, TakeNumber(u)
          PROVE  SentInv'
      <3>1. /\ UNCHANGED <<curOffset, mode, ev>> /\ at' = [at EXCEPT ![u] = at'[u]]
            /\ at[u] \in {"enqueue", "direct"}
        BY <2>6 DEF TakeNumber, HandInv, Threads
      <3>2. ev[u] \in Events /\ ev[u] # NoEvent /\ u \in Threads
        BY <3>1 DEF HandInv, Threads
      <3>3. ev[u] \notin Done
        BY <3>1, <3>2 DEF DoneInv
      <3>4. \A t \in Threads : ev[t] = ev[u] => at[t] # "send"
        BY <3>1, <3>2, SingleHolder DEF Single
      <3>5. \A f \in sent : f.ev # ev[u]
        BY <3>3, <3>4, NothingSent
      <3>. QED
        BY <2>4, <3>1, <3>2, <3>3, <3>5 DEF HandInv
    <2>7. ASSUME NEW u \in Users, Push(u) \/ PushFull(u)
          PROVE  SentInv'
      <3>1. /\ UNCHANGED <<curOffset, mode>> /\ at' = [at EXCEPT ![u] = "out"]
            /\ ev' = [ev EXCEPT ![u] = NoEvent] /\ at[u] = "push"
        BY <2>7 DEF Push, PushFull
      <3>. QED
        BY <2>4, <3>1 DEF HandInv, Threads
    <2>8. CASE Pop \/ Post
      BY <2>3, <2>8 DEF Pop, Post, SendStep, threadVars
    <2>9. ASSUME NEW w \in Workers, Take(w)
          PROVE  SentInv'
      <3>. DEFINE e == Head(pool).ev
      <3>1. /\ UNCHANGED <<curOffset, mode>> /\ pool # <<>> /\ pool' = Tail(pool)
            /\ at[w] = "idle" /\ ev' = [ev EXCEPT ![w] = e] /\ at' = [at EXCEPT ![w] = at'[w]]
        BY <2>9 DEF Take, HandInv, Threads
      <3>2. e \in Posted /\ e \in Events
        BY <3>1, PostedTail DEF OwnInv
      <3>. HIDE DEF e
      <3>3. e \notin Done
        BY <3>2 DEF DoneInv, OwnInv, Apart
      <3>4. e # NoEvent
        BY <3>2, EventsAssumption
      <3>5. e \notin Working /\ e \in accepted
        BY <3>2 DEF OwnInv, Apart
      <3>6. \A t \in Threads : ev[t] # e
        BY <3>4, <3>5 DEF OwnInv, Working, Threads
      <3>7. \A f \in sent : f.ev # e
        BY <3>3, <3>6, NothingSent
      <3>. QED
        BY <2>4, <3>1, <3>2, <3>3, <3>7 DEF HandInv, Threads
    <2>10. ASSUME NEW w \in Workers, Lock(w)
           PROVE  SentInv'
      <3>1. UNCHANGED <<curOffset, mode, ev>> /\ at[w] = "lock" /\ at' = [at EXCEPT ![w] = "send"]
        BY <2>10 DEF Lock
      <3>2. ev[w] \in Events /\ ev[w] # NoEvent /\ w \in Threads
        BY <3>1 DEF HandInv, Threads
      <3>3. ev[w] \notin Done
        BY <3>1, <3>2 DEF DoneInv
      <3>4. \A t \in Threads : ev[t] = ev[w] => at[t] # "send"
        BY <3>1, <3>2, SingleHolder DEF Single
      <3>5. \A f \in sent : f.ev # ev[w]
        BY <3>3, <3>4, NothingSent
      <3>. QED
        BY <2>4, <3>1, <3>2, <3>3, <3>5 DEF HandInv
    <2>11. ASSUME NEW w \in Workers, Unlock(w) \/ Callback(w)
           PROVE  SentInv'
      <3>1. /\ UNCHANGED <<curOffset, mode>> /\ at' = [at EXCEPT ![w] = "idle"]
            /\ ev' = [ev EXCEPT ![w] = NoEvent] /\ at[w] \in {"reap", "callback"}
        BY <2>11 DEF Unlock, Callback, Finish
      <3>. QED
        BY <2>4, <3>1 DEF HandInv, Threads
    <2>12. ASSUME NEW r \in Sockets, Reaps(r)
           PROVE  SentInv'
      BY <2>3, <2>12, ReapsEffect DEF threadVars
    <2>13. ASSUME NEW s \in submitted, NEW ok \in BOOLEAN, Complete(s, ok)
           PROVE  SentInv'
      BY <2>3, <2>13 DEF Complete, threadVars
    <2>14. CASE Aside
      BY <2>3, <2>14, AsideEffect DEF threadVars
    <2>. QED
      BY <1>2, <2>5, <2>6, <2>7, <2>8, <2>9, <2>10, <2>11, <2>12, <2>13, <2>14, StepCases
  <1>. QED
    BY <1>1, <1>2

LEMMA SentInit == Init => SentInv
  <1>. SUFFICES ASSUME Init PROVE SentInv
    OBVIOUS
  <1>1. sent = {} /\ complete = {} /\ \A t \in Threads : at[t] # "send"
    BY DEF Init
  <1>2. ASSUME NEW e \in Events
        PROVE  SentOf(e) = First(e, 0) /\ 0 \in 0 .. numBuffers(e)
    BY <1>1, FirstNone DEF SentOf
  <1>. QED
    BY <1>1, <1>2 DEF SentInv

(* What is known of threads, events and fragments in every reachable state. *)
SendInv == HandInv /\ OwnInv /\ DoneInv /\ SentInv

LEMMA SendCorrect == SafeSpec => []SendInv
  <1>1. HandInv /\ OwnInv /\ DoneInv /\ SentInv /\ OwnInv' /\ [Next]_vars => SentInv'
    BY SentNext
  <1>2. Init => SentInv
    BY SentInit
  <1>3. HandInv /\ OwnInv /\ DoneInv /\ SentInv => SendInv
    BY DEF SendInv
  <1>. QED
    BY <1>1, <1>2, <1>3, DoneCorrect, PTL DEF SafeSpec

(* Fragment j of an event begins where j - 1 fragments reach and ends where j do. *)
LEMMA FirstSpan ==
  ASSUME NEW e \in Events, NEW j \in 1 .. numBuffers(e)
  PROVE  /\ Fragments(e)[j].off = (j - 1) * maxPldLen
         /\ Fragments(e)[j].len \in 1 .. maxPldLen
         /\ Fragments(e)[j].off + Fragments(e)[j].len = Reached(e, j)
         /\ j \in Nat /\ j - 1 \in Nat
         /\ (j - 1) * maxPldLen \in Nat /\ j * maxPldLen = (j - 1) * maxPldLen + maxPldLen
         /\ Reached(e, j) \in Nat /\ Reached(e, j) <= j * maxPldLen /\ Reached(e, j) <= Bytes[e]
         /\ j < numBuffers(e) => Reached(e, j) = j * maxPldLen
  <1>1. numBuffers(e) \in Nat /\ maxPldLen \in Nat \ {0} /\ Bytes[e] <= numBuffers(e) * maxPldLen
    BY BuffersCover
  <1>. DEFINE i == j - 1
  <1>2. i \in 0 .. numBuffers(e) - 1 /\ j = i + 1 /\ i \in Nat /\ j \in 0 .. numBuffers(e)
    BY <1>1
  <1>. HIDE DEF i
  <1>3. /\ Fragments(e)[j] = Fragment(e, Reached(e, i)) /\ Fragment(e, Reached(e, i)).off = i * maxPldLen
        /\ Fragment(e, Reached(e, i)).len \in 1 .. maxPldLen
        /\ Reached(e, i) = i * maxPldLen
        /\ Reached(e, j) = Reached(e, i) + PldLen(e, Reached(e, i))
    BY <1>2, FragmentAt
  <1>4. Fragment(e, Reached(e, i)).len = PldLen(e, Reached(e, i))
    BY DEF Fragment
  <1>5. j * maxPldLen = i * maxPldLen + maxPldLen /\ i * maxPldLen \in Nat
    BY <1>1, <1>2, MulNext
  <1>6. j < numBuffers(e) => Reached(e, j) = j * maxPldLen
    BY <1>1 DEF Reached
  <1>7. Reached(e, j) \in 0 .. Bytes[e]
    BY <1>2, ReachedBounds
  <1>. DEFINE p == i * maxPldLen
              q == j * maxPldLen
  <1>8. q = p + maxPldLen /\ p \in Nat
    BY <1>5
  <1>. HIDE DEF p, q
  <1>9. Reached(e, j) <= q
    BY <1>1, <1>3, <1>4, <1>8 DEF p
  <1>10. Bytes[e] \in Nat
    BY BuffersCover
  <1>11. Reached(e, j) \in Nat /\ Reached(e, j) <= Bytes[e]
    BY <1>7, <1>10
  <1>. QED
    BY <1>2, <1>3, <1>4, <1>5, <1>6, <1>9, <1>11 DEF i, q

(* What k fragments reach is more than what fewer do. *)
LEMMA ReachedGrows ==
  ASSUME NEW e \in Events, NEW k \in 1 .. numBuffers(e), NEW j \in 1 .. k
  PROVE  Reached(e, j) <= Reached(e, k)
  <1>1. numBuffers(e) \in Nat /\ maxPldLen \in Nat \ {0} /\ Bytes[e] \in Nat
    BY BuffersCover
  <1>2. j \in 1 .. numBuffers(e) /\ j \in Nat /\ k \in Nat
    BY <1>1
  <1>3. /\ Reached(e, j) \in Nat /\ Reached(e, j) <= Bytes[e] /\ Reached(e, j) <= j * maxPldLen
        /\ Reached(e, k) \in Nat
    BY <1>2, FirstSpan
  <1>4. CASE k = numBuffers(e)
    BY <1>3, <1>4 DEF Reached
  <1>5. CASE k # numBuffers(e)
    <2>1. Reached(e, k) = k * maxPldLen
      BY <1>5 DEF Reached
    <2>2. j * maxPldLen <= k * maxPldLen /\ j * maxPldLen \in Nat /\ k * maxPldLen \in Nat
      BY <1>1, <1>2, MulMono
    <2>. QED
      BY <1>3, <2>1, <2>2
  <1>. QED
    BY <1>4, <1>5

(* The first k fragments of an event have all bytes up to where they reach, and
   no two of them the same byte. *)
LEMMA FirstTiles ==
  ASSUME NEW e \in Events, NEW k \in 0 .. numBuffers(e)
  PROVE  /\ \A f \in First(e, k) : f.len \in 1 .. maxPldLen
         /\ \A f, g \in First(e, k) : f.off < g.off => f.off + f.len <= g.off
         /\ UNION {f.off .. f.off + f.len - 1 : f \in First(e, k)} = 0 .. Reached(e, k) - 1
  <1>1. /\ numBuffers(e) \in Nat /\ maxPldLen \in Nat \ {0} /\ Bytes[e] \in Nat
        /\ k \in Nat /\ Reached(e, k) \in 0 .. Bytes[e]
    BY BuffersCover, ReachedBounds
  <1>2. \A j \in 1 .. k : j \in 1 .. numBuffers(e)
    BY <1>1
  <1>3. \A j \in 1 .. k : Fragments(e)[j].len \in 1 .. maxPldLen
    BY <1>2, FirstSpan
  <1>4. ASSUME NEW j \in 1 .. k, NEW l \in 1 .. k, Fragments(e)[j].off < Fragments(e)[l].off
        PROVE  Fragments(e)[j].off + Fragments(e)[j].len <= Fragments(e)[l].off
    <2>. DEFINE p == (j - 1) * maxPldLen
                q == (l - 1) * maxPldLen
    <2>1. /\ Fragments(e)[j].off = p /\ p \in Nat /\ Fragments(e)[l].off = q /\ q \in Nat
          /\ j \in Nat /\ l \in Nat /\ j - 1 \in Nat /\ l - 1 \in Nat
          /\ Fragments(e)[j].off + Fragments(e)[j].len = Reached(e, j)
          /\ Reached(e, j) <= j * maxPldLen
      BY <1>2, FirstSpan
    <2>2. l <= j => q <= p
      BY <1>1, <2>1, MulMono
    <2>. HIDE DEF p, q
    <2>3. j <= l - 1
      BY <1>4, <2>1, <2>2
    <2>4. j * maxPldLen <= q /\ j * maxPldLen \in Nat
      BY <1>1, <2>1, <2>3, MulMono DEF q
    <2>5. Reached(e, j) \in Nat
      BY <1>2, FirstSpan
    <2>. QED
      BY <2>1, <2>4, <2>5
  <1>5. ASSUME NEW j \in 1 .. k, NEW x \in Fragments(e)[j].off .. Fragments(e)[j].off + Fragments(e)[j].len - 1
        PROVE  x \in 0 .. Reached(e, k) - 1
    <2>1. /\ Fragments(e)[j].off \in Nat /\ Reached(e, j) \in Nat
          /\ Fragments(e)[j].off + Fragments(e)[j].len = Reached(e, j)
      BY <1>2, FirstSpan
    <2>2. Reached(e, j) <= Reached(e, k)
      BY <1>1, ReachedGrows
    <2>. DEFINE o == Fragments(e)[j].off
                l == Fragments(e)[j].len
                r == Reached(e, k)
    <2>3. x \in o .. o + l - 1
      OBVIOUS
    <2>4. o \in Nat /\ l \in Nat /\ o + l = Reached(e, j) /\ r \in Nat
      BY <1>1, <1>2, <2>1, FirstSpan
    <2>. HIDE DEF o, l, r
    <2>5. o + l <= r
      BY <2>2, <2>4 DEF r
    <2>6. x \in 0 .. r - 1
      BY <2>3, <2>4, <2>5
    <2>. QED
      BY <2>6 DEF r
  <1>6. ASSUME NEW x \in 0 .. Reached(e, k) - 1
        PROVE  \E j \in 1 .. k :
                 x \in Fragments(e)[j].off .. Fragments(e)[j].off + Fragments(e)[j].len - 1
    <2>. DEFINE M == maxPldLen
                i == x \div M
                j == i + 1
    <2>1. x \in Nat /\ x < Reached(e, k) /\ M \in Nat \ {0}
      BY <1>1
    <2>. HIDE DEF M
    <2>2. i \in Nat /\ M * i <= x /\ x < M * i + M
      BY <2>1
    <2>. HIDE DEF i
    <2>3. i * M = M * i
      BY <2>1, <2>2
    <2>4. i * M <= x /\ x < j * M /\ j \in Nat /\ j >= 1 /\ j - 1 = i
      BY <2>1, <2>2, <2>3, MulNext
    <2>5. k >= 1
      <3>1. k = 0 => Reached(e, k) = 0
        BY ReachedBounds
      <3>. QED
        BY <1>1, <2>1, <3>1
    <2>6. Reached(e, k) <= k * M /\ k * M \in Nat
      <3>1. k \in 1 .. numBuffers(e)
        BY <1>1, <2>5
      <3>2. Reached(e, k) <= k * M
        BY <3>1, FirstSpan DEF M
      <3>. QED
        BY <1>1, <2>1, <3>2
    <2>7. x < k * M
      BY <1>1, <2>1, <2>6
    <2>8. k <= i => k * M <= i * M
      BY <1>1, <2>1, <2>2, MulMono
    <2>9. i * M \in Nat
      BY <2>1, <2>2
    <2>10. i < k
      BY <1>1, <2>1, <2>2, <2>4, <2>6, <2>7, <2>8, <2>9
    <2>11. j \in 1 .. k
      BY <1>1, <2>2, <2>10
    <2>12. /\ Fragments(e)[j].off = i * M
           /\ Fragments(e)[j].off + Fragments(e)[j].len = Reached(e, j)
           /\ j < numBuffers(e) => Reached(e, j) = j * M
      BY <1>2, <2>4, <2>11, FirstSpan DEF M
    <2>13. x < Reached(e, j) /\ Reached(e, j) \in Nat
      <3>1. CASE j < numBuffers(e)
        BY <2>1, <2>2, <2>4, <2>12, <3>1
      <3>2. CASE ~(j < numBuffers(e))
        <4>1. j = numBuffers(e) /\ k = j
          BY <1>1, <2>4, <2>11, <3>2
        <4>. QED
          BY <1>1, <2>1, <4>1
      <3>. QED
        BY <3>1, <3>2
    <2>. HIDE DEF j
    <2>. DEFINE o == Fragments(e)[j].off
                l == Fragments(e)[j].len
    <2>14. o \in Nat /\ l \in Nat /\ o <= x /\ x < o + l
      BY <1>2, <2>4, <2>9, <2>11, <2>12, <2>13, FirstSpan DEF M
    <2>. HIDE DEF o, l
    <2>15. x \in o .. o + l - 1
      BY <2>1, <2>14
    <2>16. \E i1 \in 1 .. k :
             x \in Fragments(e)[i1].off .. Fragments(e)[i1].off + Fragments(e)[i1].len - 1
      BY <2>11, <2>15, Zenon DEF o, l
    <2>. QED
      BY <2>16
  <1>7. UNION {f.off .. f.off + f.len - 1 : f \in First(e, k)} \subseteq 0 .. Reached(e, k) - 1
    BY <1>5 DEF First
  <1>8. 0 .. Reached(e, k) - 1 \subseteq UNION {f.off .. f.off + f.len - 1 : f \in First(e, k)}
    BY <1>6 DEF First
  <1>. QED
    BY <1>3, <1>4, <1>7, <1>8 DEF First

(* The fragments that were sent of an event are not empty, fit into a packet
   and have each of its first bytes once; all of them if nothing failed. *)
THEOREM FragmentsTileCorrect == SafeSpec => []FragmentsTile
  <1>1. ASSUME SentInv PROVE FragmentsTile
    <2>. SUFFICES ASSUME NEW e \in Events
         PROVE  LET bytes == UNION {f.off .. f.off + f.len - 1 : f \in SentOf(e)}
                IN  /\ \A f \in SentOf(e) : f.len \in 1 .. maxPldLen
                    /\ \A f, g \in SentOf(e) : f.off < g.off => f.off + f.len <= g.off
                    /\ bytes = 0 .. Cardinality(bytes) - 1 /\ Cardinality(bytes) <= Bytes[e]
                    /\ e \in complete => Cardinality(bytes) = Bytes[e]
      BY DEF FragmentsTile
    <2>. DEFINE bytes == UNION {f.off .. f.off + f.len - 1 : f \in SentOf(e)}
    <2>1. PICK k \in 0 .. numBuffers(e) : SentOf(e) = First(e, k) /\ (e \in complete => k = numBuffers(e))
      BY <1>1 DEF SentInv
    <2>. DEFINE r == Reached(e, k)
    <2>2. /\ \A f \in SentOf(e) : f.len \in 1 .. maxPldLen
          /\ \A f, g \in SentOf(e) : f.off < g.off => f.off + f.len <= g.off
          /\ bytes = 0 .. r - 1
      BY <2>1, FirstTiles
    <2>3. r \in 0 .. Bytes[e] /\ (r = Bytes[e] <=> k = numBuffers(e)) /\ Bytes[e] \in Nat
      BY ReachedBounds, BuffersCover
    <2>. HIDE DEF bytes, r
    <2>4. Cardinality(0 .. r - 1) = r
      <3>. DEFINE s == r - 1
      <3>1. r \in Nat /\ s \in Int /\ s = r - 1
        BY <2>3
      <3>. HIDE DEF s
      <3>2. Cardinality(0 .. s) = IF 0 > s THEN 0 ELSE s - 0 + 1
        BY <3>1, FS_Interval
      <3>. QED
        BY <3>1, <3>2
    <2>5. Cardinality(bytes) = r
      BY <2>2, <2>4
    <2>6. bytes = 0 .. Cardinality(bytes) - 1 /\ Cardinality(bytes) <= Bytes[e]
      BY <2>2, <2>3, <2>5
    <2>7. e \in complete => Cardinality(bytes) = Bytes[e]
      BY <2>1, <2>3, <2>5
    <2>. QED
      BY <2>2, <2>6, <2>7 DEF bytes
  <1>2. SendInv => FragmentsTile
    BY <1>1 DEF SendInv
  <1>. QED
    BY <1>2, SendCorrect, PTL

-----------------------------------------------------------------------------
(* Counting fragments *)

(* The fragment after the first k is not one of them. *)
LEMMA FirstFresh ==
  ASSUME NEW e \in Events, NEW k \in 0 .. numBuffers(e) - 1
  PROVE  Fragment(e, Reached(e, k)) \notin First(e, k)
  <1>1. numBuffers(e) \in Nat /\ maxPldLen \in Nat \ {0} /\ k \in Nat
    BY BuffersCover
  <1>. SUFFICES ASSUME NEW j \in 1 .. k
       PROVE  Fragments(e)[j].off # Fragment(e, Reached(e, k)).off
    BY DEF First
  <1>2. j \in 1 .. numBuffers(e)
    BY <1>1
  <1>3. /\ Fragments(e)[j].off = (j - 1) * maxPldLen /\ (j - 1) * maxPldLen \in Nat /\ j \in Nat
        /\ j * maxPldLen = (j - 1) * maxPldLen + maxPldLen
    BY <1>2, FirstSpan
  <1>4. Fragment(e, Reached(e, k)).off = k * maxPldLen
    BY FragmentAt
  <1>5. j * maxPldLen <= k * maxPldLen /\ k * maxPldLen \in Nat
    BY <1>1, <1>3, MulMono
  <1>. DEFINE p == (j - 1) * maxPldLen
              q == k * maxPldLen
  <1>6. p + maxPldLen <= q /\ p \in Nat /\ q \in Nat
    BY <1>3, <1>5
  <1>. HIDE DEF p, q
  <1>7. p # q
    BY <1>1, <1>6
  <1>. QED
    BY <1>3, <1>4, <1>7 DEF p, q

(* The fragments of an event differ in their offsets. *)
LEMMA FirstCount ==
  ASSUME NEW e \in Events, NEW k \in 0 .. numBuffers(e)
  PROVE  IsFiniteSet(First(e, k)) /\ Cardinality(First(e, k)) = k
  <1>1. numBuffers(e) \in Nat /\ k \in Nat /\ k \in Int
    BY BuffersCover
  <1>. DEFINE g == [j \in 1 .. k |-> Fragments(e)[j]]
  <1>2. ASSUME NEW i \in 1 .. k, NEW j \in 1 .. k, i < j
        PROVE  g[i] # g[j]
    <2>. DEFINE h == j - 1
    <2>1. h \in 0 .. numBuffers(e) - 1 /\ j = h + 1 /\ i \in 1 .. h
      BY <1>1, <1>2
    <2>. HIDE DEF h
    <2>2. Fragments(e)[j] = Fragment(e, Reached(e, h)) /\ Fragments(e)[j] \notin First(e, h)
      BY <2>1, FragmentAt, FirstFresh
    <2>3. Fragments(e)[i] \in First(e, h)
      BY <2>1 DEF First
    <2>. QED
      BY <2>2, <2>3
  <1>3. \A i, j \in 1 .. k : g[i] = g[j] => i = j
    <2>. SUFFICES ASSUME NEW i \in 1 .. k, NEW j \in 1 .. k, i # j
         PROVE  g[i] # g[j]
      OBVIOUS
    <2>1. i < j \/ j < i
      BY <1>1
    <2>. QED
      BY <1>2, <2>1
  <1>4. g \in Bijection(1 .. k, First(e, k))
    BY <1>3 DEF First, Bijection, Injection, Surjection, IsInjective
  <1>5. ExistsBijection(1 .. k, First(e, k))
    BY <1>4 DEF ExistsBijection
  <1>6. IsFiniteSet(1 .. k) /\ Cardinality(1 .. k) = k
    BY <1>1, FS_Interval
  <1>. QED
    BY <1>5, <1>6, FS_Bijection

(* A fragment is sent once. *)
LEMMA FragmentSent ==
  ASSUME SendInv, NEW t \in Threads, SendMsg(t) \/ Submit(t)
  PROVE  /\ ev[t] \in Events /\ ev[t] \notin Done /\ UNCHANGED <<mode, complete, failed>>
         /\ Fragment(ev[t], curOffset[t]) \notin sent
         /\ sent' = sent \cup {Fragment(ev[t], curOffset[t])}
         /\ Fragment(ev[t], curOffset[t]).ev = ev[t]
  <1>1. Sends(t)
    BY DEF Sends
  <1>2. at[t] = "send" /\ ev[t] \in Events /\ InSend
    BY <1>1, SendsEffect DEF SendInv
  <1>3. PICK k \in 0 .. numBuffers(ev[t]) :
          SentOf(ev[t]) = First(ev[t], k) /\ curOffset[t] = Reached(ev[t], k)
    BY <1>2 DEF SendInv, SentInv
  <1>4. /\ sent' = sent \cup {Fragment(ev[t], curOffset[t])} /\ curOffset[t] < Bytes[ev[t]]
        /\ UNCHANGED <<mode, complete, failed>>
    BY <1>2 DEF SendMsg, Submit, InSend
  <1>5. k \in 0 .. numBuffers(ev[t]) - 1
    BY <1>2, <1>3, <1>4, ReachedBounds, BuffersCover
  <1>6. Fragment(ev[t], curOffset[t]).ev = ev[t]
    BY DEF Fragment
  <1>7. Fragment(ev[t], curOffset[t]) \notin SentOf(ev[t])
    BY <1>2, <1>3, <1>5, FirstFresh
  <1>8. ev[t] \notin Done
    BY <1>2 DEF SendInv, DoneInv
  <1>. QED
    BY <1>2, <1>4, <1>6, <1>7, <1>8 DEF SentOf

(* So is every fragment of a batch. *)
LEMMA BatchSent ==
  ASSUME SendInv, NEW t \in Threads, NEW k \in 0 .. numBuffers(ev[t]), SendMMsg(t, k)
  PROVE  /\ ev[t] \in Events /\ ev[t] \notin Done
         /\ sent' = sent \cup First(ev[t], k) /\ sent \cap First(ev[t], k) = {}
         /\ IsFiniteSet(First(ev[t], k)) /\ Cardinality(First(ev[t], k)) = k
  <1>1. Sends(t)
    BY DEF Sends
  <1>2. at[t] = "send" /\ ev[t] \in Events /\ mode = "sendmmsg"
    BY <1>1, SendsEffect DEF SendInv, SendMMsg
  <1>3. SentOf(ev[t]) = {}
    BY <1>2, FirstNone DEF SendInv, SentInv
  <1>4. sent' = sent \cup First(ev[t], k)
    BY DEF SendMMsg, First
  <1>5. \A f \in First(ev[t], k) : f.ev = ev[t]
    BY <1>2, FirstEv
  <1>6. ev[t] \notin Done
    BY <1>2 DEF SendInv, DoneInv
  <1>. QED
    BY <1>2, <1>3, <1>4, <1>5, <1>6, FirstCount DEF SentOf

(* All fragments of an event were sent when its _send() ends without an error. *)
LEMMA WholeSent ==
  ASSUME SendInv, NEW t \in Threads, SendDone(t)
  PROVE  /\ ev[t] \in Events /\ ev[t] \notin Done /\ UNCHANGED <<mode, sent, failed>>
         /\ IsFiniteSet(SentOf(ev[t])) /\ Cardinality(SentOf(ev[t])) = numBuffers(ev[t])
         /\ numBuffers(ev[t]) \in Nat
  <1>1. Sends(t)
    BY DEF Sends
  <1>2. at[t] = "send" /\ ev[t] \in Events /\ curOffset[t] = Bytes[ev[t]] /\ UNCHANGED <<mode, sent, failed>>
    BY <1>1, SendsEffect DEF SendInv, SendDone, InSend
  <1>3. PICK k \in 0 .. numBuffers(ev[t]) :
          SentOf(ev[t]) = First(ev[t], k) /\ curOffset[t] = Reached(ev[t], k)
    BY <1>2 DEF SendInv, SentInv
  <1>4. k = numBuffers(ev[t])
    BY <1>2, <1>3, ReachedBounds
  <1>5. ev[t] \notin Done
    BY <1>2 DEF SendInv, DoneInv
  <1>. QED
    BY <1>2, <1>3, <1>4, <1>5, FirstCount, BuffersCover

-----------------------------------------------------------------------------
(* What the rings hold *)

(* Outside _send(), the reaping and the kernel nothing is counted or sent. *)
LEMMA CountsStay ==
  ASSUME HandInv, [Next]_vars, ~\E t \in Threads : Sends(t), ~\E r \in Sockets : Reaps(r),
         ~\E s \in submitted, ok \in BOOLEAN : Complete(s, ok)
  PROVE  /\ UNCHANGED <<mode, submitted, completed, outstandingSends, msgCnt, errCnt, sent, complete, failed>>
         /\ \/ UNCHANGED <<eventsInCurrentSync, reported>>
            \/ eventsInCurrentSync' = 0 /\ reported' = reported + eventsInCurrentSync
  <1>1. CASE \E u \in Users, e \in Events, n \in Requests, p \in Calls : Call(u, e, n, p)
    BY <1>1 DEF Call, doneVars, ringVars, statVars, syncVars
  <1>2. CASE \E u \in Users : TakeNumber(u) \/ Push(u) \/ PushFull(u)
    BY <1>2 DEF TakeNumber, Push, PushFull, doneVars, ringVars, statVars, syncVars
  <1>3. CASE Pop \/ Post
    BY <1>3 DEF Pop, Post, SendStep, doneVars, ringVars, statVars, syncVars
  <1>4. CASE \E w \in Workers : Take(w) \/ Lock(w) \/ Unlock(w) \/ Callback(w)
    BY <1>4 DEF Take, Lock, Unlock, Callback, Finish, doneVars, ringVars, statVars, syncVars
  <1>5. CASE Aside
    BY <1>5, AsideEffect DEF doneVars, ringVars
  <1>. QED
    BY <1>1, <1>2, <1>3, <1>4, <1>5, StepCases

LEMMA RingNext ==
  ASSUME SendInv, RingInv, [Next]_vars
  PROVE  RingInv'
  <1>1. ASSUME UNCHANGED <<mode, sent, submitted, completed>>
        PROVE  RingInv'
    BY <1>1 DEF RingInv, Rings
  <1>2. ASSUME NEW t \in Threads, SendMsg(t)
        PROVE  RingInv'
    <2>1. /\ UNCHANGED <<mode, submitted, completed>> /\ ~Rings
          /\ sent' = sent \cup {Fragment(ev[t], curOffset[t])}
      BY <1>2 DEF SendMsg, InSend, ringVars, Rings
    <2>2. submitted' = {} /\ completed' = {} /\ IsFiniteSet(sent') /\ ~Rings'
      BY <2>1, FS_AddElement DEF RingInv, Rings
    <2>. QED
      BY <2>2, FS_EmptySet DEF RingInv
  <1>3. ASSUME NEW t \in Threads, NEW k \in 0 .. numBuffers(ev[t]), SendMMsg(t, k)
        PROVE  RingInv'
    <2>1. UNCHANGED <<mode, submitted, completed>> /\ ~Rings
      BY <1>3 DEF SendMMsg, InSend, ringVars, Rings
    <2>2. sent' = sent \cup First(ev[t], k) /\ IsFiniteSet(First(ev[t], k))
      BY <1>3, BatchSent
    <2>3. submitted' = {} /\ completed' = {} /\ IsFiniteSet(sent') /\ ~Rings'
      BY <2>1, <2>2, FS_Union DEF RingInv, Rings
    <2>. QED
      BY <2>3, FS_EmptySet DEF RingInv
  <1>4. ASSUME NEW t \in Threads, Submit(t)
        PROVE  RingInv'
    <2>. DEFINE f == Fragment(ev[t], curOffset[t])
                l == t \in Workers /\ f.off + f.len >= Bytes[ev[t]]
                s == [frag |-> f, ring |-> rri[t], last |-> l]
    <2>1. /\ UNCHANGED <<mode, completed>> /\ Rings /\ submitted' = submitted \cup {s}
      BY <1>4 DEF Submit, InSend, Rings
    <2>2. f \notin sent /\ sent' = sent \cup {f}
      BY <1>4, FragmentSent
    <2>3. rri[t] \in Sockets /\ l \in BOOLEAN
      BY DEF SendInv, HandInv
    <2>. HIDE DEF f, l
    <2>4. s.frag = f /\ s \in [frag : sent', ring : Sockets, last : BOOLEAN]
      BY <2>2, <2>3
    <2>. HIDE DEF s
    <2>5. /\ \A c \in submitted : c.frag # f
          /\ \A c \in completed : c.frag # f
      BY <2>2 DEF RingInv
    <2>6. IsFiniteSet(sent') /\ IsFiniteSet(submitted')
      BY <2>1, <2>2, FS_AddElement DEF RingInv
    <2>7. /\ submitted \subseteq [frag : sent', ring : Sockets, last : BOOLEAN]
          /\ completed \subseteq [frag : sent', ring : Sockets, last : BOOLEAN, ok : BOOLEAN]
      BY <2>2 DEF RingInv
    <2>. QED
      BY <2>1, <2>4, <2>5, <2>6, <2>7 DEF RingInv, Rings
  <1>5. ASSUME NEW t \in Threads, SendMsgFails(t) \/ SendDone(t)
        PROVE  RingInv'
    BY <1>1, <1>5 DEF SendMsgFails, SendDone, InSend, ringVars
  <1>6. ASSUME NEW r \in Sockets, Reaps(r)
        PROVE  RingInv'
    <2>1. UNCHANGED <<mode, sent, submitted>> /\ completed' \subseteq completed
      BY <1>6, ReapsEffect DEF Reap
    <2>2. IsFiniteSet(completed')
      BY <2>1, FS_Subset DEF RingInv
    <2>. QED
      BY <2>1, <2>2 DEF RingInv, Rings
  <1>7. ASSUME NEW s \in submitted, NEW ok \in BOOLEAN, Complete(s, ok)
        PROVE  RingInv'
    <2>. DEFINE c == [frag |-> s.frag, ring |-> s.ring, last |-> s.last, ok |-> ok]
    <2>1. /\ UNCHANGED <<mode, sent>> /\ submitted' = submitted \ {s} /\ completed' = completed \cup {c}
      BY <1>7 DEF Complete, doneVars
    <2>2. /\ c.frag = s.frag /\ c \in [frag : sent, ring : Sockets, last : BOOLEAN, ok : BOOLEAN]
      BY DEF RingInv
    <2>. HIDE DEF c
    <2>3. IsFiniteSet(submitted') /\ IsFiniteSet(completed')
      BY <2>1, FS_AddElement, FS_RemoveElement DEF RingInv
    <2>4. Rings
      BY DEF RingInv
    <2>. QED
      BY <2>1, <2>2, <2>3, <2>4 DEF RingInv, Rings
  <1>. QED
    BY <1>1, <1>2, <1>3, <1>4, <1>5, <1>6, <1>7, CountsStay DEF Sends, SendInv

LEMMA RingInit == Init => RingInv
  BY FS_EmptySet DEF Init, RingInv

-----------------------------------------------------------------------------
(* What is counted *)

LEMMA CountTypes ==
  ASSUME SendInv, RingInv
  PROVE  /\ Cardinality(sent) \in Nat /\ Cardinality(submitted) \in Nat /\ Cardinality(completed) \in Nat
         /\ IsFiniteSet(Uncounted) /\ Cardinality(Uncounted) \in Nat
         /\ Cardinality(complete) \in Nat /\ Cardinality(failed) \in Nat
  <1>1. IsFiniteSet(Uncounted)
    BY FS_Subset DEF Uncounted, RingInv
  <1>. QED
    BY <1>1, FS_CardinalityType DEF RingInv, SendInv, DoneInv

LEMMA CountSendMsg ==
  ASSUME SendInv, RingInv, CountInv, NEW t \in Threads, SendMsg(t)
  PROVE  CountInv'
  <1>1. /\ mode = "sendmsg" /\ msgCnt' = msgCnt + 1
        /\ UNCHANGED <<mode, outstandingSends, errCnt, eventsInCurrentSync, reported, complete, failed>>
    BY DEF SendMsg, InSend, ringVars, syncVars
  <1>2. Cardinality(sent') = Cardinality(sent) + 1
    BY FragmentSent, FS_AddElement DEF RingInv
  <1>. QED
    BY <1>1, <1>2, CountTypes DEF CountInv, Rings

LEMMA CountSubmit ==
  ASSUME SendInv, RingInv, CountInv, NEW t \in Threads, Submit(t)
  PROVE  CountInv'
  <1>. DEFINE f == Fragment(ev[t], curOffset[t])
              s == [frag |-> f, ring |-> rri[t], last |-> t \in Workers /\ f.off + f.len >= Bytes[ev[t]]]
  <1>1. /\ mode = "liburing_send" /\ msgCnt' = msgCnt + 1
        /\ UNCHANGED <<mode, outstandingSends, completed, errCnt, eventsInCurrentSync, reported, complete>>
        /\ submitted' = submitted \cup {s}
    BY DEF Submit, InSend, syncVars
  <1>2. f \notin sent /\ sent' = sent \cup {f} /\ f.ev = ev[t] /\ ev[t] \notin complete
    BY FragmentSent DEF Done
  <1>3. s.frag = f
    OBVIOUS
  <1>. HIDE DEF s, f
  <1>4. Cardinality(sent') = Cardinality(sent) + 1
    BY <1>2, FS_AddElement DEF RingInv
  <1>5. Cardinality(submitted') = Cardinality(submitted) + 1
    <2>1. s \notin submitted
      BY <1>2, <1>3 DEF RingInv
    <2>. QED
      BY <1>1, <2>1, FS_AddElement DEF RingInv
  <1>6. Cardinality(Uncounted') = Cardinality(Uncounted) + 1
    <2>1. Uncounted' = Uncounted \cup {f} /\ f \notin Uncounted
      BY <1>1, <1>2 DEF Uncounted
    <2>. QED
      BY <2>1, CountTypes, FS_AddElement
  <1>. QED
    BY <1>1, <1>4, <1>5, <1>6, CountTypes DEF CountInv, Rings

LEMMA CountSendMMsg ==
  ASSUME SendInv, RingInv, CountInv, NEW t \in Threads, NEW k \in 0 .. numBuffers(ev[t]), SendMMsg(t, k)
  PROVE  CountInv'
  <1>. DEFINE e == ev[t]
              n == numBuffers(ev[t])
              taken == IF k = 0 /\ n > 0 THEN -1 ELSE k
  <1>1. /\ mode = "sendmmsg" /\ msgCnt' = msgCnt + n /\ errCnt' = errCnt + (n - taken)
        /\ complete' = IF k = n THEN complete \cup {e} ELSE complete
        /\ failed' = IF k = n THEN failed ELSE failed \cup {e}
        /\ eventsInCurrentSync' = eventsInCurrentSync + (IF k = n THEN 1 ELSE 0)
        /\ UNCHANGED <<mode, outstandingSends, reported>>
    BY DEF SendMMsg, InSend, ringVars, syncVars
  <1>2. /\ e \in Events /\ e \notin complete /\ e \notin failed
        /\ sent' = sent \cup First(e, k) /\ sent \cap First(e, k) = {}
        /\ IsFiniteSet(First(e, k)) /\ Cardinality(First(e, k)) = k
    BY BatchSent DEF Done
  <1>3. n \in Nat /\ k \in Nat /\ k <= n
    BY <1>2, BuffersCover
  <1>4. taken \in Int /\ n - taken \in Nat /\ (k = n => taken = n) /\ (k # n => k + n - taken <= n + 1)
        /\ k + (n - taken) >= n
    BY <1>3
  <1>. HIDE DEF e, n, taken
  <1>5. Cardinality(sent') = Cardinality(sent) + k
    <2>1. Cardinality(sent \cup First(e, k)) = Cardinality(sent) + k - Cardinality(sent \cap First(e, k))
      BY <1>2, FS_Union DEF RingInv
    <2>2. Cardinality(sent \cap First(e, k)) = 0
      BY <1>2, FS_EmptySet
    <2>3. sent' = sent \cup First(e, k)
      BY <1>2
    <2>. QED
      BY <1>3, <2>1, <2>2, <2>3, CountTypes
  <1>6. /\ Cardinality(complete') = Cardinality(complete) + (IF k = n THEN 1 ELSE 0)
        /\ Cardinality(failed') = Cardinality(failed) + (IF k = n THEN 0 ELSE 1)
    <2>1. /\ Cardinality(complete \cup {e}) = Cardinality(complete) + 1
          /\ Cardinality(failed \cup {e}) = Cardinality(failed) + 1
      BY <1>2, FS_AddElement DEF SendInv, DoneInv
    <2>. QED
      BY <1>1, <2>1, CountTypes
  <1>7. errCnt' = 0 <=> failed' = {}
    <2>1. CASE k = n
      BY <1>1, <1>3, <1>4, <2>1 DEF CountInv, Rings
    <2>2. CASE k # n
      <3>1. taken \in Int /\ taken < n
        BY <1>3, <2>2 DEF taken
      <3>2. errCnt' # 0
        BY <1>1, <1>3, <3>1 DEF CountInv
      <3>. QED
        BY <1>1, <2>2, <3>2
    <2>. QED
      BY <2>1, <2>2
  <1>8. msgCnt' <= Cardinality(sent') + errCnt' /\ Cardinality(sent') + errCnt' <= msgCnt' + Cardinality(failed')
    BY <1>1, <1>3, <1>4, <1>5, <1>6, CountTypes DEF CountInv
  <1>9. errCnt' \in Nat /\ msgCnt' \in Nat /\ eventsInCurrentSync' \in Nat
        /\ eventsInCurrentSync' + reported' = Cardinality(complete')
    BY <1>1, <1>3, <1>4, <1>6, CountTypes DEF CountInv
  <1>. QED
    BY <1>1, <1>7, <1>8, <1>9 DEF CountInv, Rings

LEMMA CountSendMsgFails ==
  ASSUME SendInv, RingInv, CountInv, NEW t \in Threads, SendMsgFails(t)
  PROVE  CountInv'
  <1>1. /\ mode = "sendmsg" /\ msgCnt' = msgCnt + 1 /\ errCnt' = errCnt + 1
        /\ failed' = failed \cup {ev[t]}
        /\ UNCHANGED <<mode, outstandingSends, eventsInCurrentSync, reported, sent, complete>>
    BY DEF SendMsgFails, InSend, ringVars, syncVars
  <1>2. failed' # {} /\ errCnt' # 0
    BY <1>1, CountTypes DEF CountInv
  <1>. QED
    BY <1>1, <1>2, CountTypes DEF CountInv, Rings

LEMMA CountSendDone ==
  ASSUME SendInv, RingInv, CountInv, NEW t \in Threads, SendDone(t)
  PROVE  CountInv'
  <1>. DEFINE e == ev[t]
              n == numBuffers(ev[t])
  <1>1. /\ mode # "sendmmsg" /\ complete' = complete \cup {e}
        /\ outstandingSends' = IF Rings THEN outstandingSends + n ELSE outstandingSends
        /\ eventsInCurrentSync' = eventsInCurrentSync + 1
        /\ UNCHANGED <<mode, submitted, completed, msgCnt, errCnt, reported, sent, failed>>
    BY DEF SendDone, InSend, syncVars, Rings
  <1>2. e \notin complete /\ IsFiniteSet(SentOf(ev[t])) /\ Cardinality(SentOf(ev[t])) = n /\ n \in Nat
    BY WholeSent DEF Done
  <1>3. Cardinality(complete') = Cardinality(complete) + 1
    BY <1>1, <1>2, FS_AddElement DEF SendInv, DoneInv
  <1>4. Uncounted' = Uncounted \ SentOf(ev[t]) /\ SentOf(ev[t]) \subseteq Uncounted
    BY <1>1, <1>2 DEF Uncounted, SentOf
  <1>5. Uncounted \cap SentOf(ev[t]) = SentOf(ev[t])
    BY <1>4
  <1>6. Cardinality(Uncounted') = Cardinality(Uncounted) - n
    <2>1. Cardinality(Uncounted \ SentOf(ev[t])) = Cardinality(Uncounted) - Cardinality(Uncounted \cap SentOf(ev[t]))
      BY CountTypes, FS_Difference
    <2>2. Cardinality(Uncounted \cap SentOf(ev[t])) = n
      BY <1>2, <1>5
    <2>. QED
      BY <1>4, <2>1, <2>2
  <1>. HIDE DEF e, n
  <1>. QED
    BY <1>1, <1>2, <1>3, <1>6, CountTypes DEF CountInv, Rings

LEMMA CountReaps ==
  ASSUME SendInv, RingInv, CountInv, NEW r \in Sockets, Reaps(r)
  PROVE  CountInv'
  <1>. DEFINE n == Cardinality(OfRing(r))
              m == Cardinality({c \in OfRing(r) : ~c.ok})
  <1>1. /\ OfRing(r) # {} /\ completed' = completed \ OfRing(r)
        /\ outstandingSends' = outstandingSends - n /\ errCnt' = errCnt + m
        /\ UNCHANGED <<mode, submitted, msgCnt, eventsInCurrentSync, reported, sent, complete, failed>>
    BY ReapsEffect DEF Reap, syncVars
  <1>2. OfRing(r) \subseteq completed /\ completed \cap OfRing(r) = OfRing(r)
    BY DEF OfRing
  <1>3. Rings
    BY <1>1, <1>2 DEF RingInv
  <1>4. n \in Nat /\ m \in Nat
    <2>1. IsFiniteSet(OfRing(r))
      BY <1>2, FS_Subset DEF RingInv
    <2>2. IsFiniteSet({c \in OfRing(r) : ~c.ok})
      BY <2>1, FS_Subset
    <2>. QED
      BY <2>1, <2>2, FS_CardinalityType
  <1>5. Cardinality(completed') = Cardinality(completed) - n
    BY <1>1, <1>2, FS_Difference DEF RingInv
  <1>. HIDE DEF n, m
  <1>6. Uncounted' = Uncounted
    BY <1>1 DEF Uncounted
  <1>. QED
    BY <1>1, <1>3, <1>4, <1>5, <1>6, CountTypes DEF CountInv, Rings

LEMMA CountComplete ==
  ASSUME SendInv, RingInv, CountInv, NEW s \in submitted, NEW ok \in BOOLEAN, Complete(s, ok)
  PROVE  CountInv'
  <1>. DEFINE c == [frag |-> s.frag, ring |-> s.ring, last |-> s.last, ok |-> ok]
  <1>1. /\ submitted' = submitted \ {s} /\ completed' = completed \cup {c} /\ c.frag = s.frag
        /\ UNCHANGED <<mode, outstandingSends, msgCnt, errCnt, eventsInCurrentSync, reported, sent,
                       complete, failed>>
    BY DEF Complete, doneVars, statVars, syncVars
  <1>. HIDE DEF c
  <1>2. c \notin completed
    BY <1>1 DEF RingInv
  <1>3. /\ Cardinality(submitted') = Cardinality(submitted) - 1
        /\ Cardinality(completed') = Cardinality(completed) + 1
    BY <1>1, <1>2, FS_AddElement, FS_RemoveElement DEF RingInv
  <1>4. Uncounted' = Uncounted
    BY <1>1 DEF Uncounted
  <1>. QED
    BY <1>1, <1>3, <1>4, CountTypes DEF CountInv, Rings

LEMMA CountNext ==
  ASSUME SendInv, RingInv, CountInv, [Next]_vars
  PROVE  CountInv'
  <1>1. CASE /\ UNCHANGED <<mode, submitted, completed, outstandingSends, msgCnt, errCnt, sent, complete, failed>>
             /\ \/ UNCHANGED <<eventsInCurrentSync, reported>>
                \/ eventsInCurrentSync' = 0 /\ reported' = reported + eventsInCurrentSync
    <2>1. Uncounted' = Uncounted
      BY <1>1 DEF Uncounted
    <2>. QED
      BY <1>1, <2>1, CountTypes DEF CountInv, Rings
  <1>. QED
    BY <1>1, CountSendMsg, CountSendMsgFails, CountSendMMsg, CountSubmit, CountSendDone, CountReaps,
       CountComplete, CountsStay DEF Sends, SendInv

LEMMA CountInit == Init => CountInv
  <1>. SUFFICES ASSUME Init PROVE CountInv
    OBVIOUS
  <1>1. /\ sent = {} /\ submitted = {} /\ completed = {} /\ complete = {} /\ failed = {} /\ Uncounted = {}
        /\ outstandingSends = 0 /\ msgCnt = 0 /\ errCnt = 0 /\ eventsInCurrentSync = 0 /\ reported = 0
    BY DEF Init, Uncounted
  <1>. QED
    BY <1>1, FS_EmptySet DEF CountInv

LEMMA CountCorrect == SafeSpec => [](SendInv /\ RingInv /\ CountInv)
  <1>1. SendInv /\ RingInv /\ [Next]_vars => RingInv'
    BY RingNext
  <1>2. SendInv /\ RingInv /\ CountInv /\ [Next]_vars => CountInv'
    BY CountNext
  <1>. QED
    BY <1>1, <1>2, RingInit, CountInit, SendCorrect, PTL DEF SafeSpec

(* As long as no send has failed msgCnt counts the fragments given to the kernel,
   without rings errCnt tells whether an event was cut short, and every event
   that was sent without an error is counted in exactly one sync period. *)
THEOREM SendStatsAgreeCorrect == SafeSpec => []SendStatsAgree
  <1>1. ASSUME SendInv, RingInv, CountInv
        PROVE  SendStatsAgree
    <2>1. mode \in SendModes /\ Cardinality(sent) \in Nat
      BY <1>1, CountTypes, ModesAssumption DEF SendInv, HandInv
    <2>2. ASSUME errCnt = 0 PROVE msgCnt = Cardinality(sent)
      BY <1>1, <2>1, <2>2, FS_EmptySet DEF CountInv, Rings, SendModes
    <2>. QED
      BY <1>1, <2>2 DEF CountInv, Rings, SendStatsAgree
  <1>. QED
    BY <1>1, CountCorrect, PTL

(* outstandingSends falls short of what the rings hold by the fragments of the
   _send() calls that have not returned, at any time. *)
THEOREM OutstandingAgreesCorrect == SafeSpec => []OutstandingAgrees
  <1>1. ASSUME SendInv, RingInv, CountInv
        PROVE  OutstandingAgrees
    <2>. DEFINE Sending == {f \in sent : \E t \in Threads : at[t] = "send" /\ ev[t] = f.ev}
    <2>1. CASE Rings
      <3>1. ASSUME NEW f \in sent PROVE f \in Uncounted <=> f \in Sending
        BY <1>1, <2>1 DEF Uncounted, SendInv, SentInv, DoneInv, Done
      <3>2. Uncounted = Sending
        BY <3>1 DEF Uncounted
      <3>. QED
        BY <1>1, <2>1, <3>2 DEF CountInv, OutstandingAgrees
    <2>2. CASE ~Rings
      BY <2>2 DEF Rings, OutstandingAgrees
    <2>. QED
      BY <2>1, <2>2
  <1>. QED
    BY <1>1, CountCorrect, PTL

-----------------------------------------------------------------------------
(* Callbacks *)

(* Where no ring is used, only the workers' last step matters. *)
LEMMA CallPlain ==
  ASSUME CallInv, ~Rings, UNCHANGED <<mode, called, finished>>
  PROVE  CallInv'
  BY DEF CallInv, Rings

(* Steps that neither send nor reap, and let no worker into a ring or out of it
   while it sends. *)
CallIdle ==
  /\ UNCHANGED <<mode, submitted, completed, called, complete>>
  /\ accepted \subseteq accepted' /\ (accepted' \ accepted) \cap complete = {}
  /\ ~Rings => UNCHANGED finished
  /\ Rings => \A w \in Workers :
       /\ at'[w] = "send" <=> at[w] = "send"
       /\ at'[w] = "reap" => at[w] = "reap"
       /\ at[w] \in {"send", "reap"} => rri'[w] = rri[w]
       /\ at[w] = "send" => ev'[w] = ev[w] /\ curOffset'[w] = curOffset[w]

LEMMA CallFrame ==
  ASSUME CallInv, CallIdle
  PROVE  CallInv'
  <1>1. CASE ~Rings
    BY <1>1, CallPlain DEF CallIdle
  <1>2. CASE Rings
    <2>1. \A e : Last(e)' = Last(e)
      BY DEF CallIdle, Last
    <2>2. /\ called' \in [Events -> {0, 1}] /\ Rings'
          /\ \A w, v \in Workers :
               w # v /\ at'[w] \in {"send", "reap"} /\ at'[v] \in {"send", "reap"} => rri'[w] # rri'[v]
      BY <1>2 DEF CallInv, CallIdle, Rings
    <2>3. ASSUME NEW w \in Workers, at'[w] = "send", curOffset'[w] = Bytes[ev'[w]], Bytes[ev'[w]] # 0
          PROVE  Last(ev'[w]) # {}
      BY <1>2, <2>3 DEF CallInv, CallIdle
    <2>4. \A w \in Workers :
            at'[w] = "send" /\ curOffset'[w] = Bytes[ev'[w]] /\ Bytes[ev'[w]] # 0 => Last(ev[w])' # {}
      <3>1. \A w : Last(ev[w])' = Last(ev'[w])
        BY DEF CallIdle, Last
      <3>. QED
        BY <2>3, <3>1
    <2>5. ASSUME NEW e \in Events
          PROVE  /\ called'[e] = 1 => e \in accepted' \cap complete'
                 /\ \A s \in Last(e)' :
                      /\ called'[e] = 0 /\ e \in accepted' /\ s.frag.off + s.frag.len >= Bytes[e]
                      /\ e \in complete' \/ \E w \in Workers : at'[w] = "send" /\ ev'[w] = e /\ rri'[w] = s.ring
                 /\ e \in accepted' \cap complete' /\ Bytes[e] # 0 => called'[e] = 1 \/ Last(e)' # {}
      <3>1. \A s \in Last(e)' :
              /\ called[e] = 0 /\ e \in accepted /\ s.frag.off + s.frag.len >= Bytes[e]
              /\ e \in complete \/ \E w \in Workers : at[w] = "send" /\ ev[w] = e /\ rri[w] = s.ring
        BY <1>2, <2>1 DEF CallInv
      <3>2. \A w \in Workers : at[w] = "send" => at'[w] = "send" /\ ev'[w] = ev[w] /\ rri'[w] = rri[w]
        BY <1>2 DEF CallIdle
      <3>3. UNCHANGED <<called, complete>> /\ accepted \subseteq accepted' /\ (accepted' \ accepted) \cap complete = {}
        BY DEF CallIdle
      <3>. QED
        BY <1>2, <2>1, <3>1, <3>2, <3>3 DEF CallInv
    <2>. QED
      BY <2>2, <2>4, <2>5 DEF CallInv
  <1>. QED
    BY <1>1, <1>2

(* Entries of an event's last fragment are the same. *)
LEMMA LastOne ==
  ASSUME SendInv, RingInv, CallInv, Rings, NEW e \in Events, NEW s \in Last(e), NEW c \in Last(e)
  PROVE  s = c
  <1>. DEFINE n == numBuffers(e)
  <1>1. PICK k \in 0 .. n : SentOf(e) = First(e, k)
    BY DEF SendInv, SentInv
  <1>2. ASSUME NEW x \in Last(e)
        PROVE  x.frag = Fragments(e)[n]
    <2>1. x.frag \in sent /\ x.frag.ev = e /\ x.frag.off + x.frag.len >= Bytes[e]
      BY DEF Last, RingInv, CallInv
    <2>2. PICK j \in 1 .. k : x.frag = Fragments(e)[j]
      BY <1>1, <2>1 DEF SentOf, First
    <2>3. n \in Nat /\ j \in 1 .. n /\ j \in 0 .. n
      BY BuffersCover
    <2>4. Reached(e, j) >= Bytes[e]
      BY <2>1, <2>2, <2>3, FirstSpan
    <2>5. Reached(e, j) \in 0 .. Bytes[e] /\ (Reached(e, j) = Bytes[e] <=> j = n) /\ Bytes[e] \in Nat
      BY <2>3, ReachedBounds, BuffersCover
    <2>6. Reached(e, j) = Bytes[e]
      BY <2>4, <2>5
    <2>. QED
      BY <2>2, <2>5, <2>6
  <1>3. s.frag = c.frag
    BY <1>2
  <1>. QED
    BY <1>3 DEF RingInv, Last

LEMMA CallSubmit ==
  ASSUME SendInv, RingInv, CallInv, NEW t \in Threads, Submit(t)
  PROVE  CallInv'
  <1>e. PICK e \in Events : e = ev[t]
    BY FragmentSent
  <1>f. PICK f : f = Fragment(e, curOffset[t])
    OBVIOUS
  <1>l. PICK l \in BOOLEAN : l = (t \in Workers /\ f.off + f.len >= Bytes[e])
    OBVIOUS
  <1>s. PICK s : s = [frag |-> f, ring |-> rri[t], last |-> l]
    OBVIOUS
  <1>1. /\ e = ev[t] /\ e \notin Done
        /\ s.frag = f /\ s.ring = rri[t] /\ s.last = l /\ f.ev = e
        /\ l <=> t \in Workers /\ f.off + f.len >= Bytes[e]
        /\ submitted' = submitted \cup {s} /\ curOffset' = [curOffset EXCEPT ![t] = f.off + f.len]
        /\ UNCHANGED <<mode, completed, called, complete, accepted, at, ev, rri>> /\ Rings
        /\ at[t] = "send"
    <2>1. e \notin Done /\ f.ev = e
      BY <1>e, <1>f, FragmentSent
    <2>2. f.off = curOffset[t]
      BY <1>f DEF Fragment
    <2>3. /\ UNCHANGED <<mode, completed, called, complete, accepted, at, ev, rri>> /\ Rings
          /\ at[t] = "send"
      BY DEF Submit, InSend, Rings, userVars, queueVars
    <2>4. curOffset' = [curOffset EXCEPT ![t] = f.off + f.len]
      BY <1>e, <1>f, <2>2 DEF Submit
    <2>5. submitted' = submitted \cup {s}
      BY <1>e, <1>f, <1>l, <1>s DEF Submit
    <2>6. s.frag = f /\ s.ring = rri[t] /\ s.last = l
      BY <1>s
    <2>. QED
      BY <1>e, <1>l, <2>1, <2>3, <2>4, <2>5, <2>6
  <1>2. \A x \in Events : Last(x)' = Last(x) \cup (IF l /\ x = e THEN {s} ELSE {})
    BY <1>1 DEF Last
  <1>3. t \in Workers => e \in accepted
    BY <1>1, EventsAssumption DEF SendInv, OwnInv, Working
  <1>4. called[e] = 0
    BY <1>1 DEF CallInv, Done
  <1>5. ASSUME NEW x \in Events
        PROVE  /\ called'[x] = 1 => x \in accepted' \cap complete'
               /\ \A c \in Last(x)' :
                    /\ called'[x] = 0 /\ x \in accepted' /\ c.frag.off + c.frag.len >= Bytes[x]
                    /\ x \in complete' \/ \E w \in Workers : at'[w] = "send" /\ ev'[w] = x /\ rri'[w] = c.ring
               /\ x \in accepted' \cap complete' /\ Bytes[x] # 0 => called'[x] = 1 \/ Last(x)' # {}
    BY <1>1, <1>2, <1>3, <1>4 DEF CallInv
  <1>6. ASSUME NEW w \in Workers, at'[w] = "send", curOffset'[w] = Bytes[ev'[w]], Bytes[ev'[w]] # 0
        PROVE  Last(ev[w])' # {}
    <2>1. ev[w] \in Events /\ w \in Threads /\ ev[w] # NoEvent
      BY <1>1, <1>6, EventsAssumption DEF SendInv, HandInv, Threads
    <2>2. CASE w = t
      <3>1. f.off + f.len = Bytes[e]
        BY <1>1, <1>6, <2>2 DEF SendInv, HandInv
      <3>2. l
        BY <1>1, <2>2, <3>1, EventsAssumption
      <3>3. Last(e)' # {}
        BY <1>2, <3>2
      <3>. QED
        BY <1>1, <2>2, <3>3 DEF Last
    <2>3. CASE w # t
      <3>1. Last(ev[w]) # {}
        BY <1>1, <1>6, <2>3 DEF CallInv, SendInv, HandInv
      <3>. QED
        BY <1>1, <3>1 DEF Last
    <2>. QED
      BY <2>2, <2>3
  <1>. QED
    BY <1>1, <1>5, <1>6 DEF CallInv, Rings

LEMMA CallSendDone ==
  ASSUME SendInv, CallInv, Rings, NEW t \in Threads, SendDone(t)
  PROVE  CallInv'
  <1>e. PICK e \in Events : e = ev[t]
    BY WholeSent
  <1>1. /\ complete' = complete \cup {e} /\ at[t] = "send" /\ curOffset[t] = Bytes[e]
        /\ UNCHANGED <<mode, submitted, completed, called, accepted, rri>> /\ Leave(t, ev[t])
        /\ Rings'
    BY <1>e DEF SendDone, InSend, Rings, userVars, queueVars
  <1>2. \A x : Last(x)' = Last(x)
    BY <1>1 DEF Last
  <1>3. e \in accepted => t \in Workers
    BY <1>e, EventsAssumption DEF SendInv, OwnInv, Threads
  <1>4. e \in accepted /\ Bytes[e] # 0 => Last(e) # {}
    BY <1>e, <1>1, <1>3 DEF CallInv
  <1>5. \A w \in Workers : /\ at'[w] = "send" => w # t
                           /\ w # t => /\ at'[w] = at[w] /\ ev'[w] = ev[w] /\ rri'[w] = rri[w]
                                       /\ curOffset'[w] = curOffset[w]
                           /\ at'[w] \in {"send", "reap"} => at[w] \in {"send", "reap"}
    BY <1>1 DEF Leave, SendInv, HandInv, Threads
  <1>6. ASSUME NEW x \in Events
        PROVE  /\ called'[x] = 1 => x \in accepted' \cap complete'
               /\ \A c \in Last(x)' :
                    /\ called'[x] = 0 /\ x \in accepted' /\ c.frag.off + c.frag.len >= Bytes[x]
                    /\ x \in complete' \/ \E w \in Workers : at'[w] = "send" /\ ev'[w] = x /\ rri'[w] = c.ring
               /\ x \in accepted' \cap complete' /\ Bytes[x] # 0 => called'[x] = 1 \/ Last(x)' # {}
    <2>1. \A c \in Last(x) :
            /\ called[x] = 0 /\ x \in accepted /\ c.frag.off + c.frag.len >= Bytes[x]
            /\ x \in complete \/ \E w \in Workers : at[w] = "send" /\ ev[w] = x /\ rri[w] = c.ring
      BY DEF CallInv
    <2>2. \A w \in Workers : at[w] = "send" /\ ev[w] = x => x = e \/ (at'[w] = "send" /\ ev'[w] = x /\ rri'[w] = rri[w])
      BY <1>e, <1>5
    <2>. QED
      BY <1>1, <1>2, <1>4, <2>1, <2>2 DEF CallInv
  <1>7. ASSUME NEW w \in Workers, at'[w] = "send", curOffset'[w] = Bytes[ev'[w]], Bytes[ev'[w]] # 0
        PROVE  Last(ev[w])' # {}
    <2>1. w # t /\ at[w] = "send" /\ ev'[w] = ev[w] /\ curOffset'[w] = curOffset[w]
      BY <1>5, <1>7
    <2>2. Last(ev[w]) # {}
      BY <1>7, <2>1 DEF CallInv
    <2>3. Last(ev[w])' = Last(ev'[w])
      BY <1>1 DEF Last
    <2>. QED
      BY <2>1, <2>2, <2>3
  <1>. QED
    BY <1>1, <1>5, <1>6, <1>7 DEF CallInv

LEMMA CallComplete ==
  ASSUME SendInv, RingInv, CallInv, NEW s \in submitted, NEW ok \in BOOLEAN, Complete(s, ok)
  PROVE  CallInv'
  <1>c. PICK c : c = [frag |-> s.frag, ring |-> s.ring, last |-> s.last, ok |-> ok]
    OBVIOUS
  <1>1. /\ submitted' = submitted \ {s} /\ completed' = completed \cup {c}
        /\ c.frag = s.frag /\ c.ring = s.ring /\ c.last = s.last
        /\ UNCHANGED <<mode, called, complete, accepted, at, ev, curOffset, rri>> /\ Rings /\ Rings'
    BY <1>c DEF Complete, doneVars, userVars, threadVars, queueVars, RingInv, Rings
  <1>2. \A x : /\ Last(x)' \subseteq Last(x) \cup (IF s \in Last(x) THEN {c} ELSE {})
               /\ Last(x) \ {s} \subseteq Last(x)'
               /\ s \in Last(x) => c \in Last(x)'
    BY <1>1 DEF Last
  <1>3. \A x : Last(x) # {} => Last(x)' # {}
    BY <1>2
  <1>4. ASSUME NEW x \in Events
        PROVE  /\ called'[x] = 1 => x \in accepted' \cap complete'
               /\ \A d \in Last(x)' :
                    /\ called'[x] = 0 /\ x \in accepted' /\ d.frag.off + d.frag.len >= Bytes[x]
                    /\ x \in complete' \/ \E w \in Workers : at'[w] = "send" /\ ev'[w] = x /\ rri'[w] = d.ring
               /\ x \in accepted' \cap complete' /\ Bytes[x] # 0 => called'[x] = 1 \/ Last(x)' # {}
    <2>1. \A d \in Last(x) :
            /\ called[x] = 0 /\ x \in accepted /\ d.frag.off + d.frag.len >= Bytes[x]
            /\ x \in complete \/ \E w \in Workers : at[w] = "send" /\ ev[w] = x /\ rri[w] = d.ring
      BY <1>1 DEF CallInv
    <2>2. \A d \in Last(x)' : \E b \in Last(x) : d.frag = b.frag /\ d.ring = b.ring
      BY <1>1, <1>2
    <2>. QED
      BY <1>1, <1>3, <2>1, <2>2 DEF CallInv
  <1>5. ASSUME NEW w \in Workers, at'[w] = "send", curOffset'[w] = Bytes[ev'[w]], Bytes[ev'[w]] # 0
        PROVE  Last(ev[w])' # {}
    <2>1. Last(ev[w]) # {}
      BY <1>1, <1>5 DEF CallInv
    <2>2. s \in Last(ev[w]) => c \in Last(ev[w])'
      BY <1>1 DEF Last
    <2>3. \A d \in Last(ev[w]) : d # s => d \in Last(ev[w])'
      BY <1>1 DEF Last
    <2>. QED
      BY <2>1, <2>2, <2>3
  <1>. QED
    BY <1>1, <1>4, <1>5 DEF CallInv

LEMMA CallLock ==
  ASSUME SendInv, CallInv, NEW w \in Workers, Lock(w)
  PROVE  CallInv'
  <1>1. /\ at[w] = "lock" /\ at' = [at EXCEPT ![w] = "send"]
        /\ \A v \in Workers : at[v] \in {"send", "reap"} => rri[v] # rri[w]
        /\ UNCHANGED <<mode, called, complete, accepted, submitted, completed, ev, curOffset, rri>>
    BY DEF Lock, userVars, queueVars, ringVars, doneVars
  <1>2. Rings /\ Rings' /\ curOffset[w] = 0 /\ w \in Threads
    BY <1>1 DEF SendInv, HandInv, Rings, Threads
  <1>3. \A x : Last(x)' = Last(x)
    BY <1>1 DEF Last
  <1>4. \A v \in Workers : at'[v] = IF v = w THEN "send" ELSE at[v]
    BY <1>1 DEF SendInv, HandInv, Threads
  <1>5. ASSUME NEW x \in Events
        PROVE  /\ called'[x] = 1 => x \in accepted' \cap complete'
               /\ \A d \in Last(x)' :
                    /\ called'[x] = 0 /\ x \in accepted' /\ d.frag.off + d.frag.len >= Bytes[x]
                    /\ x \in complete' \/ \E v \in Workers : at'[v] = "send" /\ ev'[v] = x /\ rri'[v] = d.ring
               /\ x \in accepted' \cap complete' /\ Bytes[x] # 0 => called'[x] = 1 \/ Last(x)' # {}
    BY <1>1, <1>2, <1>3, <1>4 DEF CallInv
  <1>6. ASSUME NEW v \in Workers, at'[v] = "send", curOffset'[v] = Bytes[ev'[v]], Bytes[ev'[v]] # 0
        PROVE  Last(ev[v])' # {}
    <2>1. Last(ev[v])' = Last(ev[v])
      BY <1>1 DEF Last
    <2>. QED
      BY <1>1, <1>2, <1>4, <1>6, <2>1 DEF CallInv
  <1>. QED
    BY <1>1, <1>2, <1>4, <1>5, <1>6 DEF CallInv

LEMMA CallCallback ==
  ASSUME SendInv, CallInv, NEW w \in Workers, Callback(w)
  PROVE  CallInv'
  <1>1. /\ called' = [called EXCEPT ![ev[w]] = @ + 1] /\ finished' = finished \cup {ev[w]}
        /\ UNCHANGED mode /\ at[w] = "callback"
    BY DEF Callback, Finish
  <1>2. ~Rings /\ ~Rings' /\ ev[w] \in Events /\ ev[w] # NoEvent
    BY <1>1 DEF SendInv, HandInv, Rings, Threads
  <1>3. ev[w] \notin finished
    BY <1>2 DEF SendInv, OwnInv, Apart, Working
  <1>4. called[ev[w]] = 0
    BY <1>2, <1>3 DEF CallInv
  <1>5. \A e \in Events : called'[e] = IF e = ev[w] THEN 1 ELSE called[e]
    BY <1>1, <1>2, <1>4 DEF CallInv
  <1>6. called' \in [Events -> {0, 1}]
    BY <1>1, <1>2, <1>4 DEF CallInv
  <1>. QED
    BY <1>1, <1>2, <1>5, <1>6 DEF CallInv

(* No worker sends into a ring that is being reaped. *)
LEMMA ReapAlone ==
  ASSUME SendInv, RingInv, CallInv, NEW r \in Sockets, Reaps(r)
  PROVE  Rings /\ \A w \in Workers : at[w] = "send" => rri[w] # r
  <1>1. Rings
    <2>1. completed # {}
      BY ReapsEffect DEF Reap, OfRing
    <2>. QED
      BY <2>1 DEF RingInv
  <1>2. CASE DrainRing(r)
    BY <1>1, <1>2 DEF DrainRing, PoolIdle
  <1>3. ASSUME NEW v \in Workers, rri[v] = r, ReapRing(v)
        PROVE  \A w \in Workers : at[w] = "send" => rri[w] # r
    BY <1>1, <1>3 DEF ReapRing, CallInv
  <1>. QED
    BY <1>1, <1>2, <1>3 DEF Reaps

LEMMA CallReaps ==
  ASSUME SendInv, RingInv, CallInv, NEW r \in Sockets, Reaps(r)
  PROVE  CallInv'
  <1>. DEFINE N(e) == {c \in OfRing(r) : c.last /\ c.frag.ev = e}
  <1>1. /\ completed' = completed \ OfRing(r) /\ OfRing(r) \subseteq completed
        /\ called' = [e \in Events |-> called[e] + Cardinality(N(e))]
        /\ UNCHANGED <<mode, submitted, complete, accepted, at, ev, curOffset, rri>>
    BY ReapsEffect DEF Reap, OfRing, userVars, threadVars, queueVars
  <1>2. Rings /\ Rings' /\ \A w \in Workers : at[w] = "send" => rri[w] # r
    BY <1>1, ReapAlone DEF Rings
  <1>3. \A e : /\ N(e) \subseteq Last(e) /\ Last(e)' \subseteq Last(e) /\ Last(e) \ N(e) \subseteq Last(e)'
               /\ \A c \in N(e) : c.ring = r /\ c \notin submitted' \cup completed'
    <2>1. submitted \cap completed = {}
      BY DEF RingInv
    <2>. QED
      BY <1>1, <2>1 DEF Last, OfRing
  <1>. HIDE DEF N
  <1>4. ASSUME NEW e \in Events
        PROVE  /\ called'[e] = IF N(e) = {} THEN called[e] ELSE 1
               /\ N(e) # {} => called[e] = 0 /\ e \in accepted \cap complete /\ Last(e)' = {}
               /\ N(e) = {} => Last(e)' = Last(e)
    <2>1. \A s, c \in Last(e) : s = c
      BY <1>2, LastOne
    <2>2. Cardinality(N(e)) = IF N(e) = {} THEN 0 ELSE 1
      BY <1>3, <2>1, AtMostOne
    <2>3. ASSUME NEW c \in N(e)
          PROVE  called[e] = 0 /\ e \in accepted \cap complete /\ Last(e)' = {}
      <3>1. c \in Last(e) /\ c.ring = r /\ c \notin submitted' \cup completed'
        BY <1>3
      <3>2. called[e] = 0 /\ e \in accepted
        BY <1>2, <3>1 DEF CallInv
      <3>3. e \in complete
        BY <1>2, <3>1 DEF CallInv
      <3>4. c \notin Last(e)'
        BY <3>1 DEF Last
      <3>. QED
        BY <1>3, <2>1, <3>1, <3>2, <3>3, <3>4
    <2>4. called'[e] = called[e] + Cardinality(N(e)) /\ called[e] \in {0, 1}
      BY <1>1 DEF CallInv
    <2>5. called'[e] = IF N(e) = {} THEN called[e] ELSE 1
      BY <2>2, <2>3, <2>4
    <2>. QED
      BY <1>3, <2>3, <2>5
  <1>5. called' \in [Events -> {0, 1}]
    BY <1>1, <1>4 DEF CallInv
  <1>6. ASSUME NEW e \in Events
        PROVE  /\ called'[e] = 1 => e \in accepted' \cap complete'
               /\ \A s \in Last(e)' :
                    /\ called'[e] = 0 /\ e \in accepted' /\ s.frag.off + s.frag.len >= Bytes[e]
                    /\ e \in complete' \/ \E w \in Workers : at'[w] = "send" /\ ev'[w] = e /\ rri'[w] = s.ring
               /\ e \in accepted' \cap complete' /\ Bytes[e] # 0 => called'[e] = 1 \/ Last(e)' # {}
    BY <1>1, <1>2, <1>4 DEF CallInv
  <1>7. ASSUME NEW w \in Workers, at'[w] = "send", curOffset'[w] = Bytes[ev'[w]], Bytes[ev'[w]] # 0
        PROVE  Last(ev[w])' # {}
    <2>1. at[w] = "send" /\ Last(ev[w]) # {} /\ ev[w] \in Events /\ w \in Threads /\ ev[w] # NoEvent
      BY <1>1, <1>2, <1>7, EventsAssumption DEF CallInv, SendInv, HandInv, Threads
    <2>2. PICK s \in Last(ev[w]) : TRUE
      BY <2>1
    <2>3. ev[w] \notin complete
      BY <2>1 DEF SendInv, DoneInv, Done
    <2>4. PICK v \in Workers : at[v] = "send" /\ ev[v] = ev[w] /\ rri[v] = s.ring
      BY <1>2, <2>1, <2>2, <2>3 DEF CallInv
    <2>5. s.ring # r
      BY <1>2, <2>4
    <2>6. s \in submitted' \cup completed'
      BY <1>1, <2>2, <2>5 DEF Last, OfRing
    <2>7. s \in Last(ev[w])'
      BY <1>1, <2>2, <2>6 DEF Last
    <2>. QED
      BY <2>7
  <1>8. \A w, v \in Workers :
          w # v /\ at'[w] \in {"send", "reap"} /\ at'[v] \in {"send", "reap"} => rri'[w] # rri'[v]
    BY <1>1, <1>2 DEF CallInv
  <1>. QED
    BY <1>2, <1>5, <1>6, <1>7, <1>8 DEF CallInv

LEMMA CallSends ==
  ASSUME SendInv, RingInv, CallInv, NEW t \in Threads, Sends(t)
  PROVE  CallInv'
  <1>1. CASE ~Rings
    <2>1. UNCHANGED <<mode, called, finished>>
      BY SendsEffect DEF SendInv, InSend
    <2>. QED
      BY <1>1, <2>1, CallPlain
  <1>2. CASE Rings
    <2>1. Submit(t) \/ SendDone(t)
      BY <1>2 DEF Sends, SendMsg, SendMsgFails, SendMMsg, Rings
    <2>. QED
      BY <1>2, <2>1, CallSubmit, CallSendDone
  <1>. QED
    BY <1>1, <1>2

LEMMA CallNext ==
  ASSUME SendInv, RingInv, CallInv, [Next]_vars
  PROVE  CallInv'
  <1>1. ASSUME NEW u \in Users, NEW e \in Events, NEW n \in Requests, NEW p \in Calls, Call(u, e, n, p)
        PROVE  CallIdle
    <2>1. /\ UNCHANGED <<mode, submitted, completed, called, complete, accepted, finished, rri, curOffset>>
          /\ at' = [at EXCEPT ![u] = p] /\ ev' = [ev EXCEPT ![u] = e]
      BY <1>1 DEF Call, queueVars, ringVars, doneVars
    <2>. QED
      BY <2>1, ThreadsAssumption DEF CallIdle, SendInv, HandInv, Threads
  <1>2. ASSUME NEW u \in Users, TakeNumber(u)
        PROVE  CallIdle
    <2>1. /\ UNCHANGED <<mode, submitted, completed, called, complete, accepted, finished, ev, curOffset>>
          /\ at' = [at EXCEPT ![u] = at'[u]] /\ rri' = [rri EXCEPT ![u] = rri'[u]]
      BY <1>2 DEF TakeNumber, ringVars, doneVars, SendInv, HandInv, Threads
    <2>. QED
      BY <2>1, ThreadsAssumption DEF CallIdle, SendInv, HandInv, Threads
  <1>3. ASSUME NEW u \in Users, Push(u) \/ PushFull(u)
        PROVE  CallIdle
    <2>1. /\ UNCHANGED <<mode, submitted, completed, called, complete, finished, rri, curOffset>>
          /\ accepted' \in {accepted, accepted \cup {ev[u]}} /\ at[u] = "push"
          /\ at' = [at EXCEPT ![u] = "out"] /\ ev' = [ev EXCEPT ![u] = NoEvent]
      BY <1>3 DEF Push, PushFull, queueVars, ringVars, doneVars
    <2>2. ev[u] \notin complete
      BY <2>1 DEF SendInv, DoneInv, Done, Threads
    <2>. QED
      BY <2>1, <2>2, ThreadsAssumption DEF CallIdle, SendInv, HandInv, Threads
  <1>4. Pop \/ Post => CallIdle
    BY DEF Pop, Post, SendStep, userVars, threadVars, queueVars, ringVars, doneVars, CallIdle
  <1>5. ASSUME NEW w \in Workers, Take(w)
        PROVE  CallIdle
    <2>1. /\ UNCHANGED <<mode, submitted, completed, called, complete, accepted, finished, curOffset>>
          /\ at[w] = "idle" /\ at' = [at EXCEPT ![w] = IF Rings THEN "lock" ELSE "send"]
          /\ rri' = [rri EXCEPT ![w] = Head(pool).rri] /\ ev' = [ev EXCEPT ![w] = Head(pool).ev]
      BY <1>5 DEF Take, userVars, ringVars, doneVars, Rings
    <2>. QED
      BY <2>1 DEF CallIdle, SendInv, HandInv, Threads
  <1>6. ASSUME NEW w \in Workers, Unlock(w)
        PROVE  CallIdle
    <2>1. /\ UNCHANGED <<mode, submitted, completed, called, complete, accepted, rri, curOffset>>
          /\ at[w] = "reap" /\ at' = [at EXCEPT ![w] = "idle"] /\ ev' = [ev EXCEPT ![w] = NoEvent]
      BY <1>6 DEF Unlock, Finish, userVars, queueVars, ringVars
    <2>2. Rings
      BY <2>1 DEF SendInv, HandInv
    <2>. QED
      BY <2>1, <2>2 DEF CallIdle, SendInv, HandInv, Threads
  <1>7. Aside => CallIdle
    BY AsideEffect DEF userVars, threadVars, ringVars, doneVars, CallIdle
  <1>. QED
    BY <1>1, <1>2, <1>3, <1>4, <1>5, <1>6, <1>7, CallFrame, CallSends, CallReaps, CallComplete, CallLock,
       CallCallback, StepCases DEF SendInv

LEMMA CallInit == Init => CallInv
  <1>. SUFFICES ASSUME Init PROVE CallInv
    OBVIOUS
  <1>1. /\ submitted = {} /\ completed = {} /\ complete = {} /\ finished = {}
        /\ called = [e \in Events |-> 0] /\ \A w \in Workers : at[w] \notin {"send", "reap"}
    BY ThreadsAssumption DEF Init, Threads
  <1>2. \A e : Last(e) = {}
    BY <1>1 DEF Last
  <1>. QED
    BY <1>1, <1>2 DEF CallInv

LEMMA CallCorrect == SafeSpec => [](SendInv /\ RingInv /\ CountInv /\ CallInv)
  <1>1. SendInv /\ RingInv /\ CallInv /\ [Next]_vars => CallInv'
    BY CallNext
  <1>. QED
    BY <1>1, CallInit, CountCorrect, PTL DEF SafeSpec

(* An event's callback is called at most once, for a queued event only, and
   only after its _send() has returned, whatever other workers reap. *)
THEOREM CallbackOnceCorrect == SafeSpec => []CallbackOnce
  <1>1. ASSUME SendInv, CallInv, NEW e \in Events
        PROVE  called[e] = 0 \/ (called[e] = 1 /\ e \in accepted \cap (complete \cup failed))
    <2>1. called[e] \in {0, 1}
      BY <1>1 DEF CallInv
    <2>2. CASE Rings
      BY <1>1, <2>1, <2>2 DEF CallInv
    <2>3. CASE ~Rings
      BY <1>1, <2>1, <2>3 DEF CallInv, SendInv, OwnInv, DoneInv, Done
    <2>. QED
      BY <2>2, <2>3
  <1>2. SendInv /\ CallInv => CallbackOnce
    BY <1>1 DEF CallbackOnce
  <1>. QED
    BY <1>2, CallCorrect, PTL

-----------------------------------------------------------------------------
(* Stopping *)

(* Nothing leaves the accepted events, and what comes into the queue was not
   among them. *)
LEMMA QueueGains ==
  ASSUME SendInv, [Next]_vars
  PROVE  accepted \subseteq accepted' /\ (Queued' \ Queued) \cap accepted = {}
  <1>1. (UNCHANGED <<accepted, eventQueue>>) => accepted \subseteq accepted' /\ Queued' = Queued
    BY DEF Queued
  <1>2. ASSUME NEW u \in Users, NEW e \in Events, NEW n \in Requests, NEW p \in Calls, Call(u, e, n, p)
        PROVE  UNCHANGED <<accepted, eventQueue>>
    BY <1>2 DEF Call, queueVars
  <1>3. ASSUME NEW u \in Users, PushFull(u)
        PROVE  UNCHANGED <<accepted, eventQueue>>
    BY <1>3 DEF PushFull, queueVars
  <1>4. ASSUME NEW u \in Users, Push(u)
        PROVE  accepted \subseteq accepted' /\ (Queued' \ Queued) \cap accepted = {}
    <2>1. /\ eventQueue' = Append(eventQueue, ev[u]) /\ accepted \subseteq accepted'
          /\ ev[u] \in Events /\ ev[u] \notin accepted
      BY <1>4 DEF Push, SendInv, HandInv, OwnInv, Threads
    <2>2. ev[u] \notin Queued
      BY <2>1 DEF SendInv, OwnInv
    <2>3. Queued' = Queued \cup {ev[u]}
      BY <2>1, <2>2, QueuedAppend DEF SendInv, OwnInv
    <2>. QED
      BY <2>1, <2>3
  <1>5. Pop => accepted \subseteq accepted' /\ (Queued' \ Queued) \cap accepted = {}
    <2>1. Pop => UNCHANGED accepted
      BY DEF Pop, SendStep, userVars
    <2>2. Pop => UNCHANGED eventQueue \/ (eventQueue # <<>> /\ eventQueue' = Tail(eventQueue))
      BY DEF Pop
    <2>3. eventQueue # <<>> /\ eventQueue' = Tail(eventQueue) => Queued' \subseteq Queued
      BY QueuedTail DEF SendInv, OwnInv
    <2>. QED
      BY <1>1, <2>1, <2>2, <2>3
  <1>6. Post => UNCHANGED <<accepted, eventQueue>>
    BY DEF Post, SendStep, userVars
  <1>7. ASSUME NEW w \in Workers, Take(w) \/ Unlock(w) \/ Callback(w)
        PROVE  UNCHANGED <<accepted, eventQueue>>
    BY <1>7 DEF Take, Unlock, Callback, Finish, userVars, queueVars
  <1>8. OwnIdle => UNCHANGED <<accepted, eventQueue>>
    BY DEF OwnIdle
  <1>. QED
    BY <1>1, <1>2, <1>3, <1>4, <1>5, <1>6, <1>7, <1>8, StepCases, OwnIdles DEF SendInv

(* Once the send thread is done, no event comes to the pool. *)
LEMMA DoneIsIdle ==
  ASSUME SendInv, PoolIdle, sendAt = "done", [Next]_vars
  PROVE  sendAt' = "done" /\ PoolIdle'
  <1>1. ASSUME NEW u \in Users, NEW e \in Events, NEW n \in Requests, NEW p \in Calls, Call(u, e, n, p)
        PROVE  UNCHANGED <<sendAt, pool>> /\ \A w \in Workers : at'[w] = at[w]
    BY <1>1, ThreadsAssumption DEF Call, queueVars, SendInv, HandInv, Threads
  <1>2. ASSUME NEW u \in Users, TakeNumber(u) \/ Push(u) \/ PushFull(u)
        PROVE  UNCHANGED <<sendAt, pool>> /\ \A w \in Workers : at'[w] = at[w]
    BY <1>2, ThreadsAssumption DEF TakeNumber, Push, PushFull, queueVars, SendInv, HandInv, Threads
  <1>3. ASSUME NEW t \in Threads, Sends(t)
        PROVE  UNCHANGED <<sendAt, pool>> /\ \A w \in Workers : at'[w] = at[w]
    <2>1. at[t] = "send" /\ UNCHANGED <<mode, sendAt, pool>> /\ (Leave(t, ev[t]) \/ UNCHANGED at)
      BY <1>3, SendsEffect DEF SendInv, InSend, queueVars
    <2>2. t \in Users
      BY <2>1 DEF PoolIdle, Threads
    <2>3. Leave(t, ev[t]) => at' = [at EXCEPT ![t] = "out"]
      BY <2>1, <2>2, LeaveEffect DEF SendInv
    <2>. QED
      BY <2>1, <2>2, <2>3, ThreadsAssumption DEF SendInv, HandInv, Threads
  <1>4. ~(Pop \/ Post)
    BY DEF Pop, Post
  <1>5. \A w \in Workers : ~(Take(w) \/ Lock(w) \/ Unlock(w) \/ Callback(w))
    BY DEF PoolIdle, Take, Lock, Unlock, Callback
  <1>6. \A r \in Sockets : ~Reaps(r)
    BY DEF PoolIdle, Reaps, DrainRing, ReapRing
  <1>7. ASSUME NEW s \in submitted, NEW ok \in BOOLEAN, Complete(s, ok)
        PROVE  UNCHANGED <<sendAt, pool, at>>
    BY <1>7 DEF Complete, threadVars, queueVars
  <1>8. Aside => UNCHANGED <<sendAt, pool, at>>
    BY AsideEffect DEF threadVars
  <1>9. (UNCHANGED <<sendAt, pool>> /\ \A w \in Workers : at'[w] = at[w]) => sendAt' = "done" /\ PoolIdle'
    BY DEF PoolIdle
  <1>. QED
    BY <1>1, <1>2, <1>3, <1>4, <1>5, <1>6, <1>7, <1>8, <1>9, StepCases DEF SendInv

(* When the send thread is done, all that the rings hold is outstanding, and
   only fragments of sendEvent() are not counted. *)
LEMMA ExitDrained ==
  ASSUME SendInv, RingInv, CountInv, PoolIdle, outstandingSends = 0, Rings, Direct = {}
  PROVE  submitted = {} /\ completed = {}
  <1>1. ASSUME NEW f \in Uncounted
        PROVE  FALSE
    <2>1. f \in sent /\ f.ev \notin Done
      BY <1>1 DEF Uncounted, SendInv, DoneInv, Done
    <2>2. PICK t \in Threads : at[t] = "send" /\ ev[t] = f.ev
      BY <2>1 DEF SendInv, SentInv
    <2>3. t \in Users
      BY <2>2 DEF PoolIdle, Threads
    <2>4. ev[t] \notin accepted
      BY <2>2, <2>3 DEF SendInv, HandInv, OwnInv
    <2>. QED
      BY <2>1, <2>2, <2>4 DEF Direct
  <1>2. Cardinality(Uncounted) = 0
    BY <1>1, FS_EmptySet
  <1>3. Cardinality(submitted) \in Nat /\ Cardinality(completed) \in Nat
    BY FS_CardinalityType DEF RingInv
  <1>4. Cardinality(submitted) + Cardinality(completed) = 0
    BY <1>2 DEF CountInv
  <1>5. Cardinality(submitted) = 0 /\ Cardinality(completed) = 0
    BY <1>3, <1>4
  <1>. QED
    BY <1>5, FS_EmptySet DEF RingInv

(* Once the send thread is done and the rings are empty, only sendEvent() can
   put something there. *)
LEMMA DoneIsDrained ==
  ASSUME SendInv, PoolIdle, sendAt = "done", Rings /\ Direct = {} => submitted = {} /\ completed = {},
         [Next]_vars
  PROVE  Rings' /\ Direct' = {} => submitted' = {} /\ completed' = {}
  <1>. DEFINE Same == UNCHANGED <<mode, submitted, completed, sent, accepted>>
  <1>1. Same => (Rings' /\ Direct' = {} => submitted' = {} /\ completed' = {})
    BY DEF Rings, Direct
  <1>2. ASSUME NEW u \in Users, NEW e \in Events, NEW n \in Requests, NEW p \in Calls, Call(u, e, n, p)
        PROVE  Same
    BY <1>2 DEF Call, ringVars, doneVars
  <1>3. ASSUME NEW u \in Users, TakeNumber(u) \/ PushFull(u)
        PROVE  Same
    BY <1>3 DEF TakeNumber, PushFull, ringVars, doneVars
  <1>4. ASSUME NEW u \in Users, Push(u)
        PROVE  Rings' /\ Direct' = {} => submitted' = {} /\ completed' = {}
    <2>1. /\ UNCHANGED <<mode, submitted, completed, sent>> /\ accepted' = accepted \cup {ev[u]}
          /\ at[u] = "push" /\ ev[u] # NoEvent /\ u \in Threads
      BY <1>4 DEF Push, ringVars, doneVars, SendInv, HandInv, Threads
    <2>2. ASSUME NEW f \in sent, f.ev = ev[u]
          PROVE  FALSE
      <3>1. f.ev \notin Done
        BY <2>1, <2>2 DEF SendInv, DoneInv
      <3>2. PICK t \in Threads : at[t] = "send" /\ ev[t] = ev[u]
        BY <2>2, <3>1 DEF SendInv, SentInv
      <3>3. t = u
        BY <2>1, <3>2, SingleHolder DEF SendInv, Single
      <3>. QED
        BY <2>1, <3>2, <3>3
    <2>3. Direct' = Direct
      BY <2>1, <2>2 DEF Direct
    <2>. QED
      BY <2>1, <2>3 DEF Rings
  <1>5. ASSUME NEW t \in Threads, Sends(t), Rings', Direct' = {}
        PROVE  Same
    <2>1. at[t] = "send" /\ UNCHANGED <<mode, accepted>> /\ t \in Users
      BY <1>5, SendsEffect DEF SendInv, InSend, userVars, PoolIdle, Threads
    <2>2. CASE Submit(t)
      <3>1. Fragment(ev[t], curOffset[t]) \in sent'
        BY <2>2 DEF Submit
      <3>2. Fragment(ev[t], curOffset[t]).ev = ev[t] /\ ev[t] \notin accepted'
        BY <2>1 DEF Fragment, SendInv, HandInv, OwnInv
      <3>. QED
        BY <1>5, <3>1, <3>2 DEF Direct
    <2>3. CASE SendDone(t)
      BY <2>1, <2>3 DEF SendDone
    <2>. QED
      BY <1>5, <2>1, <2>2, <2>3 DEF Sends, SendMsg, SendMsgFails, SendMMsg, Rings
  <1>6. ~(Pop \/ Post)
    BY DEF Pop, Post
  <1>7. \A w \in Workers : ~(Take(w) \/ Lock(w) \/ Unlock(w) \/ Callback(w))
    BY DEF PoolIdle, Take, Lock, Unlock, Callback
  <1>8. \A r \in Sockets : ~Reaps(r)
    BY DEF PoolIdle, Reaps, DrainRing, ReapRing
  <1>9. ASSUME NEW s \in submitted, NEW ok \in BOOLEAN, Complete(s, ok)
        PROVE  Rings' /\ Direct' = {} => submitted' = {} /\ completed' = {}
    <2>1. UNCHANGED <<mode, sent, accepted>>
      BY <1>9 DEF Complete, userVars, doneVars
    <2>. QED
      BY <2>1 DEF Rings, Direct
  <1>10. Aside => Same
    BY AsideEffect DEF userVars, ringVars, doneVars
  <1>. HIDE DEF Same
  <1>. QED
    BY <1>1, <1>2, <1>3, <1>4, <1>5, <1>6, <1>7, <1>8, <1>9, <1>10, StepCases DEF SendInv

(* Who changes the state of stopThreads() and of the send thread's end. *)
LEMMA StopEffect ==
  ASSUME SendInv, [Next]_vars
  PROVE  /\ UNCHANGED <<stopAt, early>> \/ (UNCHANGED <<eventQueue, accepted, sendAt>> /\ (StopThreads \/ Stop))
         /\ sendAt' = "done" => sendAt = "done" \/ SendExit
  <1>1. ASSUME NEW u \in Users, NEW e \in Events, NEW n \in Requests, NEW p \in Calls, Call(u, e, n, p)
        PROVE  UNCHANGED <<stopAt, early, sendAt>>
    BY <1>1 DEF Call, queueVars, stopVars
  <1>2. ASSUME NEW u \in Users, TakeNumber(u) \/ Push(u) \/ PushFull(u)
        PROVE  UNCHANGED <<stopAt, early, sendAt>>
    BY <1>2 DEF TakeNumber, Push, PushFull, queueVars, stopVars
  <1>3. ASSUME NEW t \in Threads, Sends(t)
        PROVE  UNCHANGED <<stopAt, early, sendAt>>
    BY <1>3, SendsEffect DEF SendInv, InSend, queueVars, stopVars
  <1>4. Pop \/ Post => UNCHANGED <<stopAt, early>> /\ sendAt' # "done"
    BY DEF Pop, Post, SendStep, stopVars
  <1>5. ASSUME NEW w \in Workers, Take(w) \/ Lock(w) \/ Unlock(w) \/ Callback(w)
        PROVE  UNCHANGED <<stopAt, early, sendAt>>
    BY <1>5 DEF Take, Lock, Unlock, Callback, Finish, queueVars, stopVars
  <1>6. ASSUME NEW r \in Sockets, Reaps(r)
        PROVE  UNCHANGED <<stopAt, early, sendAt>>
    BY <1>6, ReapsEffect DEF queueVars, stopVars
  <1>7. ASSUME NEW s \in submitted, NEW ok \in BOOLEAN, Complete(s, ok)
        PROVE  UNCHANGED <<stopAt, early, sendAt>>
    BY <1>7 DEF Complete, queueVars, stopVars
  <1>8. CheckStop \/ SendExit \/ Sync \/ SyncExit \/ UNCHANGED vars => UNCHANGED <<stopAt, early>>
    BY DEF CheckStop, SendExit, SendStep, Sync, SyncExit, vars, stopVars
  <1>9. StopThreads \/ Stop => UNCHANGED <<eventQueue, accepted, sendAt>>
    BY DEF StopThreads, Stop, StopSend, StopFlag, StopSync, StopReturn, StopStep, userVars, queueVars
  <1>10. Aside => /\ UNCHANGED <<stopAt, early>> \/ (UNCHANGED <<eventQueue, accepted, sendAt>> /\ (StopThreads \/ Stop))
                  /\ sendAt' = "done" => sendAt = "done" \/ SendExit
    BY <1>8, <1>9, AsideEffect DEF Aside
  <1>. QED
    BY <1>1, <1>2, <1>3, <1>4, <1>5, <1>6, <1>7, <1>10, StepCases DEF SendInv

LEMMA FlushNext ==
  ASSUME SendInv, RingInv, CountInv, FlushInv, [Next]_vars
  PROVE  FlushInv'
  <1>1. early' \subseteq accepted' /\ (stopAt' \notin {"run", "waiting"} => early' \cap Queued' = {})
    <2>1. CASE UNCHANGED <<stopAt, early>>
      BY <2>1, QueueGains DEF FlushInv
    <2>2. CASE UNCHANGED <<eventQueue, accepted, sendAt>> /\ (StopThreads \/ Stop)
      <3>1. Queued' = Queued
        BY <2>2 DEF Queued
      <3>2. eventQueue = <<>> => Queued = {}
        BY DEF Queued
      <3>. QED
        BY <2>2, <3>1, <3>2
        DEF FlushInv, StopThreads, Stop, StopSend, StopFlag, StopSync, StopReturn
    <2>. QED
      BY <2>1, <2>2, StopEffect
  <1>2. sendAt' = "done" =>
          PoolIdle' /\ (Rings' /\ Direct' = {} => submitted' = {} /\ completed' = {})
    <2>1. CASE sendAt = "done"
      BY <2>1, DoneIsIdle, DoneIsDrained DEF FlushInv
    <2>2. CASE SendExit
      <3>1. UNCHANGED <<mode, submitted, completed, sent, accepted, pool, at>>
        BY <2>2 DEF SendExit, SendStep, userVars, threadVars, ringVars, doneVars
      <3>2. PoolIdle /\ (Rings /\ Direct = {} => submitted = {} /\ completed = {})
        BY <2>2, ExitDrained DEF SendExit
      <3>. QED
        BY <3>1, <3>2 DEF PoolIdle, Rings, Direct
    <2>. QED
      BY <2>1, <2>2, StopEffect
  <1>3. stopAt' \in {"joinSync", "stopped"} => sendAt' = "done"
    <2>1. sendAt = "done" => sendAt' = "done"
      BY DoneIsIdle DEF FlushInv
    <2>2. stopAt' \in {"joinSync", "stopped"} => sendAt = "done"
      BY StopEffect DEF FlushInv, StopThreads, Stop, StopSend, StopFlag, StopSync, StopReturn
    <2>. QED
      BY <2>1, <2>2
  <1>. QED
    BY <1>1, <1>2, <1>3 DEF FlushInv

LEMMA FlushInit == Init => FlushInv
  BY DEF Init, FlushInv

LEMMA FlushCorrect == SafeSpec => [](SendInv /\ RingInv /\ CountInv /\ CallInv /\ FlushInv)
  <1>1. SendInv /\ RingInv /\ CountInv /\ FlushInv /\ [Next]_vars => FlushInv'
    BY FlushNext
  <1>. QED
    BY <1>1, FlushInit, CallCorrect, PTL DEF SafeSpec

(* When stopThreads() has returned, every event that was accepted before it was
   called is finished and has had its callback, as far as the code makes one. *)
THEOREM StopFlushesCorrect == SafeSpec => []StopFlushes
  <1>1. ASSUME SendInv, CallInv, FlushInv, stopAt = "stopped", NEW e \in early
        PROVE  e \in finished /\ (called[e] = 1 \/ (Rings /\ (Bytes[e] = 0 \/ Direct # {})))
    <2>1. PoolIdle /\ sendAt = "done" /\ e \in accepted /\ e \notin Queued
      BY <1>1 DEF FlushInv
    <2>2. sendItem = NoEvent /\ pool = <<>> /\ \A w \in Workers : ev[w] = NoEvent
      BY <1>1, <2>1 DEF PoolIdle, SendInv, HandInv
    <2>3. Posting = {} /\ Posted = {} /\ Working = {}
      BY <2>2 DEF Posting, Posted, Working
    <2>4. e \in finished /\ e \in Events
      BY <1>1, <2>1, <2>3 DEF SendInv, OwnInv
    <2>5. CASE ~Rings
      BY <1>1, <2>4, <2>5 DEF CallInv
    <2>6. CASE Rings /\ Bytes[e] # 0 /\ Direct = {}
      <3>1. e \in complete
        BY <1>1, <2>4, <2>6 DEF SendInv, DoneInv, Done
      <3>2. Last(e) = {}
        BY <1>1, <2>1, <2>6 DEF FlushInv, Last
      <3>. QED
        BY <1>1, <2>1, <2>4, <2>6, <3>1, <3>2 DEF CallInv
    <2>. QED
      BY <2>4, <2>5, <2>6
  <1>2. SendInv /\ CallInv /\ FlushInv => StopFlushes
    BY <1>1 DEF StopFlushes, Rings
  <1>. QED
    BY <1>2, FlushCorrect, PTL

-----------------------------------------------------------------------------
(* Types *)

(* What no other invariant says of the values. *)
ValueInv ==
  /\ userEventNum \in Nat
  /\ asked \in [Events -> Nat] /\ eventNum \in [Events -> Nat \cup {NoNumber}]
  /\ syncAt \in {"first", "loop", "exited"}
  /\ stopAt \in {"run", "waiting", "empty", "join", "joinSync", "stopped"}
  /\ threadsStop \in BOOLEAN /\ syncThreadStop \in BOOLEAN

LEMMA ValueNext ==
  ASSUME SendInv, ValueInv, [Next]_vars
  PROVE  ValueInv'
  <1>. DEFINE Numbers == UNCHANGED <<userEventNum, asked, eventNum>>
              Stops   == UNCHANGED <<syncAt, stopAt, threadsStop, syncThreadStop>>
  <1>1. ASSUME NEW u \in Users, NEW e \in Events, NEW n \in Requests, NEW p \in Calls, Call(u, e, n, p)
        PROVE  ValueInv'
    <2>1. Stops
      BY <1>1 DEF Call, syncVars, stopVars
    <2>2. /\ asked' = [asked EXCEPT ![e] = n] /\ UNCHANGED eventNum
          /\ userEventNum' \in {userEventNum, n} /\ n \in Nat
      BY <1>1, ModesAssumption DEF Call
    <2>. QED
      BY <2>1, <2>2 DEF ValueInv
  <1>2. ASSUME NEW u \in Users, TakeNumber(u)
        PROVE  ValueInv'
    <2>1. Stops
      BY <1>2 DEF TakeNumber, syncVars, stopVars
    <2>2. /\ eventNum' = [eventNum EXCEPT ![ev[u]] = userEventNum] /\ UNCHANGED asked
          /\ userEventNum' = userEventNum + 1
      BY <1>2 DEF TakeNumber
    <2>3. userEventNum \in Nat /\ eventNum \in [Events -> Nat \cup {NoNumber}]
      BY DEF ValueInv
    <2>4. eventNum' \in [Events -> Nat \cup {NoNumber}] /\ userEventNum' \in Nat
      <3>1. \A N : userEventNum \in N /\ eventNum \in [Events -> N] => eventNum' \in [Events -> N]
        BY <2>2
      <3>2. userEventNum \in Nat \cup {NoNumber}
        BY <2>3
      <3>3. eventNum' \in [Events -> Nat \cup {NoNumber}]
        BY <2>3, <3>1, <3>2, Zenon
      <3>4. userEventNum' \in Nat
        BY <2>2, <2>3
      <3>. QED
        BY <3>3, <3>4
    <2>5. asked' \in [Events -> Nat]
      BY <2>2 DEF ValueInv
    <2>. QED
      BY <2>1, <2>4, <2>5, Zenon DEF ValueInv
  <1>3. ASSUME NEW u \in Users, Push(u) \/ PushFull(u)
        PROVE  ValueInv'
    <2>1. Stops
      BY <1>3 DEF Push, PushFull, syncVars, stopVars
    <2>2. /\ eventNum' = eventNum \/ eventNum' = [eventNum EXCEPT ![ev[u]] = NoNumber]
          /\ UNCHANGED <<asked, userEventNum>>
      BY <1>3 DEF Push, PushFull
    <2>. QED
      BY <2>1, <2>2 DEF ValueInv
  <1>4. ASSUME NEW t \in Threads, Sends(t)
        PROVE  Numbers /\ Stops
    BY <1>4, SendsEffect DEF SendInv, InSend, userVars, syncVars, stopVars
  <1>5. Pop \/ Post => Numbers /\ Stops
    BY DEF Pop, Post, SendStep, userVars, syncVars, stopVars
  <1>6. ASSUME NEW w \in Workers, Take(w) \/ Lock(w) \/ Unlock(w) \/ Callback(w)
        PROVE  Numbers /\ Stops
    BY <1>6 DEF Take, Lock, Unlock, Callback, Finish, userVars, syncVars, stopVars
  <1>7. ASSUME NEW r \in Sockets, Reaps(r)
        PROVE  Numbers /\ Stops
    BY <1>7, ReapsEffect DEF userVars, syncVars, stopVars
  <1>8. ASSUME NEW s \in submitted, NEW ok \in BOOLEAN, Complete(s, ok)
        PROVE  Numbers /\ Stops
    BY <1>8 DEF Complete, userVars, syncVars, stopVars
  <1>9. Aside => ValueInv'
    <2>1. Aside => Numbers
      BY AsideEffect DEF userVars
    <2>2. CheckStop \/ SendExit \/ UNCHANGED vars => Stops
      BY DEF CheckStop, SendExit, SendStep, vars, syncVars, stopVars
    <2>3. Sync \/ SyncExit => /\ syncAt' \in {"loop", "exited"}
                              /\ UNCHANGED <<stopAt, threadsStop, syncThreadStop>>
      BY DEF Sync, SyncExit, stopVars
    <2>4. StopThreads \/ Stop =>
            /\ UNCHANGED syncAt
            /\ stopAt' \in {"waiting", "empty", "join", "joinSync", "stopped"}
            /\ threadsStop' \in {threadsStop, TRUE} /\ syncThreadStop' \in {syncThreadStop, TRUE}
      BY DEF StopThreads, Stop, StopSend, StopFlag, StopSync, StopReturn, StopStep, syncVars
    <2>5. Stops \/ (/\ syncAt' \in {"loop", "exited", syncAt}
                    /\ stopAt' \in {stopAt, "waiting", "empty", "join", "joinSync", "stopped"}
                    /\ threadsStop' \in {threadsStop, TRUE} /\ syncThreadStop' \in {syncThreadStop, TRUE})
          => /\ syncAt' \in {"first", "loop", "exited"}
             /\ stopAt' \in {"run", "waiting", "empty", "join", "joinSync", "stopped"}
             /\ threadsStop' \in BOOLEAN /\ syncThreadStop' \in BOOLEAN
      BY Zenon DEF ValueInv
    <2>6. Numbers => /\ userEventNum' \in Nat /\ asked' \in [Events -> Nat]
                     /\ eventNum' \in [Events -> Nat \cup {NoNumber}]
      BY DEF ValueInv
    <2>. HIDE DEF Numbers, Stops
    <2>. QED
      BY <2>1, <2>2, <2>3, <2>4, <2>5, <2>6 DEF Aside, ValueInv
  <1>10. Numbers /\ Stops => ValueInv'
    BY Zenon DEF ValueInv
  <1>. HIDE DEF Numbers, Stops
  <1>. QED
    BY <1>1, <1>2, <1>3, <1>4, <1>5, <1>6, <1>7, <1>8, <1>9, <1>10, StepCases DEF SendInv

LEMMA ValueInit == Init => ValueInv
  <1>1. Init => threadsStop \in BOOLEAN /\ syncThreadStop \in BOOLEAN
    BY Zenon DEF Init
  <1>. QED
    BY <1>1 DEF Init, ValueInv

(* Every variable keeps to its type, no offset passes the end of its event, and
   the send queue holds no more than its capacity. *)
THEOREM TypeCorrect == SafeSpec => []TypeOK
  <1>1. SendInv /\ ValueInv /\ [Next]_vars => ValueInv'
    BY ValueNext
  <1>2. ASSUME SendInv, NEW t \in Threads
        PROVE  curOffset[t] \in (IF ev[t] = NoEvent THEN {0} ELSE 0 .. Bytes[ev[t]])
    <2>1. CASE at[t] = "send"
      <3>1. ev[t] \in Events /\ ev[t] # NoEvent
        BY <1>2, <2>1 DEF SendInv, HandInv, Threads
      <3>2. PICK k \in 0 .. numBuffers(ev[t]) : curOffset[t] = Reached(ev[t], k)
        BY <1>2, <2>1, <3>1 DEF SendInv, SentInv
      <3>3. curOffset[t] \in 0 .. Bytes[ev[t]]
        BY <3>1, <3>2, ReachedBounds
      <3>. QED
        BY <3>1, <3>3
    <2>2. CASE at[t] # "send"
      <3>1. curOffset[t] = 0 /\ ev[t] \in Events \cup {NoEvent}
        BY <1>2, <2>2 DEF SendInv, HandInv
      <3>2. ev[t] # NoEvent => Bytes[ev[t]] \in Nat
        BY <3>1, EventsAssumption
      <3>. QED
        BY <3>1, <3>2
    <2>. QED
      BY <2>1, <2>2
  <1>3. ASSUME SendInv, RingInv, NEW s \in submitted \cup completed
        PROVE  s.frag.ev \in Events /\ s.ring \in Sockets
    <2>1. s.frag \in sent /\ s.ring \in Sockets
      BY <1>3 DEF RingInv
    <2>2. ASSUME s.frag.ev \notin Done
          PROVE  s.frag.ev \in Events
      <3>1. PICK t \in Threads : at[t] = "send" /\ ev[t] = s.frag.ev
        BY <1>3, <2>1, <2>2 DEF SendInv, SentInv
      <3>. QED
        BY <1>3, <3>1 DEF SendInv, HandInv, Threads
    <2>3. Done \subseteq Events
      BY <1>3 DEF SendInv, OwnInv, DoneInv
    <2>. QED
      BY <2>1, <2>2, <2>3
  <1>4. ASSUME SendInv, CallInv, FlushInv
        PROVE  /\ early \cup used \cup complete \cup failed \cup finished \subseteq Events
               /\ called \in [Events -> Nat]
    <2>1. early \subseteq Events /\ used \subseteq Events /\ Done \subseteq Events /\ finished \subseteq Events
      BY <1>4 DEF SendInv, OwnInv, DoneInv, FlushInv
    <2>2. called \in [Events -> Nat]
      BY <1>4 DEF CallInv
    <2>. QED
      BY <2>1, <2>2 DEF Done
  <1>5. ASSUME SendInv, CountInv, ValueInv
        PROVE  /\ mode \in Modes /\ userEventNum \in Nat
               /\ eventQueue \in Seq(Events) /\ Len(eventQueue) <= QSIZE
               /\ at \in [Threads -> UserPlaces \cup WorkerPlaces]
               /\ ev \in [Threads -> Events \cup {NoEvent}]
               /\ sendAt \in {"check", "pop", "post", "join", "done"}
               /\ sendItem \in Events \cup {NoEvent}
               /\ pool \in Seq([ev : Events, rri : Sockets])
               /\ roundRobinIndex \in Sockets /\ rri \in [Threads -> Sockets]
               /\ outstandingSends \in Int
               /\ msgCnt \in Nat /\ errCnt \in Nat /\ eventsInCurrentSync \in Nat /\ reported \in Nat
    BY <1>5 DEF SendInv, HandInv, CountInv, ValueInv
  <1>6. UserPlaces \cup WorkerPlaces
          = {"out", "enqueue", "direct", "push", "send", "idle", "lock", "reap", "callback"}
    BY DEF UserPlaces, WorkerPlaces
  <1>7. ASSUME ValueInv
        PROVE  /\ syncAt \in {"first", "loop", "exited"}
               /\ stopAt \in {"run", "waiting", "empty", "join", "joinSync", "stopped"}
               /\ {threadsStop, syncThreadStop} \subseteq BOOLEAN
               /\ asked \in [Events -> Nat] /\ eventNum \in [Events -> Nat \cup {NoNumber}]
    BY <1>7, Zenon DEF ValueInv
  <1>8. SendInv /\ RingInv /\ CountInv /\ CallInv /\ FlushInv /\ ValueInv => TypeOK
    BY <1>2, <1>3, <1>4, <1>5, <1>6, <1>7, Zenon DEF TypeOK
  <1>. QED
    BY <1>1, <1>8, ValueInit, FlushCorrect, PTL DEF SafeSpec
=============================================================================
