------------------------- MODULE ReassemblerProofs -------------------------
(***************************************************************************)
(* Proofs about Reassembler, for any receive threads, consumers, events    *)
(* and fragments and any capacity: what a receive thread has in hand is an *)
(* item of its own, the threads use the queue as EventQueue allows, and    *)
(* so what is proved of EventQueue holds here too.                         *)
(***************************************************************************)
EXTENDS Reassembler, FiniteSetTheorems, TLAPS

(* The theorems of EventQueue, about the queue of the Reassembler. *)
QP == INSTANCE EventQueueProofs WITH Items <- 1 .. MaxItems, Producers <- Threads

-----------------------------------------------------------------------------
(* What the receive threads have in hand *)

RecvPlaces == {"loop", "select", "copy", "erase", "enqueue", "inqueue", "success", "done"}
Busy       == {"copy", "erase", "enqueue"}
Record     == [ev : Events, curBytes : Nat, got : SUBSET Int]

RecvType ==
  /\ items \in Seq(Record) /\ Len(items) <= MaxItems
  /\ \A b \in Made : items[b].got \subseteq 0 .. (Bytes[items[b].ev] - 1)
  /\ rAt \in [Threads -> RecvPlaces]
  /\ rFrag \in [Threads -> Fragments \cup {NoFrag}]
  /\ rItem \in [Threads -> Made \cup {NoItem}]
  /\ eventsInProgress \in [Events -> Made \cup {NoItem}]
  /\ old \subseteq InProgress
  /\ offered \subseteq Made
  /\ pAt \in [Threads -> {"out", "push", "count", "full", "exited"}]
  /\ pItem \in [Threads -> (1 .. MaxItems) \cup {NoItem}]

(* A receive thread at work has an item of an event that is its own. *)
Hand(t) ==
  /\ rAt[t] \in {"copy", "erase", "enqueue", "inqueue", "success"}
       => rItem[t] \in Made /\ Route[items[rItem[t]].ev] = t
  /\ rAt[t] \in {"loop", "select", "done"} => rItem[t] = NoItem
  /\ rAt[t] = "copy" => rFrag[t] \in Fragments /\ items[rItem[t]].ev = rFrag[t].ev

(* The place of a receive thread in enqueue() is that of a producer. *)
AsProducer(t) ==
  /\ pAt[t] \in {"push", "count", "full"} <=> rAt[t] = "inqueue"
  /\ pAt[t] = "exited" <=> rAt[t] = "done"
  /\ pAt[t] \in {"push", "full"} => pItem[t] = rItem[t]

(* The map has each item under its own event, and none but the thread of an
   event puts another item in the place of one it works on. *)
MapOwned ==
  /\ \A e \in Events : eventsInProgress[e] \in Made => items[eventsInProgress[e]].ev = e
  /\ \A t \in Threads : rAt[t] \in {"copy", "erase"} =>
       eventsInProgress[items[rItem[t]].ev] \in {rItem[t], NoItem}
  /\ \A t \in Threads : rAt[t] = "enqueue" =>
       eventsInProgress[items[rItem[t]].ev] # rItem[t]

(* Neither an item in the map nor one a thread still works on was enqueued. *)
NotYetOffered ==
  /\ \A e \in Events : eventsInProgress[e] \notin offered
  /\ \A t \in Threads : rAt[t] \in Busy => rItem[t] \notin offered

RecvInv ==
  /\ RecvType
  /\ \A t \in Threads : Hand(t) /\ AsProducer(t)
  /\ MapOwned
  /\ NotYetOffered

(* What the queue looks at in a receive thread. *)
recvState == <<items, rAt, rFrag, rItem, eventsInProgress, old, offered, pAt, pItem>>

(* RecvInv is about these variables only. *)
LEMMA RecvFrame ==
  ASSUME RecvInv, UNCHANGED recvState
  PROVE  RecvInv'
  BY DEF RecvInv, recvState, RecvType, Hand, AsProducer, MapOwned, NotYetOffered, Made, InProgress

(* The items are records, numbered from 1, and NoItem is none of them. *)
LEMMA MadeType ==
  ASSUME RecvInv
  PROVE  /\ NoItem \notin Made /\ Made \subseteq 1 .. MaxItems /\ Made = 1 .. Len(items)
         /\ \A b \in Made : /\ items[b] \in Record /\ items[b].ev \in Events
                            /\ items[b].curBytes \in Nat
  <1>1. items \in Seq(Record) /\ Len(items) <= MaxItems /\ Len(items) \in Nat
    BY DEF RecvInv, RecvType
  <1>2. NoItem \notin Made /\ Made \subseteq 1 .. MaxItems /\ Made = 1 .. Len(items)
    BY <1>1, SizesAssumption DEF Made
  <1>3. \A b \in Made : items[b] \in Record
    BY <1>1, <1>2
  <1>. QED
    BY <1>2, <1>3 DEF Record

(* No step of a consumer, of the SendState thread or of stopThreads() changes a
   producer's place or item, or what was offered. *)
LEMMA QueueSideSteps ==
  ASSUME (\E c \in Consumers : Consume(c)) \/ SendState \/ StopThreads \/ StopDrain
  PROVE  UNCHANGED <<recvState, dropped>> /\ UNCHANGED NotQueue
  <1>. USE DEF NotQueue, recvState, recvVars, mapVars, netVars, gcVars, lostVars
  <1>1. ASSUME NEW c \in Consumers, Consume(c)
        PROVE  UNCHANGED <<recvState, dropped>> /\ UNCHANGED NotQueue
    BY <1>1 DEF Consume, Q!Call, Q!Dequeue, Q!Pop, Q!PopEmpty, Q!Return, Q!Wait, Q!WaitTimeout,
                Q!GiveUp, Q!producerVars
  <1>2. CASE SendState
    BY <1>2 DEF SendState, Q!Sample, Q!Report, Q!SendStateExit, Q!producerVars
  <1>3. CASE StopThreads
    BY <1>3 DEF StopThreads, Q!StopThreads, Q!producerVars
  <1>4. CASE StopDrain
    BY <1>4 DEF StopDrain, Q!Drain, Q!JoinThreads, Q!DrainPop, Q!DrainEnd, Q!producerVars
  <1>. QED
    BY <1>1, <1>2, <1>3, <1>4

(* An item is made behind the others, empty, for the fragment's event. *)
LEMMA StartItemEffect ==
  ASSUME RecvInv, NEW t \in Threads, NEW f \in Fragments, StartItem(t, f)
  PROVE  LET n == Len(items) + 1
         IN  /\ items' \in Seq(Record) /\ Len(items') = n /\ n \in 1 .. MaxItems /\ n \notin Made
             /\ Made' = Made \cup {n}
             /\ \A b \in Made : items'[b] = items[b]
             /\ items'[n] = [ev |-> f.ev, curBytes |-> 0, got |-> {}]
  <1>. DEFINE r == [ev |-> f.ev, curBytes |-> 0, got |-> {}]
  <1>1. r \in Record
    BY FragmentsAssumption DEF Record
  <1>2. items \in Seq(Record) /\ items' = Append(items, r) /\ Len(items) < MaxItems
    BY DEF RecvInv, RecvType, StartItem
  <1>. HIDE DEF r
  <1>3. Len(items) \in Nat /\ Made = 1 .. Len(items)
    BY <1>2 DEF Made
  <1>4. items' \in Seq(Record) /\ Len(items') = Len(items) + 1
    BY <1>1, <1>2
  <1>5. Made' = 1 .. (Len(items) + 1)
    BY <1>4 DEF Made
  <1>6. \A b \in 1 .. Len(items) : items'[b] = items[b]
    BY <1>1, <1>2
  <1>7. items'[Len(items) + 1] = r
    BY <1>1, <1>2
  <1>. QED
    BY <1>2, <1>3, <1>4, <1>5, <1>6, <1>7, SizesAssumption DEF r

(* A copy changes the bytes of the one item and no item's event. *)
LEMMA CopyEffect ==
  ASSUME RecvInv, NEW t \in Threads, Copy(t)
  PROVE  LET b == rItem[t]
             f == rFrag[t]
         IN  /\ b \in Made /\ f \in Fragments /\ items[b].ev = f.ev
             /\ items' \in Seq(Record) /\ Len(items') = Len(items) /\ Made' = Made
             /\ \A c \in Made : c # b => items'[c] = items[c]
             /\ \A c \in Made : items'[c].ev = items[c].ev
             /\ items'[b].curBytes = items[b].curBytes + f.len
             /\ items'[b].got = items[b].got \cup Span(f)
  <1>. DEFINE b == rItem[t]
              f == rFrag[t]
              r == Filled(items[b], f)
  <1>1. b \in Made /\ f \in Fragments /\ items[b].ev = f.ev /\ items \in Seq(Record)
    BY DEF RecvInv, RecvType, Hand, Copy
  <1>2. items' = [items EXCEPT ![b] = Filled(@, f)]
    BY DEF Copy
  <1>3. items[b] \in Record /\ b \in 1 .. Len(items) /\ DOMAIN items = 1 .. Len(items) /\ Len(items) \in Nat
    BY <1>1 DEF Made
  <1>4. f.len \in Nat /\ Span(f) \subseteq Int
    BY <1>1, FragmentsAssumption DEF Span
  <1>. HIDE DEF b, f
  <1>5. /\ items' = [items EXCEPT ![b] = r]
    BY <1>2, <1>3
  <1>6. r \in Record /\ r.ev = items[b].ev /\ r.curBytes = items[b].curBytes + f.len
        /\ r.got = items[b].got \cup Span(f)
    BY <1>3, <1>4 DEF Record, Filled
  <1>. HIDE DEF r
  <1>7. items' \in Seq(Record) /\ Len(items') = Len(items)
    BY <1>1, <1>3, <1>5, <1>6
  <1>8. \A c \in 1 .. Len(items) : items'[c] = IF c = b THEN r ELSE items[c]
    BY <1>3, <1>5
  <1>9. Made' = Made
    BY <1>7 DEF Made
  <1>. QED
    BY <1>1, <1>3, <1>6, <1>7, <1>8, <1>9 DEF b, f, Made

LEMMA RecvStartItem ==
  ASSUME RecvInv, NEW t \in Threads, NEW f \in Fragments, StartItem(t, f)
  PROVE  RecvInv'
  <1>. DEFINE n == Len(items) + 1
  <1>1. /\ items' \in Seq(Record) /\ Len(items') = n /\ n \in 1 .. MaxItems /\ n \notin Made
        /\ Made' = Made \cup {n}
        /\ \A b \in Made : items'[b] = items[b]
        /\ items'[n] = [ev |-> f.ev, curBytes |-> 0, got |-> {}]
    BY StartItemEffect
  <1>. HIDE DEF n
  <1>2. /\ eventsInProgress' = [eventsInProgress EXCEPT ![f.ev] = n]
        /\ rItem' = [rItem EXCEPT ![t] = n]
        /\ rAt[t] = "select" /\ rAt' = [rAt EXCEPT ![t] = "copy"]
        /\ rFrag' = [rFrag EXCEPT ![t] = f]
        /\ old' = old \ {eventsInProgress[f.ev]}
        /\ Route[f.ev] = t /\ f.ev \in Events
        /\ UNCHANGED <<offered, pAt, pItem>>
    BY FragmentsAssumption DEF StartItem, Arrives, queueVars, n
  <1>. USE DEF RecvInv
  <1>3. RecvType'
    <2>. USE DEF RecvType
    <2>1. \A b \in Made' : items'[b].got \subseteq 0 .. (Bytes[items'[b].ev] - 1)
      BY <1>1
    <2>2. old' \subseteq InProgress'
      BY <1>1, <1>2, SizesAssumption DEF InProgress
    <2>3. /\ rAt' \in [Threads -> RecvPlaces]
          /\ rFrag' \in [Threads -> Fragments \cup {NoFrag}]
          /\ rItem' \in [Threads -> Made' \cup {NoItem}]
          /\ eventsInProgress' \in [Events -> Made' \cup {NoItem}]
      BY <1>1, <1>2 DEF RecvPlaces
    <2>. QED
      BY <1>1, <1>2, <2>1, <2>2, <2>3
  <1>4. \A u \in Threads : Hand(u)' /\ AsProducer(u)'
    BY <1>1, <1>2, SizesAssumption DEF Hand, AsProducer, RecvType
  <1>5. MapOwned'
    <2>1. ASSUME NEW e \in Events, eventsInProgress'[e] \in Made'
          PROVE  items'[eventsInProgress'[e]].ev = e
      <3>1. CASE e = f.ev
        BY <1>1, <1>2, <3>1 DEF RecvType
      <3>2. CASE e # f.ev
        <4>1. eventsInProgress'[e] = eventsInProgress[e] /\ eventsInProgress[e] \in Made
          BY <1>1, <1>2, <2>1, <3>2, SizesAssumption DEF RecvType
        <4>. QED
          BY <1>1, <4>1 DEF MapOwned
      <3>. QED
        BY <3>1, <3>2
    <2>2. ASSUME NEW u \in Threads, u # t, rAt[u] \in {"copy", "erase", "enqueue"}
          PROVE  /\ items'[rItem[u]].ev = items[rItem[u]].ev
                 /\ eventsInProgress'[items[rItem[u]].ev] = eventsInProgress[items[rItem[u]].ev]
      BY <1>1, <1>2, <2>2 DEF Hand, RecvType
    <2>. QED
      BY <1>1, <1>2, <2>1, <2>2 DEF MapOwned, RecvType
  <1>6. NotYetOffered'
    BY <1>1, <1>2 DEF NotYetOffered, RecvType, Busy
  <1>. QED
    BY <1>3, <1>4, <1>5, <1>6

LEMMA RecvJoinItem ==
  ASSUME RecvInv, NEW t \in Threads, NEW f \in Fragments, JoinItem(t, f)
  PROVE  RecvInv'
  <1>. DEFINE b == eventsInProgress[f.ev]
  <1>1. /\ rItem' = [rItem EXCEPT ![t] = b]
        /\ rAt[t] = "select" /\ rAt' = [rAt EXCEPT ![t] = "copy"]
        /\ rFrag' = [rFrag EXCEPT ![t] = f]
        /\ Route[f.ev] = t /\ f.ev \in Events
        /\ UNCHANGED <<offered, pAt, pItem, items, eventsInProgress, old>>
        /\ b # NoItem
    BY FragmentsAssumption DEF JoinItem, Arrives, queueVars, mapVars
  <1>. USE DEF RecvInv
  <1>2. b \in Made /\ b \notin offered /\ items[b].ev = f.ev /\ Made' = Made
    BY <1>1 DEF RecvType, MapOwned, NotYetOffered, Made
  <1>. HIDE DEF b
  <1>3. RecvType'
    BY <1>1, <1>2 DEF RecvType, InProgress, RecvPlaces
  <1>4. \A u \in Threads : Hand(u)' /\ AsProducer(u)'
    BY <1>1, <1>2, SizesAssumption DEF Hand, AsProducer, RecvType
  <1>5. MapOwned'
    BY <1>1, <1>2 DEF MapOwned, RecvType, b
  <1>6. NotYetOffered'
    BY <1>1, <1>2 DEF NotYetOffered, RecvType, Busy
  <1>. QED
    BY <1>3, <1>4, <1>5, <1>6

LEMMA RecvCopy ==
  ASSUME RecvInv, NEW t \in Threads, Copy(t)
  PROVE  RecvInv'
  <1>. DEFINE b == rItem[t]
              f == rFrag[t]
  <1>1. /\ b \in Made /\ f \in Fragments /\ items[b].ev = f.ev
        /\ items' \in Seq(Record) /\ Len(items') = Len(items) /\ Made' = Made
        /\ \A c \in Made : c # b => items'[c] = items[c]
        /\ \A c \in Made : items'[c].ev = items[c].ev
        /\ items'[b].got = items[b].got \cup Span(f)
    BY CopyEffect
  <1>2. /\ rAt[t] = "copy"
        /\ \/ /\ rAt' = [rAt EXCEPT ![t] = "erase"] /\ rItem' = [rItem EXCEPT ![t] = b]
           \/ /\ rAt' = [rAt EXCEPT ![t] = "select"] /\ rItem' = [rItem EXCEPT ![t] = NoItem]
        /\ rFrag' = [rFrag EXCEPT ![t] = NoFrag]
        /\ UNCHANGED <<offered, pAt, pItem, eventsInProgress, old>>
    BY DEF Copy, queueVars, mapVars
  <1>. HIDE DEF f
  <1>. USE DEF RecvInv
  <1>3. RecvType'
    <2>1. Span(f) \subseteq 0 .. (Bytes[f.ev] - 1)
      BY <1>1, FragmentsAssumption, BytesAssumption DEF Span
    <2>2. \A c \in Made' : items'[c].got \subseteq 0 .. (Bytes[items'[c].ev] - 1)
      BY <1>1, <2>1 DEF RecvType
    <2>. QED
      BY <1>1, <1>2, <2>2 DEF RecvType, InProgress, RecvPlaces
  <1>4. \A u \in Threads : Hand(u)' /\ AsProducer(u)'
    BY <1>1, <1>2, SizesAssumption DEF Hand, AsProducer, RecvType
  <1>5. MapOwned'
    <2>1. \A u \in Threads : rAt'[u] \in {"copy", "erase", "enqueue"} =>
            /\ rAt[u] = rAt'[u] \/ (u = t /\ rAt'[u] = "erase")
            /\ rItem'[u] = rItem[u] /\ items'[rItem[u]].ev = items[rItem[u]].ev
      BY <1>1, <1>2 DEF RecvType, Hand
    <2>2. \A e \in Events : eventsInProgress[e] \in Made =>
            items'[eventsInProgress[e]].ev = items[eventsInProgress[e]].ev
      BY <1>1
    <2>. QED
      BY <1>1, <1>2, <2>1, <2>2 DEF MapOwned
  <1>6. NotYetOffered'
    BY <1>1, <1>2 DEF NotYetOffered, RecvType, Busy
  <1>. QED
    BY <1>3, <1>4, <1>5, <1>6

LEMMA RecvErase ==
  ASSUME RecvInv, NEW t \in Threads, Erase(t)
  PROVE  RecvInv'
  <1>. DEFINE b == rItem[t]
              e == items[b].ev
  <1>1. /\ rAt[t] = "erase" /\ rAt' = [rAt EXCEPT ![t] = "enqueue"]
        /\ eventsInProgress' = [eventsInProgress EXCEPT ![e] = NoItem]
        /\ old' = old \ {b}
        /\ UNCHANGED <<offered, pAt, pItem, items, rFrag, rItem>>
    BY DEF Erase, queueVars
  <1>. USE DEF RecvInv
  <1>2. /\ b \in Made /\ e \in Events /\ Made' = Made /\ Route[e] = t
        /\ eventsInProgress[e] \in {b, NoItem} /\ b \notin offered
    <2>1. b \in Made
      BY <1>1 DEF Hand
    <2>. QED
      BY <1>1, <2>1, MadeType DEF Hand, Made, MapOwned, NotYetOffered, Busy
  <1>. HIDE DEF b, e
  <1>3. RecvType'
    <2>1. old' \subseteq InProgress'
      BY <1>1, <1>2 DEF RecvType, InProgress
    <2>. QED
      BY <1>1, <1>2, <2>1 DEF RecvType, RecvPlaces
  <1>4. \A u \in Threads : Hand(u)' /\ AsProducer(u)'
    BY <1>1, <1>2 DEF Hand, AsProducer, RecvType
  <1>5. MapOwned'
    <2>1. \A d \in Events : eventsInProgress'[d] = IF d = e THEN NoItem ELSE eventsInProgress[d]
      BY <1>1, <1>2 DEF RecvType
    <2>2. NoItem \notin Made
      BY SizesAssumption DEF RecvType, Made
    <2>3. \A u \in Threads : u # t => rAt'[u] = rAt[u]
      BY <1>1 DEF RecvType
    <2>4. \A u \in Threads : rAt'[u] = "enqueue" => eventsInProgress'[items[rItem[u]].ev] # rItem[u]
      <3>1. eventsInProgress'[items[rItem[t]].ev] # rItem[t]
        BY <1>2, <2>1, <2>2 DEF e, b
      <3>2. ASSUME NEW u \in Threads, u # t, rAt[u] = "enqueue"
            PROVE  eventsInProgress'[items[rItem[u]].ev] # rItem[u]
        <4>1. rItem[u] \in Made /\ Route[items[rItem[u]].ev] = u
          BY <3>2 DEF Hand
        <4>2. items[rItem[u]].ev \in Events
          BY <4>1, MadeType
        <4>. QED
          BY <1>2, <2>1, <3>2, <4>1, <4>2 DEF MapOwned
      <3>. QED
        BY <2>3, <3>1, <3>2
    <2>5. \A u \in Threads : rAt'[u] \in {"copy", "erase"} =>
            eventsInProgress'[items[rItem[u]].ev] \in {rItem[u], NoItem}
      <3>1. ASSUME NEW u \in Threads, u # t, rAt[u] \in {"copy", "erase"}
            PROVE  eventsInProgress'[items[rItem[u]].ev] \in {rItem[u], NoItem}
        <4>1. rItem[u] \in Made
          BY <3>1 DEF Hand
        <4>2. items[rItem[u]].ev \in Events
          BY <4>1, MadeType
        <4>. QED
          BY <2>1, <3>1, <4>2 DEF MapOwned
      <3>. QED
        BY <1>1, <2>3, <3>1 DEF RecvType
    <2>. QED
      BY <1>1, <1>2, <2>1, <2>2, <2>4, <2>5 DEF MapOwned
  <1>6. NotYetOffered'
    <2>1. NoItem \notin offered
      BY MadeType DEF RecvType
    <2>. QED
      BY <1>1, <1>2, <2>1 DEF NotYetOffered, RecvType, Busy
  <1>. QED
    BY <1>3, <1>4, <1>5, <1>6

LEMMA RecvCallEnqueue ==
  ASSUME RecvInv, NEW t \in Threads, CallEnqueue(t)
  PROVE  RecvInv'
  <1>. DEFINE b == rItem[t]
  <1>1. /\ rAt[t] = "enqueue" /\ rAt' = [rAt EXCEPT ![t] = "inqueue"]
        /\ pAt[t] = "out" /\ pAt' = [pAt EXCEPT ![t] = "push"]
        /\ pItem' = [pItem EXCEPT ![t] = b]
        /\ offered' = offered \cup {b}
        /\ UNCHANGED <<items, rFrag, rItem, eventsInProgress, old>>
    BY DEF CallEnqueue, Q!Offer, mapVars
  <1>. USE DEF RecvInv
  <1>2. /\ b \in Made /\ b \in 1 .. MaxItems /\ Made' = Made /\ Route[items[b].ev] = t
        /\ eventsInProgress[items[b].ev] # b
    BY <1>1, SizesAssumption DEF Hand, Made, MapOwned, RecvType
  <1>3. RecvType'
    BY <1>1, <1>2 DEF RecvType, InProgress, RecvPlaces
  <1>4. \A u \in Threads : Hand(u)' /\ AsProducer(u)'
    BY <1>1, <1>2 DEF Hand, AsProducer, RecvType
  <1>5. MapOwned'
    BY <1>1, <1>2 DEF MapOwned, RecvType
  <1>6. NotYetOffered'
    <2>1. ASSUME NEW e \in Events PROVE eventsInProgress[e] # b
      BY <1>2 DEF MapOwned
    <2>2. ASSUME NEW u \in Threads, u # t, rAt[u] \in Busy
          PROVE  rItem[u] # b
      BY <1>2, <2>2 DEF Hand, Busy
    <2>3. \A u \in Threads : rAt'[u] \in Busy => u # t /\ rAt[u] \in Busy
      BY <1>1 DEF Busy, RecvType
    <2>. QED
      BY <1>1, <2>1, <2>2, <2>3 DEF NotYetOffered
  <1>. QED
    BY <1>3, <1>4, <1>5, <1>6

(* The thread goes on in enqueue(), with its item, or leaves it. *)
LEMMA RecvInEnqueue ==
  ASSUME RecvInv, NEW t \in Threads, InEnqueue(t) \/ Enqueued(t) \/ EnqueueFailed(t)
  PROVE  RecvInv'
  <1>1. /\ rAt[t] = "inqueue"
        /\ \/ rAt' = rAt /\ pAt' = [pAt EXCEPT ![t] = "count"] /\ pItem' = [pItem EXCEPT ![t] = NoItem]
           \/ /\ rAt' = rAt /\ pAt' = [pAt EXCEPT ![t] = "full"] /\ UNCHANGED pItem
              /\ pAt[t] = "push"
           \/ /\ rAt' = [rAt EXCEPT ![t] = "success"] /\ pAt' = [pAt EXCEPT ![t] = "out"]
              /\ \/ UNCHANGED pItem
                 \/ pItem' = [pItem EXCEPT ![t] = NoItem]
        /\ UNCHANGED <<items, rFrag, rItem, eventsInProgress, old, offered>>
    <2>1. CASE InEnqueue(t)
      <3>1. pAt[t] = "push"
        BY <2>1 DEF InEnqueue, Q!PushAccepted, Q!PushRefused
      <3>. QED
        BY <2>1, <3>1 DEF InEnqueue, Q!PushAccepted, Q!PushRefused, mapVars, recvVars,
                          RecvInv, AsProducer
    <2>2. CASE Enqueued(t)
      <3>1. pAt[t] = "count"
        BY <2>2 DEF Enqueued, Q!CountPush
      <3>. QED
        BY <2>2, <3>1 DEF Enqueued, Q!CountPush, mapVars, RecvInv, AsProducer
    <2>3. CASE EnqueueFailed(t)
      <3>1. pAt[t] = "full"
        BY <2>3 DEF EnqueueFailed, Q!Drop
      <3>. QED
        BY <2>3, <3>1 DEF EnqueueFailed, Q!Drop, mapVars, RecvInv, AsProducer
    <2>. QED
      BY <2>1, <2>2, <2>3
  <1>. USE DEF RecvInv
  <1>2. Made' = Made
    BY <1>1 DEF Made
  <1>3. RecvType'
    BY <1>1, <1>2 DEF RecvType, InProgress, RecvPlaces
  <1>4. \A u \in Threads : Hand(u)' /\ AsProducer(u)'
    <2>1. ASSUME NEW u \in Threads, u # t
          PROVE  Hand(u)' /\ AsProducer(u)'
      <3>1. rAt'[u] = rAt[u] /\ pAt'[u] = pAt[u] /\ pItem'[u] = pItem[u]
        BY <1>1, <2>1 DEF RecvType
      <3>2. Hand(u) /\ AsProducer(u)
        OBVIOUS
      <3>. QED
        BY <1>1, <1>2, <3>1, <3>2 DEF Hand, AsProducer
    <2>2. Hand(t)'
      BY <1>1, <1>2 DEF Hand, RecvType
    <2>3. AsProducer(t)'
      <3>1. CASE rAt' = rAt /\ pAt' = [pAt EXCEPT ![t] = "count"]
        BY <1>1, <3>1 DEF AsProducer, RecvType
      <3>2. CASE rAt' = rAt /\ pAt' = [pAt EXCEPT ![t] = "full"]
        <4>1. pItem' = pItem /\ pAt[t] = "push"
          BY <1>1, <3>2 DEF RecvType
        <4>. QED
          BY <1>1, <3>2, <4>1 DEF AsProducer, RecvType
      <3>3. CASE rAt' = [rAt EXCEPT ![t] = "success"] /\ pAt' = [pAt EXCEPT ![t] = "out"]
        BY <1>1, <3>3 DEF AsProducer, RecvType
      <3>. QED
        BY <1>1, <3>1, <3>2, <3>3
    <2>. QED
      BY <2>1, <2>2, <2>3
  <1>5. MapOwned'
    BY <1>1, <1>2 DEF MapOwned, RecvType
  <1>6. NotYetOffered'
    BY <1>1, <1>2 DEF NotYetOffered, RecvType, Busy
  <1>. QED
    BY <1>3, <1>4, <1>5, <1>6

(* Steps of a receive thread between two events. *)
LEMMA RecvLoop ==
  ASSUME RecvInv, NEW t \in Threads,
         Select(t) \/ EndPass(t) \/ RecvExit(t) \/ CountSuccess(t)
  PROVE  RecvInv'
  <1>1. /\ UNCHANGED <<items, rFrag, eventsInProgress, old, offered, pItem>>
        /\ \/ /\ rAt[t] \in {"loop", "select"} /\ UNCHANGED <<rItem, pAt>>
              /\ \/ rAt' = [rAt EXCEPT ![t] = "select"]
                 \/ rAt' = [rAt EXCEPT ![t] = "loop"]
           \/ /\ rAt[t] = "loop" /\ rAt' = [rAt EXCEPT ![t] = "done"]
              /\ pAt[t] = "out" /\ pAt' = [pAt EXCEPT ![t] = "exited"] /\ UNCHANGED rItem
           \/ /\ rAt[t] = "success" /\ rAt' = [rAt EXCEPT ![t] = "select"]
              /\ rItem' = [rItem EXCEPT ![t] = NoItem] /\ UNCHANGED pAt
    BY DEF Select, EndPass, RecvExit, CountSuccess, Q!ProducerExit, queueVars, mapVars
  <1>. USE DEF RecvInv
  <1>2. Made' = Made
    BY <1>1 DEF Made
  <1>3. RecvType'
    <2>1. rAt' \in [Threads -> RecvPlaces] /\ rItem' \in [Threads -> Made \cup {NoItem}]
          /\ pAt' \in [Threads -> {"out", "push", "count", "full", "exited"}]
      BY <1>1 DEF RecvType, RecvPlaces
    <2>. QED
      BY <1>1, <1>2, <2>1 DEF RecvType, InProgress
  <1>4. ASSUME NEW u \in Threads PROVE Hand(u)' /\ AsProducer(u)'
    <2>1. CASE u # t
      <3>1. rAt'[u] = rAt[u] /\ pAt'[u] = pAt[u] /\ pItem'[u] = pItem[u] /\ rItem'[u] = rItem[u]
        BY <1>1, <2>1 DEF RecvType
      <3>2. Hand(u) /\ AsProducer(u)
        OBVIOUS
      <3>. QED
        BY <1>1, <1>2, <3>1, <3>2 DEF Hand, AsProducer
    <2>2. Hand(t)'
      BY <1>1, <1>2 DEF Hand, RecvType
    <2>3. AsProducer(t)'
      BY <1>1, <1>2 DEF AsProducer, RecvType
    <2>. QED
      BY <2>1, <2>2, <2>3
  <1>5. \A u \in Threads : rAt'[u] \in {"copy", "erase", "enqueue"} =>
          rAt'[u] = rAt[u] /\ rItem'[u] = rItem[u]
    BY <1>1 DEF RecvType
  <1>6. MapOwned'
    BY <1>1, <1>2, <1>5 DEF MapOwned
  <1>7. NotYetOffered'
    BY <1>1, <1>2, <1>5 DEF NotYetOffered, Busy
  <1>. QED
    BY <1>3, <1>4, <1>6, <1>7

(* Entries leave the map, and with them their times: an item ages, or the
   collector collects an event or drains a thread's map. *)
LEMMA RecvForget ==
  ASSUME RecvInv, UNCHANGED <<items, rAt, rFrag, rItem, offered, pAt, pItem>>,
         eventsInProgress' \in [Events -> Made \cup {NoItem}],
         \A e \in Events : eventsInProgress'[e] \in {eventsInProgress[e], NoItem},
         old' \subseteq InProgress'
  PROVE  RecvInv'
  <1>. USE DEF RecvInv
  <1>1. Made' = Made
    BY DEF Made
  <1>2. RecvType'
    BY <1>1 DEF RecvType
  <1>3. \A u \in Threads : Hand(u)' /\ AsProducer(u)'
    BY <1>1 DEF Hand, AsProducer
  <1>4. NoItem \notin Made /\ NoItem \notin offered
    BY MadeType DEF RecvType
  <1>5. \A u \in Threads : rAt[u] \in {"copy", "erase", "enqueue"} =>
          rItem[u] \in Made /\ items[rItem[u]].ev \in Events
    BY MadeType DEF Hand
  <1>6. MapOwned'
    <2>1. ASSUME NEW e \in Events, eventsInProgress'[e] \in Made'
          PROVE  items'[eventsInProgress'[e]].ev = e
      BY <1>1, <1>4, <2>1 DEF MapOwned
    <2>2. ASSUME NEW u \in Threads, rAt'[u] \in {"copy", "erase"}
          PROVE  eventsInProgress'[items'[rItem'[u]].ev] \in {rItem'[u], NoItem}
      BY <1>5, <2>2 DEF MapOwned
    <2>3. ASSUME NEW u \in Threads, rAt'[u] = "enqueue"
          PROVE  eventsInProgress'[items'[rItem'[u]].ev] # rItem'[u]
      BY <1>4, <1>5, <2>3 DEF MapOwned
    <2>. QED
      BY <2>1, <2>2, <2>3 DEF MapOwned
  <1>7. NotYetOffered'
    BY <1>4 DEF NotYetOffered
  <1>. QED
    BY <1>2, <1>3, <1>6, <1>7

LEMMA RecvAgeCollect ==
  ASSUME RecvInv,
         (\E b \in InProgress : Age(b)) \/ (\E e \in Events : GCCollect(e))
           \/ (\E t \in Threads : GCDrain(t))
  PROVE  RecvInv'
  <1>. USE DEF RecvInv
  <1>1. NoItem \notin old
    BY DEF RecvType, InProgress
  <1>2. ASSUME NEW b \in InProgress, Age(b) PROVE RecvInv'
    <2>1. /\ UNCHANGED <<items, rAt, rFrag, rItem, offered, pAt, pItem, eventsInProgress>>
          /\ old' = old \cup {b}
      BY <1>2 DEF Age, recvVars, queueVars
    <2>2. old' \subseteq InProgress'
      BY <2>1 DEF RecvType, InProgress
    <2>. QED
      BY <2>1, <2>2, RecvForget DEF RecvType
  <1>3. ASSUME NEW e \in Events, GCCollect(e) PROVE RecvInv'
    <2>1. /\ UNCHANGED <<items, rAt, rFrag, rItem, offered, pAt, pItem>>
          /\ eventsInProgress' = [eventsInProgress EXCEPT ![e] = NoItem]
          /\ old' = old \ {eventsInProgress[e]}
      BY <1>3 DEF GCCollect, recvVars, queueVars
    <2>2. old' \subseteq InProgress'
      BY <1>1, <2>1 DEF RecvType, InProgress
    <2>. QED
      BY <2>1, <2>2, RecvForget DEF RecvType
  <1>4. ASSUME NEW t \in Threads, GCDrain(t) PROVE RecvInv'
    <2>1. /\ UNCHANGED <<items, rAt, rFrag, rItem, offered, pAt, pItem>>
          /\ eventsInProgress' = [e \in Events |-> IF Route[e] = t THEN NoItem ELSE eventsInProgress[e]]
          /\ old' = old \ {eventsInProgress[e] : e \in {d \in Events : Route[d] = t}}
      BY <1>4 DEF GCDrain, recvVars, queueVars
    <2>2. old' \subseteq InProgress'
      BY <1>1, <2>1 DEF RecvType, InProgress
    <2>. QED
      BY <2>1, <2>2, RecvForget DEF RecvType
  <1>. QED
    BY <1>2, <1>3, <1>4

(* All other steps leave these variables alone. *)
LEMMA RecvOthers ==
  ASSUME RecvInv,
         \/ \E f \in Fragments : Lose(f) \/ Duplicate(f)
         \/ GCPass \/ GCUnlock \/ GCStop \/ (\E t \in Threads : GCLock(t))
         \/ (\E c \in Consumers : Consume(c)) \/ SendState \/ StopThreads \/ StopDrain
         \/ GetLostEvent \/ StopReturn \/ UNCHANGED vars
  PROVE  RecvInv'
  <1>1. CASE (\E f \in Fragments : Lose(f) \/ Duplicate(f)) \/ UNCHANGED vars
    BY <1>1, RecvFrame DEF Lose, Duplicate, vars, recvState, recvVars, mapVars, queueVars
  <1>2. CASE GCPass \/ GCUnlock \/ GCStop \/ (\E t \in Threads : GCLock(t))
    BY <1>2, RecvFrame DEF GCPass, GCUnlock, GCStop, GCLock, recvState, recvVars, mapVars, queueVars
  <1>3. CASE (\E c \in Consumers : Consume(c)) \/ SendState \/ StopThreads \/ StopDrain
    BY <1>3, QueueSideSteps, RecvFrame
  <1>4. CASE GetLostEvent \/ StopReturn
    BY <1>4, RecvFrame DEF GetLostEvent, StopReturn, recvState, recvVars, mapVars, queueVars
  <1>. QED
    BY <1>1, <1>2, <1>3, <1>4

LEMMA RecvInit == Init => RecvInv
  <1>. SUFFICES ASSUME Init PROVE RecvInv
    OBVIOUS
  <1>. USE DEF Init, Q!Init
  <1>1. items \in Seq(Record) /\ Len(items) = 0 /\ Made = {}
    BY DEF Made
  <1>2. RecvType
    BY <1>1, SizesAssumption DEF RecvType, RecvPlaces
  <1>3. \A t \in Threads : Hand(t) /\ AsProducer(t)
    BY DEF Hand, AsProducer
  <1>4. MapOwned /\ NotYetOffered
    BY <1>1 DEF MapOwned, NotYetOffered, Busy
  <1>. QED
    BY <1>2, <1>3, <1>4 DEF RecvInv

LEMMA RecvNext == RecvInv /\ [Next]_vars => RecvInv'
  <1>. SUFFICES ASSUME RecvInv, [Next]_vars PROVE RecvInv'
    OBVIOUS
  <1>1. ASSUME NEW f \in Fragments, NEW t \in Threads, StartItem(t, f) \/ JoinItem(t, f)
        PROVE  RecvInv'
    BY <1>1, RecvStartItem, RecvJoinItem
  <1>2. ASSUME NEW t \in Threads, RecvStep(t)
        PROVE  RecvInv'
    BY <1>2, RecvLoop, RecvCopy, RecvErase, RecvCallEnqueue, RecvInEnqueue DEF RecvStep
  <1>3. CASE GCStep
    BY <1>3, RecvAgeCollect, RecvOthers DEF GCStep
  <1>. QED
    BY <1>1, <1>2, <1>3, RecvAgeCollect, RecvOthers DEF Next

LEMMA RecvCorrect == SafeSpec => []RecvInv
  BY RecvInit, RecvNext, PTL DEF SafeSpec

(* A receive thread hands an item to enqueue() once: the queue never holds two
   pointers to one event buffer. *)
THEOREM HandedOnceCorrect == SafeSpec => []HandedOnce
<1>1. RecvInv => HandedOnce
  BY DEF RecvInv, NotYetOffered, HandedOnce, Busy
<1>. QED
  BY <1>1, RecvCorrect, PTL

-----------------------------------------------------------------------------
(* The Reassembler implements EventQueue *)

(* A step of the Reassembler is one of EventQueue, or none. *)
LEMMA QueueStep ==
  ASSUME RecvInv, [Next]_vars
  PROVE  [Q!Next]_(Q!vars)
  <1>. USE DEF queueVars, Q!vars
  <1>1. ASSUME NEW f \in Fragments,
               Lose(f) \/ Duplicate(f) \/ \E t \in Threads : StartItem(t, f) \/ JoinItem(t, f)
        PROVE  UNCHANGED Q!vars
    BY <1>1 DEF Lose, Duplicate, StartItem, JoinItem
  <1>2. ASSUME NEW t \in Threads, RecvStep(t)
        PROVE  [Q!Next]_(Q!vars)
    <2>1. CASE Select(t) \/ EndPass(t) \/ Copy(t) \/ Erase(t) \/ CountSuccess(t)
      BY <2>1 DEF Select, EndPass, Copy, Erase, CountSuccess
    <2>2. CASE RecvExit(t)
      BY <2>2 DEF RecvExit, Q!Next
    <2>3. CASE CallEnqueue(t)
      <3>1. rItem[t] \in 1 .. MaxItems
        BY <2>3, MadeType DEF CallEnqueue, RecvInv, Hand
      <3>. QED
        BY <2>3, <3>1 DEF CallEnqueue, Q!Next
    <2>4. CASE InEnqueue(t) \/ Enqueued(t) \/ EnqueueFailed(t)
      BY <2>4 DEF InEnqueue, Enqueued, EnqueueFailed, Q!Next, Q!Enqueue
    <2>. QED
      BY <1>2, <2>1, <2>2, <2>3, <2>4 DEF RecvStep
  <1>3. CASE GCStep \/ (\E b \in InProgress : Age(b)) \/ GetLostEvent \/ StopReturn
    <2>1. CASE GCPass \/ GCUnlock \/ GCStop \/ (\E t \in Threads : GCLock(t) \/ GCDrain(t))
      BY <2>1 DEF GCPass, GCUnlock, GCStop, GCLock, GCDrain
    <2>2. CASE \E e \in Events : GCCollect(e)
      BY <2>2 DEF GCCollect
    <2>3. CASE (\E b \in InProgress : Age(b)) \/ GetLostEvent \/ StopReturn
      BY <2>3 DEF Age, GetLostEvent, StopReturn
    <2>. QED
      BY <1>3, <2>1, <2>2, <2>3 DEF GCStep
  <1>4. CASE (\E c \in Consumers : Consume(c)) \/ SendState \/ StopThreads \/ StopDrain
    BY <1>4 DEF Consume, SendState, StopThreads, StopDrain, Q!Next
  <1>5. CASE UNCHANGED vars
    BY <1>5 DEF vars
  <1>. QED
    BY <1>1, <1>2, <1>3, <1>4, <1>5 DEF Next

(* The receive threads, the consumers and stopThreads() use the queue as
   EventQueue says: every behaviour of the Reassembler is one of it. *)
THEOREM QueueImplemented == SafeSpec => QueueSpec
<1>1. Init => Q!Init
  BY DEF Init
<1>2. RecvInv /\ [Next]_vars => [Q!Next]_(Q!vars)
  BY QueueStep
<1>. QED
  BY <1>1, <1>2, RecvCorrect, PTL DEF SafeSpec, QueueSpec, Q!SafeSpec

(* EventQueue and EventQueueProofs, with the same substitution, have the same
   specification. *)
LEMMA SameQueue == Q!SafeSpec => QP!SafeSpec
<1>1. Q!Init => QP!Init
  BY DEF Q!Init, QP!Init
<1>2. [Q!Next]_(Q!vars) => [QP!Next]_(QP!vars)
  BY DEF Q!producerVars, Q!consumerVars, Q!stopVars, Q!stateVars, Q!queueVars, Q!vars,
           Q!Offer, Q!PushAccepted, Q!Notified, Q!PushRefused, Q!CountPush, Q!Drop,
           Q!ProducerExit, Q!Call, Q!Pop, Q!PopEmpty, Q!Return, Q!Wait, Q!WaitTimeout,
           Q!GiveUp, Q!Sample, Q!Report, Q!SendStateExit, Q!StopThreads, Q!JoinThreads,
           Q!DrainPop, Q!DrainEnd, Q!Enqueue, Q!Dequeue, Q!Drain, Q!Next, QP!producerVars,
           QP!consumerVars, QP!stopVars, QP!stateVars, QP!queueVars, QP!vars, QP!Offer,
           QP!PushAccepted, QP!Notified, QP!PushRefused, QP!CountPush, QP!Drop,
           QP!ProducerExit, QP!Call, QP!Pop, QP!PopEmpty, QP!Return, QP!Wait, QP!WaitTimeout,
           QP!GiveUp, QP!Sample, QP!Report, QP!SendStateExit, QP!StopThreads, QP!JoinThreads,
           QP!DrainPop, QP!DrainEnd, QP!Enqueue, QP!Dequeue, QP!Drain, QP!Next
<1>. QED
  BY <1>1, <1>2, PTL DEF Q!SafeSpec, QP!SafeSpec

LEMMA QueueAssumptions ==
  /\ NoItem \notin 1 .. MaxItems /\ useCP \in BOOLEAN
  /\ QP!IsFiniteSet(Threads) /\ QP!IsFiniteSet(Consumers)
  /\ QSIZE \in Nat \ {0} /\ SizeMod \in Nat /\ SizeMod > QSIZE
  BY SizesAssumption, FlagsAssumption, ThreadsAssumption DEF IsFiniteSet, QP!IsFiniteSet

(* The queue of the Reassembler keeps what EventQueue promises: every event
   given to enqueue() is in one place from then on. *)
THEOREM EventsConserved == SafeSpec => []Q!ConservedOnce
<1>1. QP!SafeSpec => []QP!ConservedOnce
  BY QP!Conservation, QueueAssumptions
<1>2. QP!ConservedOnce => Q!ConservedOnce
  BY DEF QP!ConservedOnce, QP!NoItemTwice, QP!PlacesDisjoint, QP!NoItemLost, QP!Places, QP!Offering,
         QP!InHand, QP!InQueue, QP!Uncounting, QP!Taken,
         Q!ConservedOnce, Q!NoItemTwice, Q!PlacesDisjoint, Q!NoItemLost, Q!Places, Q!Offering,
         Q!InHand, Q!InQueue, Q!Uncounting, Q!Taken
<1>. QED
  BY <1>1, <1>2, QueueImplemented, SameQueue, PTL DEF QueueSpec

(* The event depth reported by the Reassembler is the number of entries but for
   the pushes and pops under way, until stopThreads() drains the queue. *)
THEOREM DepthReported == SafeSpec => []Q!DepthAgrees
<1>1. QP!SafeSpec => []QP!DepthAgrees
  BY QP!DepthCorrect, QueueAssumptions
<1>2. QP!DepthAgrees => Q!DepthAgrees
  <2>1. \A S : QP!Cardinality(S) = Q!Cardinality(S)
    BY DEF QP!Cardinality, Q!Cardinality
  <2>. QED
    BY <2>1 DEF QP!DepthAgrees, QP!Counting, QP!Uncounting, Q!DepthAgrees, Q!Counting, Q!Uncounting
<1>. QED
  BY <1>1, <1>2, QueueImplemented, SameQueue, PTL DEF QueueSpec

LEMMA QueueStopped == SafeSpec => []QP!StopInv
<1>1. QP!SafeSpec => []QP!StopInv
  BY QP!StopCorrect, QueueAssumptions
<1>. QED
  BY <1>1, QueueImplemented, SameQueue, PTL DEF QueueSpec

(* Nothing is left in the queue once stopThreads() has drained it. *)
THEOREM QueueDrained == SafeSpec => []Q!StoppedMeansEmpty
<1>1. QP!StopInv => Q!StoppedMeansEmpty
  BY DEF QP!StopInv, QP!StoppedMeansEmpty, Q!StoppedMeansEmpty
<1>. QED
  BY <1>1, QueueStopped, PTL

(* The queue's variables keep their types. *)
LEMMA QueueTypeCorrect == SafeSpec => [](Q!TypeOK /\ QP!HandsFull)
<1>1. QP!SafeSpec => [](QP!TypeOK /\ QP!HandsFull)
  BY QP!TypeCorrect, QueueAssumptions
<1>2. QP!TypeOK => Q!TypeOK
  BY DEF QP!TypeOK, QP!ProducerPlaces, QP!ConsumerPlaces, QP!StopPlaces, QP!SendStatePlaces,
         Q!TypeOK, Q!ProducerPlaces, Q!ConsumerPlaces, Q!StopPlaces, Q!SendStatePlaces
<1>. QED
  BY <1>1, <1>2, QueueImplemented, SameQueue, PTL DEF QueueSpec

-----------------------------------------------------------------------------
(* Types *)

NetType == net \in [Fragments -> Nat] /\ dups \in 0 .. MaxDups

GCType ==
  /\ gAt \in {"top", "scan", "drain", "done"}
  /\ gLeft \subseteq Threads
  /\ gThread \in Threads \cup {NoThread}
  /\ gOld \subseteq Made
  /\ handled \subseteq Fragments
  /\ collected \cup torn \cup late \subseteq Made

LossType ==
  /\ lostEvents \in [Threads -> SUBSET Events]
  /\ enqueueLoss \in Nat /\ reassemblyLoss \in Nat /\ eventSuccess \in Nat
  /\ stopReturned \in BOOLEAN

LEMMA NetTypeNext ==
  ASSUME RecvInv, NetType, [Next]_vars
  PROVE  NetType'
  <1>. USE DEF NetType
  <1>1. ASSUME NEW f \in Fragments, Lose(f) \/ Duplicate(f) PROVE NetType'
    BY <1>1, SizesAssumption DEF Lose, Duplicate
  <1>2. ASSUME NEW f \in Fragments, NEW t \in Threads, StartItem(t, f) \/ JoinItem(t, f)
        PROVE  NetType'
    BY <1>2 DEF StartItem, JoinItem, Arrives
  <1>3. ASSUME NEW t \in Threads, RecvStep(t) PROVE UNCHANGED netVars
    BY <1>3 DEF RecvStep, Select, RecvExit, EndPass, Copy, Erase, CallEnqueue, InEnqueue, Enqueued,
                EnqueueFailed, CountSuccess
  <1>4. CASE GCStep \/ (\E b \in InProgress : Age(b)) \/ GetLostEvent \/ StopReturn
    BY <1>4 DEF GCStep, GCPass, GCUnlock, GCStop, GCLock, GCDrain, GCCollect, Age, GetLostEvent,
                StopReturn, netVars
  <1>5. CASE (\E c \in Consumers : Consume(c)) \/ SendState \/ StopThreads \/ StopDrain
    BY <1>5, QueueSideSteps DEF NotQueue, netVars
  <1>6. CASE UNCHANGED vars
    BY <1>6 DEF vars, netVars
  <1>. HIDE DEF NetType
  <1>. QED
    BY <1>1, <1>2, <1>3, <1>4, <1>5, <1>6 DEF Next, NetType, netVars

(* Items are made, never unmade. *)
LEMMA MadeGrows ==
  ASSUME RecvInv, [Next]_vars
  PROVE  /\ Made \subseteq Made'
         /\ Made' = Made \/ \E t \in Threads, f \in Fragments : StartItem(t, f)
         /\ \A b \in Made : items'[b].ev = items[b].ev
  <1>1. CASE \E f \in Fragments, t \in Threads : StartItem(t, f)
    BY <1>1, StartItemEffect
  <1>2. CASE \E t \in Threads : Copy(t)
    BY <1>2, CopyEffect
  <1>3. ASSUME NEW t \in Threads, RecvStep(t), ~Copy(t) PROVE UNCHANGED items
    BY <1>3 DEF RecvStep, Select, RecvExit, EndPass, Erase, CallEnqueue, InEnqueue, Enqueued,
                EnqueueFailed, CountSuccess, recvVars
  <1>4. ASSUME NEW f \in Fragments, Lose(f) \/ Duplicate(f) \/ \E t \in Threads : JoinItem(t, f)
        PROVE  UNCHANGED items
    BY <1>4 DEF Lose, Duplicate, JoinItem, recvVars
  <1>5. CASE GCStep \/ (\E b \in InProgress : Age(b)) \/ GetLostEvent \/ StopReturn
    BY <1>5 DEF GCStep, GCPass, GCUnlock, GCStop, GCLock, GCDrain, GCCollect, Age, GetLostEvent,
                StopReturn, recvVars, Made
  <1>6. CASE (\E c \in Consumers : Consume(c)) \/ SendState \/ StopThreads \/ StopDrain
    BY <1>6, QueueSideSteps DEF NotQueue, recvVars, Made
  <1>7. CASE UNCHANGED vars
    BY <1>7 DEF vars, recvVars, Made
  <1>. QED
    BY <1>1, <1>2, <1>3, <1>4, <1>5, <1>6, <1>7 DEF Next, Made

LEMMA GCTypeNext ==
  ASSUME RecvInv, GCType, [Next]_vars
  PROVE  GCType'
  <1>. USE DEF GCType
  <1>1. Made \subseteq Made'
    BY MadeGrows
  <1>2. ASSUME NEW f \in Fragments, NEW t \in Threads, StartItem(t, f)
        PROVE  GCType'
    <2>1. Len(items) + 1 \in Made' /\ UNCHANGED <<handled, gcVars>>
          /\ late' \in {late, late \cup {Len(items) + 1}}
      BY <1>2, StartItemEffect DEF StartItem
    <2>. QED
      BY <1>1, <2>1 DEF gcVars
  <1>3. ASSUME NEW t \in Threads, Copy(t)
        PROVE  GCType'
    BY <1>1, <1>3, CopyEffect DEF Copy, gcVars
  <1>4. ASSUME NEW t \in Threads, RecvStep(t), ~Copy(t)
        PROVE  GCType'
    BY <1>1, <1>4 DEF RecvStep, Select, RecvExit, EndPass, Erase, CallEnqueue, InEnqueue, Enqueued,
                EnqueueFailed, CountSuccess, recvVars, gcVars
  <1>5. ASSUME NEW f \in Fragments, Lose(f) \/ Duplicate(f) \/ \E t \in Threads : JoinItem(t, f)
        PROVE  GCType'
    BY <1>1, <1>5 DEF Lose, Duplicate, JoinItem, recvVars, gcVars
  <1>6. old \subseteq Made
    BY DEF RecvInv, RecvType, InProgress
  <1>7. CASE GCPass \/ GCUnlock \/ GCStop \/ (\E t \in Threads : GCLock(t))
    BY <1>1, <1>6, <1>7 DEF GCPass, GCUnlock, GCStop, GCLock, recvVars
  <1>8. ASSUME NEW e \in Events, GCCollect(e)
        PROVE  GCType'
    BY <1>1, <1>8 DEF GCCollect, Delete, Expired, recvVars
  <1>9. ASSUME NEW t \in Threads, GCDrain(t)
        PROVE  GCType'
    <2>1. {eventsInProgress[e] : e \in {d \in Events : Route[d] = t}} \ {NoItem} \subseteq Made
      BY DEF RecvInv, RecvType
    <2>. QED
      BY <1>1, <1>9, <2>1 DEF GCDrain, Delete, recvVars
  <1>10. CASE (\E b \in InProgress : Age(b)) \/ GetLostEvent \/ StopReturn
    BY <1>1, <1>10 DEF Age, GetLostEvent, StopReturn, recvVars, gcVars
  <1>11. CASE (\E c \in Consumers : Consume(c)) \/ SendState \/ StopThreads \/ StopDrain
    BY <1>1, <1>11, QueueSideSteps DEF NotQueue, recvVars, gcVars
  <1>12. CASE UNCHANGED vars
    BY <1>1, <1>12 DEF vars, recvVars, gcVars
  <1>. HIDE DEF GCType
  <1>. QED
    BY <1>2, <1>3, <1>4, <1>5, <1>7, <1>8, <1>9, <1>10, <1>11, <1>12 DEF Next, GCStep

LEMMA LossTypeNext ==
  ASSUME RecvInv, LossType, [Next]_vars, GCType
  PROVE  LossType'
  <1>. USE DEF LossType
  <1>1. ASSUME NEW t \in Threads, NEW e \in Events, NEW q \in BOOLEAN, LogLostEvent(t, e, q),
               UNCHANGED <<eventSuccess, stopReturned>>
        PROVE  LossType'
    BY <1>1 DEF LogLostEvent, lostVars
  <1>2. ASSUME NEW t \in Threads, EnqueueFailed(t)
        PROVE  LossType'
    <2>1. items[rItem[t]].ev \in Events
      BY <1>2, MadeType DEF EnqueueFailed, Q!Drop, RecvInv, Hand, AsProducer
    <2>. QED
      BY <1>1, <1>2, <2>1 DEF EnqueueFailed
  <1>3. ASSUME NEW e \in Events, GCCollect(e)
        PROVE  LossType'
    BY <1>1, <1>3 DEF GCCollect, GCType
  <1>4. ASSUME NEW t \in Threads, CountSuccess(t)
        PROVE  LossType'
    BY <1>4 DEF CountSuccess, lostVars
  <1>5. CASE StopReturn \/ GetLostEvent
    BY <1>5 DEF StopReturn, GetLostEvent
  <1>. HIDE DEF LossType
  <1>6. CASE UNCHANGED <<lostVars, eventSuccess, stopReturned>>
    BY <1>6 DEF LossType, lostVars
  <1>7. ASSUME NEW t \in Threads, RecvStep(t), ~EnqueueFailed(t), ~CountSuccess(t)
        PROVE  UNCHANGED <<lostVars, eventSuccess, stopReturned>>
    BY <1>7 DEF RecvStep, Select, RecvExit, EndPass, Copy, Erase, CallEnqueue, InEnqueue, Enqueued
  <1>8. ASSUME NEW f \in Fragments,
               Lose(f) \/ Duplicate(f) \/ \E t \in Threads : StartItem(t, f) \/ JoinItem(t, f)
        PROVE  UNCHANGED <<lostVars, eventSuccess, stopReturned>>
    BY <1>8 DEF Lose, Duplicate, StartItem, JoinItem
  <1>9. CASE GCPass \/ GCUnlock \/ GCStop \/ (\E t \in Threads : GCLock(t) \/ GCDrain(t))
               \/ (\E b \in InProgress : Age(b)) \/ UNCHANGED vars
    BY <1>6, <1>9 DEF GCPass, GCUnlock, GCStop, GCLock, GCDrain, Age, vars
  <1>10. CASE (\E c \in Consumers : Consume(c)) \/ SendState \/ StopThreads \/ StopDrain
    BY <1>6, <1>10, QueueSideSteps DEF NotQueue
  <1>. QED
    BY <1>2, <1>3, <1>4, <1>5, <1>6, <1>7, <1>8, <1>9, <1>10 DEF Next, GCStep

(* Every variable keeps its type. *)
THEOREM TypeCorrect == SafeSpec => []TypeOK
<1>1. Init => NetType /\ GCType /\ LossType
  <2>. SUFFICES ASSUME Init PROVE NetType /\ GCType /\ LossType
    OBVIOUS
  <2>1. NetType /\ GCType
    BY SizesAssumption DEF Init, NetType, GCType
  <2>2. stopReturned \in BOOLEAN
    BY Zenon DEF Init
  <2>3. LossType
    BY <2>2 DEF Init, LossType
  <2>. QED
    BY <2>1, <2>3
<1>2. RecvInv /\ NetType /\ GCType /\ LossType /\ [Next]_vars
        => (NetType /\ GCType /\ LossType)'
  BY NetTypeNext, GCTypeNext, LossTypeNext
<1>3. RecvInv /\ NetType /\ GCType /\ LossType /\ Q!TypeOK => TypeOK
  <2>. SUFFICES ASSUME RecvInv, NetType, GCType, LossType, Q!TypeOK PROVE TypeOK
    OBVIOUS
  <2>1. \A b \in Made : /\ items[b].ev \in Events /\ items[b].curBytes \in Nat
                        /\ items[b].got \subseteq 0 .. (Bytes[items[b].ev] - 1)
    BY MadeType DEF RecvInv, RecvType
  <2>. QED
    BY <2>1 DEF TypeOK, RecvInv, RecvType, RecvPlaces, NetType, GCType, LossType, Made
<1>. QED
  BY <1>1, <1>2, <1>3, RecvCorrect, QueueTypeCorrect, PTL DEF SafeSpec

LEMMA GCCorrect == SafeSpec => [](RecvInv /\ GCType /\ LossType)
<1>1. Init => GCType /\ LossType
  <2>1. Init => stopReturned \in BOOLEAN
    BY Zenon DEF Init
  <2>. QED
    BY <2>1 DEF Init, GCType, LossType
<1>2. RecvInv /\ GCType /\ LossType /\ [Next]_vars => (GCType /\ LossType)'
  BY GCTypeNext, LossTypeNext
<1>. QED
  BY <1>1, <1>2, RecvCorrect, PTL DEF SafeSpec

-----------------------------------------------------------------------------
(* The garbage collector and the queue *)

(* Steps of a receive thread with no event in hand, or one that is not its own
   to change any more. *)
Idling(t) ==
  Select(t) \/ EndPass(t) \/ RecvExit(t) \/ InEnqueue(t) \/ Enqueued(t) \/ EnqueueFailed(t)
    \/ CountSuccess(t)

LEMMA IdlingEffect ==
  ASSUME RecvInv, NEW t \in Threads, Idling(t)
  PROVE  /\ rAt[t] \notin Busy
         /\ \A u \in Threads : rAt'[u] \in Busy => u # t /\ rAt'[u] = rAt[u] /\ rItem'[u] = rItem[u]
         /\ \A u \in Threads : rAt[u] \in Busy => rAt'[u] = rAt[u] /\ rItem'[u] = rItem[u]
         /\ UNCHANGED <<netVars, rFrag, items, handled, late, mapVars, gcVars, stopReturned, offered>>
  <1>. USE DEF RecvInv, RecvType, AsProducer, Busy
  <1>1. CASE Select(t) \/ EndPass(t)
    BY <1>1 DEF Select, EndPass, queueVars
  <1>2. CASE RecvExit(t)
    BY <1>2 DEF RecvExit, Q!ProducerExit
  <1>3. CASE InEnqueue(t)
    <2>1. pAt[t] = "push" /\ UNCHANGED <<recvVars, offered>>
      BY <1>3 DEF InEnqueue, Q!PushAccepted, Q!PushRefused
    <2>. QED
      BY <1>3, <2>1 DEF InEnqueue, recvVars
  <1>4. CASE Enqueued(t)
    BY <1>4 DEF Enqueued, Q!CountPush
  <1>5. CASE EnqueueFailed(t)
    BY <1>5 DEF EnqueueFailed, Q!Drop
  <1>6. CASE CountSuccess(t)
    BY <1>6 DEF CountSuccess, queueVars
  <1>. QED
    BY <1>1, <1>2, <1>3, <1>4, <1>5, <1>6 DEF Idling

(* What the garbage collector, the network and the user do that is not about
   items. *)
Elsewhere ==
  \/ \E f \in Fragments : Lose(f) \/ Duplicate(f)
  \/ \E b \in InProgress : Age(b)
  \/ GCPass \/ GCUnlock \/ GCStop \/ (\E t \in Threads : GCLock(t))
  \/ (\E c \in Consumers : Consume(c)) \/ SendState \/ StopThreads \/ StopDrain
  \/ GetLostEvent \/ StopReturn \/ UNCHANGED vars

LEMMA ElsewhereEffect ==
  ASSUME Elsewhere
  PROVE  UNCHANGED <<recvVars, eventsInProgress, collected, torn, offered, lostEvents, enqueueLoss,
                     reassemblyLoss, eventSuccess, dropped, pAt, pItem>>
  <1>1. CASE \/ \E f \in Fragments : Lose(f) \/ Duplicate(f)
             \/ \E b \in InProgress : Age(b)
             \/ GetLostEvent \/ StopReturn \/ UNCHANGED vars
    BY <1>1 DEF Lose, Duplicate, Age, GetLostEvent, StopReturn, vars, mapVars, gcVars, lostVars, queueVars
  <1>2. CASE GCPass \/ GCUnlock \/ GCStop \/ (\E t \in Threads : GCLock(t))
    BY <1>2 DEF GCPass, GCUnlock, GCStop, GCLock, mapVars, lostVars, queueVars
  <1>3. CASE (\E c \in Consumers : Consume(c)) \/ SendState \/ StopThreads \/ StopDrain
    BY <1>3, QueueSideSteps DEF NotQueue, recvState, mapVars, gcVars, lostVars
  <1>. QED
    BY <1>1, <1>2, <1>3 DEF Elsewhere

(* The steps, by what they do to an item. *)
LEMMA StepCases ==
  ASSUME [Next]_vars
  PROVE  \/ \E t \in Threads, f \in Fragments : StartItem(t, f) \/ JoinItem(t, f)
         \/ \E t \in Threads : Copy(t) \/ Erase(t) \/ CallEnqueue(t) \/ Idling(t)
         \/ \E e \in Events : GCCollect(e)
         \/ \E t \in Threads : GCDrain(t)
         \/ Elsewhere
  BY DEF Next, RecvStep, GCStep, Idling, Elsewhere

(* The map has no collected item, and a thread with one has been torn from it. *)
CollectInv ==
  /\ CollectedNotQueued
  /\ \A e \in Events : eventsInProgress[e] \notin collected
  /\ \A t \in Threads : rAt[t] \in Busy /\ rItem[t] \in collected => rItem[t] \in torn

(* The collector deletes items that were in the map of their thread. *)
LEMMA CollectDeletes ==
  ASSUME RecvInv, GCType, CollectInv, NEW B \in SUBSET Made, Delete(B),
         B \subseteq InProgress, UNCHANGED <<rAt, rItem, offered>>,
         \A e \in Events : eventsInProgress'[e] \in {eventsInProgress[e], NoItem} \ B
  PROVE  CollectInv'
  <1>1. collected' = collected \cup B /\ torn' = torn \cup (B \cap InUse)
    BY DEF Delete
  <1>2. B \cap offered = {}
    BY DEF RecvInv, NotYetOffered, InProgress
  <1>3. NoItem \notin collected \cup B
    BY MadeType DEF GCType
  <1>4. CollectedNotQueued'
    BY <1>1, <1>2 DEF CollectInv, CollectedNotQueued
  <1>5. \A e \in Events : eventsInProgress'[e] \notin collected'
    BY <1>1, <1>3 DEF CollectInv
  <1>6. ASSUME NEW t \in Threads, rAt'[t] \in Busy, rItem'[t] \in collected'
        PROVE  rItem'[t] \in torn'
    <2>1. CASE rItem[t] \in collected
      BY <1>1, <1>6, <2>1 DEF CollectInv
    <2>2. CASE rItem[t] \in B
      BY <1>1, <1>6, <2>2 DEF InUse, Busy
    <2>. QED
      BY <1>1, <1>6, <2>1, <2>2
  <1>. QED
    BY <1>4, <1>5, <1>6 DEF CollectInv

LEMMA CollectNext ==
  ASSUME RecvInv, GCType, CollectInv, [Next]_vars
  PROVE  CollectInv'
  <1>1. ASSUME NEW t \in Threads, NEW f \in Fragments, StartItem(t, f)
        PROVE  CollectInv'
    <2>. DEFINE n == Len(items) + 1
    <2>1. /\ rAt' = [rAt EXCEPT ![t] = "copy"] /\ rItem' = [rItem EXCEPT ![t] = n]
          /\ eventsInProgress' = [eventsInProgress EXCEPT ![f.ev] = n]
          /\ UNCHANGED <<offered, collected, torn>>
      BY <1>1 DEF StartItem, Arrives, queueVars, gcVars
    <2>2. n \notin collected
      BY <1>1, StartItemEffect DEF GCType
    <2>. HIDE DEF n
    <2>. QED
      BY <2>1, <2>2 DEF CollectInv, CollectedNotQueued, RecvInv, RecvType, Busy
  <1>2. ASSUME NEW t \in Threads, NEW f \in Fragments, JoinItem(t, f)
        PROVE  CollectInv'
    <2>1. /\ rAt' = [rAt EXCEPT ![t] = "copy"]
          /\ rItem' = [rItem EXCEPT ![t] = eventsInProgress[f.ev]]
          /\ f.ev \in Events
          /\ UNCHANGED <<eventsInProgress, offered, collected, torn>>
      BY <1>2, FragmentsAssumption DEF JoinItem, Arrives, queueVars, gcVars, mapVars
    <2>. QED
      BY <2>1 DEF CollectInv, CollectedNotQueued, RecvInv, RecvType, Busy
  <1>3. ASSUME NEW t \in Threads, Copy(t) \/ Erase(t) \/ CallEnqueue(t)
        PROVE  CollectInv'
    <2>1. /\ rAt[t] \in Busy /\ UNCHANGED <<collected, torn>>
          /\ \A u \in Threads : rAt'[u] \in Busy => rAt[u] \in Busy /\ rItem'[u] = rItem[u]
          /\ \A e \in Events : eventsInProgress'[e] \in {eventsInProgress[e], NoItem}
          /\ offered' \in {offered, offered \cup {rItem[t]}}
      <3>1. CASE Copy(t)
        BY <3>1 DEF Copy, Busy, RecvInv, RecvType, gcVars, mapVars, queueVars
      <3>2. CASE Erase(t)
        BY <3>2 DEF Erase, Busy, RecvInv, RecvType, gcVars, queueVars
      <3>3. CASE CallEnqueue(t)
        BY <3>3 DEF CallEnqueue, Q!Offer, Busy, RecvInv, RecvType, gcVars, mapVars
      <3>. QED
        BY <1>3, <3>1, <3>2, <3>3
    <2>2. NoItem \notin collected
      BY MadeType DEF GCType
    <2>. QED
      BY <2>1, <2>2 DEF CollectInv, CollectedNotQueued
  <1>4. ASSUME NEW t \in Threads, Idling(t)
        PROVE  CollectInv'
    BY <1>4, IdlingEffect DEF CollectInv, CollectedNotQueued, gcVars, mapVars
  <1>5. ASSUME NEW e \in Events, GCCollect(e)
        PROVE  CollectInv'
    <2>. DEFINE b == eventsInProgress[e]
    <2>1. /\ b \in Made /\ Delete({b}) /\ UNCHANGED <<rAt, rItem, offered>>
          /\ eventsInProgress' = [eventsInProgress EXCEPT ![e] = NoItem]
      BY <1>5 DEF GCCollect, Expired, GCType, recvVars, queueVars
    <2>2. \A d \in Events : d # e => eventsInProgress[d] # b
      BY <2>1 DEF RecvInv, MapOwned
    <2>3. {b} \subseteq InProgress /\ NoItem # b
      BY <2>1, MadeType DEF InProgress
    <2>4. \A d \in Events : eventsInProgress'[d] \in {eventsInProgress[d], NoItem} \ {b}
      BY <2>1, <2>2, <2>3 DEF RecvInv, RecvType
    <2>. QED
      BY <2>1, <2>3, <2>4, CollectDeletes
  <1>6. ASSUME NEW t \in Threads, GCDrain(t)
        PROVE  CollectInv'
    <2>. DEFINE B == {eventsInProgress[e] : e \in {d \in Events : Route[d] = t}} \ {NoItem}
    <2>1. /\ Delete(B) /\ UNCHANGED <<rAt, rItem, offered>>
          /\ eventsInProgress' = [e \in Events |-> IF Route[e] = t THEN NoItem ELSE eventsInProgress[e]]
      BY <1>6 DEF GCDrain, recvVars, queueVars
    <2>2. B \subseteq Made /\ B \subseteq InProgress
      BY DEF RecvInv, RecvType, InProgress
    <2>3. \A d \in Events : Route[d] # t => eventsInProgress[d] \notin B
      <3>. SUFFICES ASSUME NEW d \in Events, Route[d] # t, NEW e \in Events, Route[e] = t,
                           eventsInProgress[e] # NoItem, eventsInProgress[d] = eventsInProgress[e]
                    PROVE  FALSE
        OBVIOUS
      <3>1. eventsInProgress[e] \in Made
        BY DEF RecvInv, RecvType
      <3>. QED
        BY <3>1 DEF RecvInv, MapOwned
    <2>. HIDE DEF B
    <2>4. NoItem \notin B
      BY <2>2, MadeType
    <2>5. \A d \in Events : eventsInProgress'[d] \in {eventsInProgress[d], NoItem} \ B
      BY <2>1, <2>3, <2>4
    <2>. QED
      BY <2>1, <2>2, <2>5, CollectDeletes
  <1>7. CASE Elsewhere
    BY <1>7, ElsewhereEffect DEF CollectInv, CollectedNotQueued, recvVars
  <1>. QED
    BY <1>1, <1>2, <1>3, <1>4, <1>5, <1>6, <1>7, StepCases

(* The collector deletes no buffer that goes into the queue, unless it takes it
   from under the receive thread that works on it. *)
THEOREM CollectedNotQueuedCorrect == SafeSpec => []CollectedNotQueued
<1>1. Init => CollectInv
  BY DEF Init, CollectInv, CollectedNotQueued, Busy
<1>2. RecvInv /\ GCType /\ CollectInv /\ [Next]_vars => CollectInv'
  BY CollectNext
<1>3. CollectInv => CollectedNotQueued
  BY DEF CollectInv
<1>. QED
  BY <1>1, <1>2, <1>3, GCCorrect, PTL DEF SafeSpec

-----------------------------------------------------------------------------
(* Statistics *)

(* Threads that have called enqueue() and not counted the event yet. *)
Uncounted == {t \in Threads : rAt[t] \in {"inqueue", "success"}}
AllLost   == UNION {lostEvents[t] : t \in Threads}

(* Counts of successes, refused events included, and of losses: each thread logs
   its own events. *)
SuccessInv == eventSuccess + Cardinality(Uncounted) = Cardinality(offered)

LossInv ==
  /\ \A t \in Threads : \A e \in lostEvents[t] : Route[e] = t
  /\ IsFiniteSet(AllLost) /\ enqueueLoss + reassemblyLoss = Cardinality(AllLost)

LEMMA OfferedFinite ==
  ASSUME RecvInv
  PROVE  /\ IsFiniteSet(offered) /\ Cardinality(offered) \in Nat
         /\ IsFiniteSet(Uncounted) /\ Cardinality(Uncounted) \in Nat
  <1>1. offered \in SUBSET (1 .. MaxItems)
    BY MadeType DEF RecvInv, RecvType
  <1>2. IsFiniteSet(1 .. MaxItems)
    BY FS_Interval, SizesAssumption
  <1>3. IsFiniteSet(offered)
    BY <1>1, <1>2, FS_Subset
  <1>4. IsFiniteSet(Uncounted)
    BY ThreadsAssumption, FS_Subset DEF Uncounted
  <1>. QED
    BY <1>3, <1>4, FS_CardinalityType

LEMMA SuccessNext ==
  ASSUME RecvInv, LossType, SuccessInv, [Next]_vars
  PROVE  SuccessInv'
  <1>1. CASE Uncounted' = Uncounted /\ UNCHANGED <<eventSuccess, offered>>
    BY <1>1 DEF SuccessInv
  <1>2. ASSUME NEW t \in Threads, CallEnqueue(t)
        PROVE  SuccessInv'
    <2>1. /\ rAt[t] = "enqueue" /\ rAt' = [rAt EXCEPT ![t] = "inqueue"]
          /\ offered' = offered \cup {rItem[t]} /\ rItem[t] \notin offered /\ UNCHANGED eventSuccess
      BY <1>2 DEF CallEnqueue, Q!Offer
    <2>2. Uncounted' = Uncounted \cup {t} /\ t \notin Uncounted
      BY <2>1 DEF Uncounted, RecvInv, RecvType
    <2>3. Cardinality(offered') = Cardinality(offered) + 1
      BY <2>1, OfferedFinite, FS_AddElement
    <2>4. Cardinality(Uncounted') = Cardinality(Uncounted) + 1
      BY <2>2, OfferedFinite, FS_AddElement
    <2>. QED
      BY <2>1, <2>3, <2>4, OfferedFinite DEF SuccessInv, LossType
  <1>3. ASSUME NEW t \in Threads, CountSuccess(t)
        PROVE  SuccessInv'
    <2>1. /\ rAt[t] = "success" /\ rAt' = [rAt EXCEPT ![t] = "select"]
          /\ eventSuccess' = eventSuccess + 1 /\ UNCHANGED offered
      BY <1>3 DEF CountSuccess, queueVars
    <2>2. Uncounted' = Uncounted \ {t} /\ t \in Uncounted
      BY <2>1 DEF Uncounted, RecvInv, RecvType
    <2>3. Cardinality(Uncounted') = Cardinality(Uncounted) - 1
      BY <2>2, OfferedFinite, FS_RemoveElement
    <2>. QED
      BY <2>1, <2>3, OfferedFinite DEF SuccessInv, LossType
  <1>4. ASSUME NEW t \in Threads, Enqueued(t) \/ EnqueueFailed(t) \/ InEnqueue(t)
        PROVE  SuccessInv'
    <2>1. /\ rAt[t] = "inqueue" /\ (rAt' = rAt \/ rAt' = [rAt EXCEPT ![t] = "success"])
          /\ UNCHANGED <<eventSuccess, offered>>
      <3>1. CASE Enqueued(t)
        BY <3>1 DEF Enqueued, Q!CountPush, RecvInv, AsProducer
      <3>2. CASE EnqueueFailed(t)
        BY <3>2 DEF EnqueueFailed, Q!Drop, RecvInv, AsProducer
      <3>3. CASE InEnqueue(t)
        BY <3>3 DEF InEnqueue, Q!PushAccepted, Q!PushRefused, RecvInv, AsProducer, recvVars
      <3>. QED
        BY <1>4, <3>1, <3>2, <3>3
    <2>2. Uncounted' = Uncounted
      BY <2>1 DEF Uncounted, RecvInv, RecvType
    <2>. QED
      BY <1>1, <2>1, <2>2
  <1>5. ASSUME NEW t \in Threads, Select(t) \/ EndPass(t) \/ RecvExit(t) \/ Copy(t) \/ Erase(t)
        PROVE  SuccessInv'
    <2>1. UNCHANGED <<eventSuccess, offered>>
      BY <1>5 DEF Select, EndPass, RecvExit, Copy, Erase, Q!ProducerExit, queueVars
    <2>2. /\ rAt[t] \notin {"inqueue", "success"}
          /\ \E p \in RecvPlaces \ {"inqueue", "success"} : rAt' = [rAt EXCEPT ![t] = p]
      BY <1>5 DEF Select, EndPass, RecvExit, Copy, Erase, RecvPlaces
    <2>3. Uncounted' = Uncounted
      BY <2>2 DEF Uncounted, RecvInv, RecvType
    <2>. QED
      BY <1>1, <2>1, <2>3
  <1>6. ASSUME NEW t \in Threads, NEW f \in Fragments, StartItem(t, f) \/ JoinItem(t, f)
        PROVE  SuccessInv'
    <2>1. rAt[t] = "select" /\ rAt' = [rAt EXCEPT ![t] = "copy"] /\ UNCHANGED <<eventSuccess, offered>>
      BY <1>6 DEF StartItem, JoinItem, Arrives, queueVars
    <2>2. Uncounted' = Uncounted
      BY <2>1 DEF Uncounted, RecvInv, RecvType
    <2>. QED
      BY <1>1, <2>1, <2>2
  <1>7. CASE (\E e \in Events : GCCollect(e)) \/ (\E t \in Threads : GCDrain(t)) \/ Elsewhere
    <2>1. UNCHANGED <<rAt, eventSuccess, offered>>
      BY <1>7, ElsewhereEffect DEF GCCollect, GCDrain, recvVars, queueVars
    <2>. QED
      BY <1>1, <2>1 DEF Uncounted
  <1>. QED
    BY <1>2, <1>3, <1>4, <1>5, <1>6, <1>7, StepCases DEF Idling

(* Logging a loss counts the event unless its thread has it logged already. *)
LEMMA LogCounts ==
  ASSUME LossType, LossInv, NEW t \in Threads, NEW e \in Events, Route[e] = t,
         NEW q \in BOOLEAN, LogLostEvent(t, e, q)
  PROVE  LossInv'
  <1>1. CASE e \in lostEvents[t]
    BY <1>1 DEF LogLostEvent, lostVars, LossInv, AllLost
  <1>2. CASE e \notin lostEvents[t]
    <2>1. lostEvents' = [lostEvents EXCEPT ![t] = @ \cup {e}]
      BY <1>2 DEF LogLostEvent
    <2>2. enqueueLoss' + reassemblyLoss' = enqueueLoss + reassemblyLoss + 1
      BY <1>2 DEF LogLostEvent, LossType
    <2>3. e \notin AllLost
      BY <1>2 DEF AllLost, LossInv
    <2>4. AllLost' = AllLost \cup {e}
      BY <2>1 DEF AllLost, LossType
    <2>5. IsFiniteSet(AllLost') /\ Cardinality(AllLost') = Cardinality(AllLost) + 1
      BY <2>3, <2>4, FS_AddElement DEF LossInv
    <2>6. \A u \in Threads : \A d \in lostEvents'[u] : Route[d] = u
      BY <2>1 DEF LossInv, LossType
    <2>. QED
      BY <2>2, <2>5, <2>6 DEF LossInv
  <1>. QED
    BY <1>1, <1>2

LEMMA LossNext ==
  ASSUME RecvInv, GCType, LossType, LossInv, [Next]_vars
  PROVE  LossInv'
  <1>1. CASE UNCHANGED <<lostEvents, enqueueLoss, reassemblyLoss>>
    BY <1>1 DEF LossInv, AllLost
  <1>2. ASSUME NEW t \in Threads, EnqueueFailed(t)
        PROVE  LossInv'
    <2>1. LogLostEvent(t, items[rItem[t]].ev, TRUE) /\ rAt[t] = "inqueue"
      BY <1>2 DEF EnqueueFailed, Q!Drop, RecvInv, AsProducer
    <2>2. items[rItem[t]].ev \in Events /\ Route[items[rItem[t]].ev] = t
      BY <2>1, MadeType DEF RecvInv, Hand
    <2>. QED
      BY <2>1, <2>2, LogCounts
  <1>3. ASSUME NEW e \in Events, GCCollect(e)
        PROVE  LossInv'
    <2>1. gThread \in Threads /\ Route[e] = gThread /\ LogLostEvent(gThread, e, FALSE)
      BY <1>3 DEF GCCollect, Expired, GCType
    <2>. QED
      BY <2>1, LogCounts
  <1>4. ASSUME NEW t \in Threads, Idling(t), ~EnqueueFailed(t)
        PROVE  UNCHANGED <<lostEvents, enqueueLoss, reassemblyLoss>>
    BY <1>4 DEF Idling, Select, EndPass, RecvExit, InEnqueue, Enqueued, CountSuccess, lostVars
  <1>5. ASSUME NEW t \in Threads, Copy(t) \/ Erase(t) \/ CallEnqueue(t) \/ GCDrain(t)
        PROVE  UNCHANGED <<lostEvents, enqueueLoss, reassemblyLoss>>
    BY <1>5 DEF Copy, Erase, CallEnqueue, GCDrain, lostVars
  <1>6. ASSUME NEW t \in Threads, NEW f \in Fragments, StartItem(t, f) \/ JoinItem(t, f)
        PROVE  UNCHANGED <<lostEvents, enqueueLoss, reassemblyLoss>>
    BY <1>6 DEF StartItem, JoinItem, lostVars
  <1>7. CASE Elsewhere
    BY <1>1, <1>7, ElsewhereEffect
  <1>. QED
    BY <1>1, <1>2, <1>3, <1>4, <1>5, <1>6, <1>7, StepCases

(* eventSuccess counts each event given to enqueue(), once, as long as enqueue()
   refuses none; enqueueLoss and reassemblyLoss together count each event logged
   as lost, once. *)
THEOREM StatsAgreeCorrect == SafeSpec => []StatsAgree
<1>1. Init => SuccessInv /\ LossInv
  <2>. SUFFICES ASSUME Init PROVE SuccessInv /\ LossInv
    OBVIOUS
  <2>. USE DEF Init, Q!Init
  <2>1. Uncounted = {} /\ AllLost = {} /\ offered = {}
    BY DEF Uncounted, AllLost
  <2>. QED
    BY <2>1, FS_EmptySet DEF SuccessInv, LossInv
<1>2. RecvInv /\ GCType /\ LossType /\ SuccessInv /\ LossInv /\ [Next]_vars => (SuccessInv /\ LossInv)'
  BY SuccessNext, LossNext
<1>3. SuccessInv /\ LossInv => StatsAgree
  BY DEF SuccessInv, LossInv, StatsAgree, Uncounted, AllLost
<1>. QED
  BY <1>1, <1>2, <1>3, GCCorrect, PTL DEF SafeSpec

-----------------------------------------------------------------------------
(* Complete events *)

(* What was enqueued, or is on the way there, has as many bytes counted as its
   event is long. *)
Counted(b) == items[b].curBytes = Bytes[items[b].ev]

FullInv ==
  /\ \A b \in offered : Counted(b)
  /\ \A t \in Threads : rAt[t] \in {"erase", "enqueue"} => Counted(rItem[t])

LEMMA FullNext ==
  ASSUME RecvInv, FullInv, [Next]_vars
  PROVE  FullInv'
  <1>1. ASSUME NEW t \in Threads, NEW f \in Fragments, StartItem(t, f)
        PROVE  FullInv'
    <2>1. /\ \A b \in Made : items'[b] = items[b]
          /\ rAt' = [rAt EXCEPT ![t] = "copy"] /\ rItem' = [rItem EXCEPT ![t] = Len(items) + 1]
          /\ UNCHANGED offered
      BY <1>1, StartItemEffect DEF StartItem, Arrives, queueVars
    <2>2. \A u \in Threads : rAt'[u] \in {"erase", "enqueue"} =>
            rAt[u] = rAt'[u] /\ rItem'[u] = rItem[u] /\ rItem[u] \in Made
      BY <2>1 DEF RecvInv, RecvType, Hand
    <2>3. offered \subseteq Made
      BY DEF RecvInv, RecvType
    <2>. QED
      BY <2>1, <2>2, <2>3 DEF FullInv, Counted
  <1>2. ASSUME NEW t \in Threads, NEW f \in Fragments, JoinItem(t, f)
        PROVE  FullInv'
    <2>1. /\ rAt' = [rAt EXCEPT ![t] = "copy"]
          /\ rItem' = [rItem EXCEPT ![t] = eventsInProgress[f.ev]]
          /\ UNCHANGED <<offered, items>>
      BY <1>2 DEF JoinItem, Arrives, queueVars
    <2>. QED
      BY <2>1 DEF FullInv, Counted, RecvInv, RecvType
  <1>3. ASSUME NEW t \in Threads, Copy(t)
        PROVE  FullInv'
    <2>. DEFINE b == rItem[t]
                f == rFrag[t]
    <2>1. /\ b \in Made /\ \A c \in Made : c # b => items'[c] = items[c]
          /\ items'[b].ev = items[b].ev /\ items'[b].curBytes = items[b].curBytes + f.len
          /\ items[b].ev = f.ev
      BY <1>3, CopyEffect
    <2>2. /\ rAt[t] = "copy"
          /\ \/ /\ rAt' = [rAt EXCEPT ![t] = "erase"] /\ rItem' = [rItem EXCEPT ![t] = b]
                /\ items[b].curBytes + f.len = Bytes[f.ev]
             \/ /\ rAt' = [rAt EXCEPT ![t] = "select"] /\ rItem' = [rItem EXCEPT ![t] = NoItem]
          /\ UNCHANGED offered
      BY <1>3 DEF Copy, queueVars
    <2>3. offered \subseteq Made /\ b \notin offered
      BY <2>2 DEF RecvInv, RecvType, NotYetOffered, Busy
    <2>4. ASSUME NEW u \in Threads, rAt'[u] \in {"erase", "enqueue"}
          PROVE  Counted(rItem[u])' /\ rItem'[u] = rItem[u]
      <3>1. CASE u = t
        BY <2>1, <2>2, <2>4, <3>1 DEF Counted, RecvInv, RecvType
      <3>2. CASE u # t
        <4>1. rAt[u] = rAt'[u] /\ rItem'[u] = rItem[u]
          BY <2>2, <3>2 DEF RecvInv, RecvType
        <4>2. /\ rItem[u] \in Made /\ Route[items[rItem[u]].ev] = u
              /\ Route[items[b].ev] = t
          BY <2>2, <2>4, <4>1 DEF RecvInv, Hand
        <4>3. rItem[u] # b
          BY <3>2, <4>2
        <4>. QED
          BY <2>1, <2>4, <4>1, <4>2, <4>3 DEF FullInv, Counted
      <3>. QED
        BY <3>1, <3>2
    <2>. HIDE DEF b
    <2>5. \A c \in offered : Counted(c)'
      BY <2>1, <2>3 DEF FullInv, Counted
    <2>. QED
      BY <2>2, <2>4, <2>5 DEF FullInv, Counted
  <1>4. ASSUME NEW t \in Threads, Erase(t)
        PROVE  FullInv'
    <2>1. /\ rAt[t] = "erase" /\ rAt' = [rAt EXCEPT ![t] = "enqueue"]
          /\ UNCHANGED <<offered, items, rItem>>
      BY <1>4 DEF Erase, queueVars
    <2>. QED
      BY <2>1 DEF FullInv, Counted, RecvInv, RecvType
  <1>5. ASSUME NEW t \in Threads, CallEnqueue(t)
        PROVE  FullInv'
    <2>1. /\ rAt[t] = "enqueue" /\ rAt' = [rAt EXCEPT ![t] = "inqueue"]
          /\ offered' = offered \cup {rItem[t]} /\ UNCHANGED <<items, rItem>>
      BY <1>5 DEF CallEnqueue, Q!Offer
    <2>2. \A b : Counted(b)' <=> Counted(b)
      BY <2>1 DEF Counted
    <2>3. \A u \in Threads : rAt'[u] \in {"erase", "enqueue"} => rAt'[u] = rAt[u]
      BY <2>1 DEF RecvInv, RecvType
    <2>. QED
      BY <2>1, <2>2, <2>3 DEF FullInv
  <1>6. ASSUME NEW t \in Threads, Idling(t)
        PROVE  FullInv'
    BY <1>6, IdlingEffect DEF FullInv, Counted, Busy
  <1>7. CASE (\E e \in Events : GCCollect(e)) \/ (\E t \in Threads : GCDrain(t)) \/ Elsewhere
    <2>1. UNCHANGED <<recvVars, offered>>
      BY <1>7, ElsewhereEffect DEF GCCollect, GCDrain, queueVars
    <2>. QED
      BY <2>1 DEF FullInv, Counted, recvVars
  <1>. QED
    BY <1>1, <1>2, <1>3, <1>4, <1>5, <1>6, <1>7, StepCases

LEMMA FullCorrect == SafeSpec => []FullInv
<1>1. Init => FullInv
  BY DEF Init, Q!Init, FullInv
<1>. QED
  BY <1>1, FullNext, RecvCorrect, PTL DEF SafeSpec

(* An item with each of its bytes counted once has all of them. *)
LEMMA CountedIsWhole ==
  ASSUME RecvInv, NEW b \in Made, Counted(b), Cardinality(items[b].got) = items[b].curBytes
  PROVE  Whole(b)
  <1>. DEFINE n == Bytes[items[b].ev]
  <1>1. n \in Nat /\ items[b].got \in SUBSET (0 .. (n - 1))
    BY MadeType, BytesAssumption DEF RecvInv, RecvType
  <1>2. Cardinality(items[b].got) = n
    BY DEF Counted
  <1>. HIDE DEF n
  <1>3. IsFiniteSet(0 .. (n - 1)) /\ Cardinality(0 .. (n - 1)) = n
    <2>. DEFINE m == n - 1
    <2>1. m \in Int /\ n = IF 0 > m THEN 0 ELSE m - 0 + 1
      BY <1>1
    <2>. HIDE DEF m
    <2>2. IsFiniteSet(0 .. m) /\ Cardinality(0 .. m) = IF 0 > m THEN 0 ELSE m - 0 + 1
      BY <2>1, FS_Interval
    <2>. QED
      BY <2>1, <2>2 DEF m
  <1>4. items[b].got = 0 .. (n - 1)
    BY <1>1, <1>2, <1>3, FS_Subset
  <1>. QED
    BY <1>4 DEF Whole, n

(* An event in the queue or beyond has all its bytes, unless some of them were
   counted twice. *)
THEOREM QueuedIsWholeCorrect == SafeSpec => []QueuedIsWhole
<1>1. RecvInv /\ FullInv => QueuedIsWhole
  BY CountedIsWhole DEF QueuedIsWhole, FullInv, RecvInv, RecvType
<1>. QED
  BY <1>1, FullCorrect, RecvCorrect, PTL
=============================================================================
