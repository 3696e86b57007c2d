--------------------- MODULE ReassemblerDeliveryProofs ---------------------
(***************************************************************************)
(* Proofs about what becomes of the fragments and the events of the        *)
(* Reassembler: where the network duplicates no fragment, what is enqueued *)
(* is whole and what is lost is not delivered; where it keeps the order of *)
(* an event's fragments too, no event buffer is left behind, before        *)
(* stopThreads() or after it.                                              *)
(***************************************************************************)
EXTENDS ReassemblerProofs

-----------------------------------------------------------------------------
(* Fragments and bytes *)

(* A fragment is on the network, in a receive thread's hands or copied. *)
FragInv ==
  /\ \A f \in Fragments : net[f] \in {0, 1} /\ (f \in handled => net[f] = 0)
  /\ \A t \in Threads : rAt[t] = "copy" => net[rFrag[t]] = 0 /\ rFrag[t] \notin handled

(* The bytes of an item are those of fragments that were copied, each counted
   once, and in no other item; an item without bytes is about to get some. *)
BytesInv ==
  /\ \A b \in Made : \A x \in items[b].got :
       \E h \in handled : h.ev = items[b].ev /\ x \in Span(h)
  /\ \A b \in Made : Cardinality(items[b].got) = items[b].curBytes
  /\ \A b, c \in Made : b # c /\ items[b].ev = items[c].ev => items[b].got \cap items[c].got = {}
  /\ \A b \in Made : items[b].got # {} \/ \E t \in Threads : rAt[t] = "copy" /\ rItem[t] = b

(* An event is lost with one of its items: collected, or refused by the queue. *)
LostInv ==
  \A t \in Threads : \A e \in lostEvents[t] :
    \E c \in Made : items[c].ev = e /\ c \in collected \cup dropped

(* An event's first fragment comes before there is an item of it in the map. *)
FirstInv ==
  \A f \in Fragments : f.off = 0 /\ net[f] > 0 => eventsInProgress[f.ev] = NoItem

(* A thread that lets go of an item leaves it in the map, to the collector or
   to the queue. *)
LeaveInv ==
  /\ \A t \in Threads :
       rAt[t] \in {"copy", "erase"} /\ eventsInProgress[items[rItem[t]].ev] # rItem[t]
         => rItem[t] \in collected
  /\ \A t \in Threads : rAt[t] \in {"inqueue", "success"} => rItem[t] \in offered

(* What is in the map of a thread that the collector has drained is late. *)
DrainInv ==
  \A e \in Events :
    gAt = "done" \/ (gAt = "drain" /\ Route[e] \notin gLeft)
      => eventsInProgress[e] \in late \cup {NoItem}

(* stopThreads() returns after its threads and the collector. *)
ReturnInv == stopReturned => stopAt = "stopped" /\ gAt = "done"

(* Until it is lost or the maps are drained, an event is whole, or all that was
   copied of it is in the item in the map. *)
ArrivedInv ==
  /\ \A c \in collected : items[c].ev \in lostEvents[Route[items[c].ev]] \/ gAt \in {"drain", "done"}
  /\ \A e \in Events : e \notin lostEvents[Route[e]] /\ gAt \notin {"drain", "done"} =>
       \/ \E b \in Made : items[b].ev = e /\ Whole(b)
       \/ \A f \in handled : f.ev = e =>
            eventsInProgress[e] \in Made /\ Span(f) \subseteq items[eventsInProgress[e]].got

-----------------------------------------------------------------------------
(* Steps that copy no fragment and take none off the network. *)
CopyIdle ==
  /\ UNCHANGED <<items, rFrag, handled>>
  /\ \A t \in Threads : /\ rAt'[t] = "copy" <=> rAt[t] = "copy"
                        /\ rAt[t] = "copy" => rItem'[t] = rItem[t]
  /\ net' = net \/ \E f \in Fragments : Lose(f) \/ Duplicate(f)

LEMMA CopyCases ==
  ASSUME RecvInv, [Next]_vars
  PROVE  \/ \E t \in Threads, f \in Fragments : StartItem(t, f) \/ JoinItem(t, f)
         \/ \E t \in Threads : Copy(t)
         \/ CopyIdle
  <1>1. ASSUME NEW t \in Threads, Erase(t) \/ CallEnqueue(t)
        PROVE  CopyIdle
    BY <1>1 DEF CopyIdle, Erase, CallEnqueue, RecvInv, RecvType, netVars
  <1>2. ASSUME NEW t \in Threads, Idling(t)
        PROVE  CopyIdle
    BY <1>2, IdlingEffect DEF CopyIdle, Busy, netVars
  <1>3. CASE (\E e \in Events : GCCollect(e)) \/ (\E t \in Threads : GCDrain(t))
    BY <1>3 DEF GCCollect, GCDrain, CopyIdle, recvVars, netVars
  <1>4. CASE Elsewhere
    <2>1. UNCHANGED recvVars
      BY <1>4, ElsewhereEffect
    <2>2. CASE \E f \in Fragments : Lose(f) \/ Duplicate(f)
      BY <2>1, <2>2 DEF CopyIdle, recvVars
    <2>3. CASE ~\E f \in Fragments : Lose(f) \/ Duplicate(f)
      <3>1. net' = net
        BY <1>4, <2>3, QueueSideSteps
           DEF Elsewhere, Age, GCPass, GCUnlock, GCStop, GCLock, GetLostEvent, StopReturn, vars, netVars,
               NotQueue
      <3>. QED
        BY <2>1, <3>1 DEF CopyIdle, recvVars
    <2>. QED
      BY <2>2, <2>3
  <1>. QED
    BY <1>1, <1>2, <1>3, <1>4, StepCases

(* A fragment that arrives was on the network and goes to its event's thread. *)
LEMMA ArrivesEffect ==
  ASSUME RecvInv, NEW t \in Threads, NEW f \in Fragments, StartItem(t, f) \/ JoinItem(t, f)
  PROVE  /\ rAt[t] = "select" /\ rAt' = [rAt EXCEPT ![t] = "copy"] /\ rFrag' = [rFrag EXCEPT ![t] = f]
         /\ net[f] > 0 /\ net' = [net EXCEPT ![f] = @ - 1] /\ Route[f.ev] = t /\ f.ev \in Events
         /\ Ordered => \A g \in Fragments : g.ev = f.ev /\ g.off < f.off => net[g] = 0
         /\ gThread # t
         /\ UNCHANGED <<dups, handled, gcVars, lostVars, stopReturned, queueVars>>
  BY FragmentsAssumption DEF StartItem, JoinItem, Arrives, recvVars

LEMMA FragNext ==
  ASSUME RecvInv, NetType, FragInv, MaxDups = 0, [Next]_vars
  PROVE  FragInv'
  <1>1. ASSUME NEW t \in Threads, NEW f \in Fragments, StartItem(t, f) \/ JoinItem(t, f)
        PROVE  FragInv'
    <2>1. /\ rAt' = [rAt EXCEPT ![t] = "copy"] /\ rFrag' = [rFrag EXCEPT ![t] = f]
          /\ net[f] > 0 /\ net' = [net EXCEPT ![f] = @ - 1] /\ UNCHANGED handled
      BY <1>1, ArrivesEffect
    <2>2. net[f] = 1 /\ f \notin handled
      BY <2>1 DEF FragInv
    <2>3. \A g \in Fragments : net'[g] = IF g = f THEN 0 ELSE net[g]
      BY <2>1, <2>2 DEF NetType
    <2>4. \A u \in Threads : /\ rFrag'[u] = IF u = t THEN f ELSE rFrag[u]
                             /\ u # t => rAt'[u] = rAt[u]
      BY <2>1 DEF RecvInv, RecvType
    <2>5. \A u \in Threads : rAt[u] = "copy" => rFrag[u] \in Fragments
      BY DEF RecvInv, Hand
    <2>. QED
      BY <2>1, <2>2, <2>3, <2>4, <2>5 DEF FragInv
  <1>2. ASSUME NEW t \in Threads, Copy(t)
        PROVE  FragInv'
    <2>. DEFINE f == rFrag[t]
    <2>1. /\ rAt[t] = "copy" /\ handled' = handled \cup {f} /\ UNCHANGED net
          /\ \A u \in Threads : rAt'[u] = "copy" => u # t /\ rAt[u] = "copy" /\ rFrag'[u] = rFrag[u]
      BY <1>2 DEF Copy, netVars, RecvInv, RecvType
    <2>2. \A u \in Threads : u # t /\ rAt[u] = "copy" => rFrag[u] # f
      BY <2>1 DEF RecvInv, Hand
    <2>. HIDE DEF f
    <2>3. net[f] = 0
      BY <2>1 DEF FragInv, f
    <2>. QED
      BY <2>1, <2>2, <2>3 DEF FragInv
  <1>3. CASE CopyIdle
    <2>1. /\ UNCHANGED <<rFrag, handled>>
          /\ \A u \in Threads : rAt'[u] = "copy" => rAt[u] = "copy"
      BY <1>3 DEF CopyIdle
    <2>2. \A f \in Fragments : net'[f] = net[f] \/ (net[f] = 1 /\ net'[f] = 0)
      <3>1. CASE net' = net
        BY <3>1
      <3>2. ASSUME NEW f \in Fragments, Lose(f)
            PROVE  \A g \in Fragments : net'[g] = net[g] \/ (net[g] = 1 /\ net'[g] = 0)
        <4>1. net[f] = 1 /\ net' = [net EXCEPT ![f] = @ - 1]
          BY <3>2 DEF Lose, FragInv
        <4>. QED
          BY <4>1 DEF NetType
      <3>3. \A f \in Fragments : ~Duplicate(f)
        BY DEF Duplicate, NetType
      <3>. QED
        BY <1>3, <3>1, <3>2, <3>3 DEF CopyIdle
    <2>3. \A u \in Threads : rAt[u] = "copy" => rFrag[u] \in Fragments
      BY DEF RecvInv, Hand
    <2>. QED
      BY <2>1, <2>2, <2>3 DEF FragInv
  <1>. QED
    BY <1>1, <1>2, <1>3, CopyCases

(* The fragments of an event share no byte. *)
LEMMA SpansDisjoint ==
  ASSUME NEW f \in Fragments, NEW g \in Fragments, f.ev = g.ev, NEW x \in Span(f) \cap Span(g)
  PROVE  f = g
  BY TilingAssumption

LEMMA SpanNonempty ==
  ASSUME NEW f \in Fragments
  PROVE  f.off \in Span(f) /\ Span(f) \subseteq 0 .. (Bytes[f.ev] - 1)
  BY FragmentsAssumption, BytesAssumption DEF Span

LEMMA SpanCardinality ==
  ASSUME NEW f \in Fragments
  PROVE  IsFiniteSet(Span(f)) /\ Cardinality(Span(f)) = f.len
  <1>. DEFINE m == f.off + f.len - 1
              k == f.off
  <1>1. m \in Int /\ k \in Int /\ f.len = IF k > m THEN 0 ELSE m - k + 1
    BY FragmentsAssumption
  <1>2. Span(f) = k .. m
    BY DEF Span
  <1>. HIDE DEF m, k
  <1>3. IsFiniteSet(k .. m) /\ Cardinality(k .. m) = IF k > m THEN 0 ELSE m - k + 1
    BY <1>1, FS_Interval
  <1>. QED
    BY <1>1, <1>2, <1>3

(* The bytes of a fragment that was not copied yet are in no item of its event. *)
LEMMA NotCopiedYet ==
  ASSUME RecvInv, GCType, BytesInv, NEW f \in Fragments, f \notin handled,
         NEW b \in Made, items[b].ev = f.ev
  PROVE  items[b].got \cap Span(f) = {}
  <1>. SUFFICES ASSUME NEW x \in items[b].got, x \in Span(f) PROVE FALSE
    OBVIOUS
  <1>1. PICK h \in handled : h.ev = items[b].ev /\ x \in Span(h)
    BY DEF BytesInv
  <1>2. h \in Fragments
    BY DEF GCType
  <1>. QED
    BY <1>1, <1>2, SpansDisjoint

LEMMA GotFinite ==
  ASSUME RecvInv, NEW b \in Made
  PROVE  IsFiniteSet(items[b].got) /\ Cardinality(items[b].got) \in Nat
  <1>. DEFINE n == Bytes[items[b].ev] - 1
  <1>1. n \in Int /\ items[b].got \in SUBSET (0 .. n)
    BY MadeType, BytesAssumption DEF RecvInv, RecvType
  <1>. HIDE DEF n
  <1>2. IsFiniteSet(0 .. n)
    BY <1>1, FS_Interval
  <1>3. IsFiniteSet(items[b].got)
    BY <1>1, <1>2, FS_Subset
  <1>. QED
    BY <1>3, FS_CardinalityType

LEMMA BytesNext ==
  ASSUME RecvInv, GCType, FragInv, BytesInv, [Next]_vars
  PROVE  BytesInv'
  <1>1. ASSUME NEW t \in Threads, NEW f \in Fragments, StartItem(t, f)
        PROVE  BytesInv'
    <2>. DEFINE n == Len(items) + 1
    <2>1. /\ n \notin Made /\ Made' = Made \cup {n} /\ \A b \in Made : items'[b] = items[b]
          /\ items'[n] = [ev |-> f.ev, curBytes |-> 0, got |-> {}]
      BY <1>1, StartItemEffect
    <2>2. /\ rAt[t] = "select" /\ rAt' = [rAt EXCEPT ![t] = "copy"]
          /\ rItem' = [rItem EXCEPT ![t] = n] /\ UNCHANGED handled
      BY <1>1, ArrivesEffect DEF StartItem
    <2>. HIDE DEF n
    <2>3. items'[n].got = {} /\ items'[n].curBytes = 0
      BY <2>1
    <2>4. \A b \in Made' : Cardinality(items'[b].got) = items'[b].curBytes
      BY <2>1, <2>3, FS_EmptySet DEF BytesInv
    <2>5. \A b \in Made' : \A x \in items'[b].got :
            \E h \in handled' : h.ev = items'[b].ev /\ x \in Span(h)
      BY <2>1, <2>2, <2>3 DEF BytesInv
    <2>6. \A b, c \in Made' : b # c /\ items'[b].ev = items'[c].ev => items'[b].got \cap items'[c].got = {}
      BY <2>1, <2>3 DEF BytesInv
    <2>7. \A b \in Made' : items'[b].got # {} \/ \E u \in Threads : rAt'[u] = "copy" /\ rItem'[u] = b
      <3>1. rAt'[t] = "copy" /\ rItem'[t] = n
        BY <2>2 DEF RecvInv, RecvType
      <3>2. \A u \in Threads : rAt[u] = "copy" => rAt'[u] = "copy" /\ rItem'[u] = rItem[u]
        BY <2>2 DEF RecvInv, RecvType
      <3>. QED
        BY <2>1, <3>1, <3>2 DEF BytesInv
    <2>. QED
      BY <2>4, <2>5, <2>6, <2>7 DEF BytesInv
  <1>2. ASSUME NEW t \in Threads, NEW f \in Fragments, JoinItem(t, f)
        PROVE  BytesInv'
    <2>1. /\ rAt[t] = "select" /\ rAt' = [rAt EXCEPT ![t] = "copy"]
          /\ rItem' = [rItem EXCEPT ![t] = eventsInProgress[f.ev]] /\ UNCHANGED <<handled, items>>
      BY <1>2, ArrivesEffect DEF JoinItem
    <2>2. \A u \in Threads : rAt[u] = "copy" => rAt'[u] = "copy" /\ rItem'[u] = rItem[u]
      BY <2>1 DEF RecvInv, RecvType
    <2>. QED
      BY <2>1, <2>2 DEF BytesInv, Made
  <1>3. ASSUME NEW t \in Threads, Copy(t)
        PROVE  BytesInv'
    <2>. DEFINE b == rItem[t]
                f == rFrag[t]
    <2>1. /\ b \in Made /\ f \in Fragments /\ items[b].ev = f.ev
          /\ items' \in Seq(Record) /\ Len(items') = Len(items) /\ Made' = Made
          /\ \A c \in Made : c # b => items'[c] = items[c]
          /\ \A c \in Made : items'[c].ev = items[c].ev
          /\ items'[b].curBytes = items[b].curBytes + f.len
          /\ items'[b].got = items[b].got \cup Span(f)
      BY <1>3, CopyEffect
    <2>2. f \notin handled /\ handled' = handled \cup {f} /\ rAt[t] = "copy"
      BY <1>3 DEF Copy, FragInv
    <2>3. \A u \in Threads : u # t /\ rAt[u] = "copy" => rAt'[u] = "copy" /\ rItem'[u] = rItem[u]
      BY <1>3 DEF Copy, RecvInv, RecvType
    <2>. HIDE DEF b, f
    <2>4. \A c \in Made : items[c].ev = f.ev => items[c].got \cap Span(f) = {}
      BY <2>1, <2>2, NotCopiedYet
    <2>5. Cardinality(items'[b].got) = items'[b].curBytes
      <3>1. items[b].got \cap Span(f) = {} /\ IsFiniteSet(items[b].got)
            /\ IsFiniteSet(Span(f)) /\ Cardinality(Span(f)) = f.len
        BY <2>1, <2>4, GotFinite, SpanCardinality
      <3>2. Cardinality(items[b].got \cup Span(f))
              = Cardinality(items[b].got) + Cardinality(Span(f)) - Cardinality(items[b].got \cap Span(f))
        BY <3>1, FS_Union
      <3>3. Cardinality(items[b].got \cap Span(f)) = 0
        BY <3>1, FS_EmptySet
      <3>4. Cardinality(items[b].got) = items[b].curBytes /\ items[b].curBytes \in Nat /\ f.len \in Nat
        BY <2>1, MadeType, FragmentsAssumption DEF BytesInv
      <3>. QED
        BY <2>1, <3>1, <3>2, <3>3, <3>4
    <2>6. \A c \in Made' : Cardinality(items'[c].got) = items'[c].curBytes
      BY <2>1, <2>5 DEF BytesInv
    <2>7. \A c \in Made' : \A x \in items'[c].got :
            \E h \in handled' : h.ev = items'[c].ev /\ x \in Span(h)
      <3>1. ASSUME NEW c \in Made, c # b, NEW x \in items'[c].got
            PROVE  \E h \in handled' : h.ev = items'[c].ev /\ x \in Span(h)
        BY <2>1, <2>2, <3>1 DEF BytesInv
      <3>2. ASSUME NEW x \in items'[b].got
            PROVE  \E h \in handled' : h.ev = items'[b].ev /\ x \in Span(h)
        BY <2>1, <2>2, <3>2 DEF BytesInv
      <3>. QED
        BY <2>1, <3>1, <3>2
    <2>8. \A c, d \in Made' : c # d /\ items'[c].ev = items'[d].ev => items'[c].got \cap items'[d].got = {}
      <3>1. ASSUME NEW c \in Made, c # b, items[c].ev = items[b].ev
            PROVE  items'[c].got \cap items'[b].got = {}
        <4>1. items[c].got \cap items[b].got = {}
          BY <2>1, <3>1 DEF BytesInv
        <4>. QED
          BY <2>1, <2>4, <3>1, <4>1
      <3>2. ASSUME NEW c \in Made, NEW d \in Made, c # d, c # b, d # b, items[c].ev = items[d].ev
            PROVE  items'[c].got \cap items'[d].got = {}
        BY <2>1, <3>2 DEF BytesInv
      <3>. QED
        BY <2>1, <3>1, <3>2
    <2>9. \A c \in Made' : items'[c].got # {} \/ \E u \in Threads : rAt'[u] = "copy" /\ rItem'[u] = c
      <3>1. items'[b].got # {}
        BY <2>1, SpanNonempty
      <3>2. \A u \in Threads : rItem[u] # b => u # t
        BY DEF b
      <3>3. ASSUME NEW c \in Made, c # b
            PROVE  items'[c].got # {} \/ \E u \in Threads : rAt'[u] = "copy" /\ rItem'[u] = c
        <4>1. items'[c].got = items[c].got
          BY <2>1, <3>3
        <4>. QED
          BY <2>3, <3>2, <3>3, <4>1 DEF BytesInv
      <3>. QED
        BY <2>1, <3>1, <3>3
    <2>. QED
      BY <2>6, <2>7, <2>8, <2>9 DEF BytesInv
  <1>4. CASE CopyIdle
    BY <1>4 DEF CopyIdle, BytesInv, Made
  <1>. QED
    BY <1>1, <1>2, <1>3, <1>4, CopyCases

(* What is proved of every network. *)
AnyNet == RecvInv /\ NetType /\ GCType /\ LossType /\ CollectInv /\ FullInv

LEMMA AnyNetCorrect == SafeSpec => []AnyNet
<1>1. TypeOK => NetType
  BY DEF TypeOK, NetType
<1>2. Init => CollectInv
  BY DEF Init, CollectInv, CollectedNotQueued, Busy
<1>3. RecvInv /\ GCType /\ CollectInv /\ [Next]_vars => CollectInv'
  BY CollectNext
<1>. QED
  BY <1>1, <1>2, <1>3, TypeCorrect, GCCorrect, FullCorrect, PTL DEF SafeSpec, AnyNet

(* What is proved of a network that duplicates no fragment. *)
LEMMA FragCorrect == MaxDups = 0 => (SafeSpec => [](FragInv /\ BytesInv))
<1>. SUFFICES ASSUME MaxDups = 0 PROVE SafeSpec => [](FragInv /\ BytesInv)
  OBVIOUS
<1>1. Init => FragInv /\ BytesInv
  BY DEF Init, FragInv, BytesInv, Made
<1>2. AnyNet /\ FragInv /\ BytesInv /\ [Next]_vars => (FragInv /\ BytesInv)'
  BY FragNext, BytesNext DEF AnyNet
<1>. QED
  BY <1>1, <1>2, AnyNetCorrect, PTL DEF SafeSpec

LEMMA OfferedWhole ==
  ASSUME AnyNet, BytesInv, NEW b \in offered
  PROVE  b \in Made /\ Whole(b)
  BY CountedIsWhole DEF AnyNet, BytesInv, FullInv, RecvInv, RecvType

(* Where no fragment is duplicated, every event in the queue or beyond has all
   its bytes, each from the one fragment that carries it. *)
THEOREM QueuedWithoutDuplicates ==
  MaxDups = 0 => (SafeSpec => [](\A b \in offered : Whole(b)))
<1>. SUFFICES ASSUME MaxDups = 0 PROVE SafeSpec => [](\A b \in offered : Whole(b))
  OBVIOUS
<1>1. AnyNet /\ BytesInv => \A b \in offered : Whole(b)
  BY OfferedWhole
<1>. QED
  BY <1>1, AnyNetCorrect, FragCorrect, PTL

-----------------------------------------------------------------------------
(* Lost and delivered *)

LEMMA DroppedGrows ==
  ASSUME RecvInv, [Next]_vars
  PROVE  /\ offered \subseteq offered' /\ dropped \subseteq dropped'
         /\ delivered \subseteq delivered' /\ drained \subseteq drained'
  <1>1. [Q!Next]_(Q!vars)
    BY QueueStep
  <1>2. CASE UNCHANGED Q!vars
    BY <1>2 DEF Q!vars
  <1>3. ASSUME NEW p \in Threads,
               (\E i \in 1 .. MaxItems : Q!Offer(p, i)) \/ Q!Enqueue(p) \/ Q!ProducerExit(p)
        PROVE  /\ offered \subseteq offered' /\ dropped \subseteq dropped'
               /\ delivered \subseteq delivered' /\ drained \subseteq drained'
    BY <1>3 DEF Q!Offer, Q!Enqueue, Q!PushAccepted, Q!PushRefused, Q!CountPush, Q!Drop, Q!ProducerExit,
                Q!consumerVars, Q!stopVars
  <1>4. ASSUME NEW c \in Consumers, Q!Call(c) \/ Q!Dequeue(c) \/ Q!Wait(c) \/ Q!WaitTimeout(c) \/ Q!GiveUp(c)
        PROVE  /\ offered \subseteq offered' /\ dropped \subseteq dropped'
               /\ delivered \subseteq delivered' /\ drained \subseteq drained'
    BY <1>4 DEF Q!Call, Q!Dequeue, Q!Pop, Q!PopEmpty, Q!Return, Q!Wait, Q!WaitTimeout, Q!GiveUp,
                Q!producerVars, Q!stopVars
  <1>5. CASE Q!Sample \/ Q!Report \/ Q!SendStateExit \/ Q!StopThreads \/ Q!Drain
    BY <1>5 DEF Q!Sample, Q!Report, Q!SendStateExit, Q!StopThreads, Q!Drain, Q!JoinThreads, Q!DrainPop,
                Q!DrainEnd, Q!producerVars, Q!consumerVars, Q!stopVars
  <1>. QED
    BY <1>1, <1>2, <1>3, <1>4, <1>5 DEF Q!Next

LEMMA CollectedGrows ==
  ASSUME [Next]_vars
  PROVE  collected \subseteq collected' /\ torn \subseteq torn'
  <1>1. CASE \E t \in Threads, f \in Fragments : StartItem(t, f) \/ JoinItem(t, f)
    BY <1>1 DEF StartItem, JoinItem, gcVars
  <1>2. CASE \E t \in Threads : Copy(t) \/ Erase(t) \/ CallEnqueue(t) \/ Idling(t)
    BY <1>2 DEF Copy, Erase, CallEnqueue, Idling, Select, EndPass, RecvExit, InEnqueue, Enqueued,
                EnqueueFailed, CountSuccess, gcVars
  <1>3. CASE (\E e \in Events : GCCollect(e)) \/ (\E t \in Threads : GCDrain(t))
    BY <1>3 DEF GCCollect, GCDrain, Delete
  <1>. QED
    BY <1>1, <1>2, <1>3, ElsewhereEffect, StepCases

(* Logging one more event of thread t as lost. *)
LEMMA LogAdds ==
  ASSUME LossType, NEW t \in Threads, NEW e \in Events, NEW q \in BOOLEAN, LogLostEvent(t, e, q)
  PROVE  lostEvents' = [lostEvents EXCEPT ![t] = @ \cup {e}]
  <1>1. CASE e \in lostEvents[t]
    <2>1. lostEvents[t] \cup {e} = lostEvents[t] /\ lostEvents' = lostEvents
      BY <1>1 DEF LogLostEvent, lostVars
    <2>. QED
      BY <2>1 DEF LossType
  <1>2. CASE e \notin lostEvents[t]
    BY <1>2 DEF LogLostEvent
  <1>. QED
    BY <1>1, <1>2

LEMMA LostNext ==
  ASSUME AnyNet, LostInv, [Next]_vars
  PROVE  LostInv'
  <1>. USE DEF AnyNet
  <1>1. /\ Made \subseteq Made' /\ \A b \in Made : items'[b].ev = items[b].ev
        /\ collected \cup dropped \subseteq collected' \cup dropped'
    BY MadeGrows, DroppedGrows, CollectedGrows
  <1>2. CASE UNCHANGED lostEvents
    BY <1>1, <1>2 DEF LostInv
  <1>3. ASSUME NEW t \in Threads, NEW e \in Events, NEW c \in Made,
               lostEvents' = [lostEvents EXCEPT ![t] = @ \cup {e}],
               items[c].ev = e, c \in collected' \cup dropped'
        PROVE  LostInv'
    <2>1. \A u \in Threads : \A d \in lostEvents'[u] : d \in lostEvents[u] \/ d = e
      BY <1>3 DEF LossType
    <2>2. c \in Made' /\ items'[c].ev = e
      BY <1>1, <1>3
    <2>. QED
      BY <1>1, <1>3, <2>1, <2>2 DEF LostInv
  <1>4. ASSUME NEW t \in Threads, EnqueueFailed(t)
        PROVE  LostInv'
    <2>. DEFINE b == rItem[t]
    <2>1. rAt[t] = "inqueue" /\ pItem[t] = b /\ dropped' = dropped \cup {b}
      BY <1>4 DEF EnqueueFailed, Q!Drop, RecvInv, AsProducer
    <2>2. b \in Made /\ items[b].ev \in Events
      BY <2>1, MadeType DEF RecvInv, Hand
    <2>3. lostEvents' = [lostEvents EXCEPT ![t] = @ \cup {items[b].ev}]
      BY <1>4, <2>2, LogAdds DEF EnqueueFailed
    <2>. QED
      BY <1>3, <2>1, <2>2, <2>3
  <1>5. ASSUME NEW e \in Events, GCCollect(e)
        PROVE  LostInv'
    <2>. DEFINE b == eventsInProgress[e]
    <2>1. /\ b \in Made /\ gThread \in Threads /\ LogLostEvent(gThread, e, FALSE)
          /\ collected' = collected \cup {b}
      BY <1>5 DEF GCCollect, Expired, GCType, Delete
    <2>2. items[b].ev = e
      BY <2>1 DEF RecvInv, MapOwned
    <2>3. lostEvents' = [lostEvents EXCEPT ![gThread] = @ \cup {e}]
      BY <2>1, LogAdds
    <2>. QED
      BY <1>3, <2>1, <2>2, <2>3
  <1>6. ASSUME NEW t \in Threads, Idling(t), ~EnqueueFailed(t)
        PROVE  UNCHANGED lostEvents
    BY <1>6 DEF Idling, Select, EndPass, RecvExit, InEnqueue, Enqueued, CountSuccess, lostVars
  <1>7. ASSUME NEW t \in Threads, Copy(t) \/ Erase(t) \/ CallEnqueue(t) \/ GCDrain(t)
        PROVE  UNCHANGED lostEvents
    BY <1>7 DEF Copy, Erase, CallEnqueue, GCDrain, lostVars
  <1>8. ASSUME NEW t \in Threads, NEW f \in Fragments, StartItem(t, f) \/ JoinItem(t, f)
        PROVE  UNCHANGED lostEvents
    BY <1>8 DEF StartItem, JoinItem, lostVars
  <1>. QED
    BY <1>2, <1>4, <1>5, <1>6, <1>7, <1>8, ElsewhereEffect, StepCases

(* A whole item leaves no byte of the event, and no fragment, for another one. *)
LEMMA NoOtherItem ==
  ASSUME AnyNet, FragInv, BytesInv, NEW b \in Made, Whole(b), NEW c \in Made, items[c].ev = items[b].ev
  PROVE  c = b
  <1>. SUFFICES ASSUME c # b PROVE FALSE
    OBVIOUS
  <1>. USE DEF AnyNet
  <1>1. items[c].got \subseteq items[b].got /\ items[c].got \cap items[b].got = {}
    BY DEF Whole, BytesInv, RecvInv, RecvType
  <1>2. PICK t \in Threads : rAt[t] = "copy" /\ rItem[t] = c
    BY <1>1 DEF BytesInv
  <1>3. rFrag[t] \in Fragments /\ rFrag[t].ev = items[b].ev /\ rFrag[t] \notin handled
    BY <1>2 DEF RecvInv, Hand, FragInv
  <1>4. rFrag[t].off \in Span(rFrag[t]) /\ rFrag[t].off \in items[b].got
    BY <1>3, SpanNonempty DEF Whole
  <1>5. items[b].got \cap Span(rFrag[t]) = {}
    BY <1>3, NotCopiedYet
  <1>. QED
    BY <1>4, <1>5

(* Where no fragment is duplicated, an event that was logged as lost is not
   given to the user as well, but for a buffer the collector deleted under a
   receive thread. *)
THEOREM LostNotDeliveredCorrect == MaxDups = 0 => (SafeSpec => []LostNotDelivered)
<1>. SUFFICES ASSUME MaxDups = 0 PROVE SafeSpec => []LostNotDelivered
  OBVIOUS
<1>1. Init => LostInv
  BY DEF Init, LostInv
<1>2. AnyNet /\ LostInv /\ [Next]_vars => LostInv'
  BY LostNext
<1>3. AnyNet /\ FragInv /\ BytesInv /\ LostInv /\ Q!ConservedOnce => LostNotDelivered
  <2>. SUFFICES ASSUME AnyNet, FragInv, BytesInv, LostInv, Q!ConservedOnce,
                       NEW t \in Threads, NEW b \in delivered \ torn, items[b].ev \in lostEvents[t]
                PROVE  FALSE
    BY DEF LostNotDelivered
  <2>1. PICK c \in Made : items[c].ev = items[b].ev /\ c \in collected \cup dropped
    BY DEF LostInv
  <2>2. b \in offered
    BY DEF Q!ConservedOnce, Q!NoItemLost
  <2>3. c = b
    BY <2>1, <2>2, OfferedWhole, NoOtherItem
  <2>4. b \notin collected
    BY <2>2 DEF AnyNet, CollectInv, CollectedNotQueued
  <2>5. delivered \cap dropped = {}
    <3>1. Q!Places[4] = delivered /\ Q!Places[5] = dropped
      BY DEF Q!Places
    <3>. QED
      BY <3>1 DEF Q!ConservedOnce, Q!PlacesDisjoint
  <2>. QED
    BY <2>1, <2>3, <2>4, <2>5
<1>. QED
  BY <1>1, <1>2, <1>3, AnyNetCorrect, FragCorrect, EventsConserved, PTL DEF SafeSpec

-----------------------------------------------------------------------------
(* No buffer is left behind *)

(* The network only loses. *)
LEMMA NetShrinks ==
  ASSUME RecvInv, NetType, FragInv, MaxDups = 0, [Next]_vars
  PROVE  \A f \in Fragments : net'[f] > 0 => net[f] > 0
  <1>1. CASE \E t \in Threads, f \in Fragments : StartItem(t, f) \/ JoinItem(t, f)
    <2>1. \E f \in Fragments : net[f] > 0 /\ net' = [net EXCEPT ![f] = @ - 1]
      BY <1>1, ArrivesEffect
    <2>. QED
      BY <2>1 DEF NetType
  <1>2. CASE \E t \in Threads : Copy(t)
    BY <1>2 DEF Copy, netVars
  <1>3. CASE CopyIdle
    <2>1. \A f \in Fragments : ~Duplicate(f)
      BY DEF Duplicate, NetType
    <2>2. ASSUME NEW f \in Fragments, Lose(f)
          PROVE  \A g \in Fragments : net'[g] > 0 => net[g] > 0
      BY <2>2 DEF Lose, NetType
    <2>. QED
      BY <1>3, <2>1, <2>2 DEF CopyIdle
  <1>. QED
    BY <1>1, <1>2, <1>3, CopyCases

(* What the collector takes out of the map it deletes. *)
LEMMA CollectorForgets ==
  ASSUME RecvInv, (\E e \in Events : GCCollect(e)) \/ (\E t \in Threads : GCDrain(t))
  PROVE  /\ UNCHANGED recvVars
         /\ \A e \in Events : \/ eventsInProgress'[e] = eventsInProgress[e]
                              \/ /\ eventsInProgress'[e] = NoItem
                                 /\ eventsInProgress[e] \in collected' \cup {NoItem}
  <1>1. ASSUME NEW e \in Events, GCCollect(e)
        PROVE  eventsInProgress' = [eventsInProgress EXCEPT ![e] = NoItem]
                 /\ eventsInProgress[e] \in collected' /\ UNCHANGED recvVars
    BY <1>1 DEF GCCollect, Delete
  <1>2. ASSUME NEW t \in Threads, GCDrain(t)
        PROVE  /\ eventsInProgress' = [e \in Events |-> IF Route[e] = t THEN NoItem ELSE eventsInProgress[e]]
               /\ \A e \in Events : Route[e] = t => eventsInProgress[e] \in collected' \cup {NoItem}
               /\ UNCHANGED recvVars
    BY <1>2 DEF GCDrain, Delete
  <1>. QED
    BY <1>1, <1>2 DEF RecvInv, RecvType

(* An item enters the map when it is made; it leaves the map when it is complete,
   or by the collector. *)
LEMMA MapSteps ==
  ASSUME RecvInv, [Next]_vars
  PROVE  \/ \E t \in Threads, f \in Fragments : StartItem(t, f)
         \/ \E t \in Threads : Erase(t)
         \/ (\E e \in Events : GCCollect(e)) \/ (\E t \in Threads : GCDrain(t))
         \/ UNCHANGED eventsInProgress
  <1>1. CASE \E t \in Threads, f \in Fragments : JoinItem(t, f)
    BY <1>1 DEF JoinItem, mapVars
  <1>2. CASE \E t \in Threads : Copy(t) \/ CallEnqueue(t) \/ Idling(t)
    BY <1>2, IdlingEffect DEF Copy, CallEnqueue, mapVars
  <1>. QED
    BY <1>1, <1>2, ElsewhereEffect, StepCases

LEMMA EraseEffect ==
  ASSUME RecvInv, NEW t \in Threads, Erase(t)
  PROVE  LET e == items[rItem[t]].ev
         IN  /\ rAt[t] = "erase" /\ rAt' = [rAt EXCEPT ![t] = "enqueue"] /\ UNCHANGED <<rItem, items>>
             /\ rItem[t] \in Made /\ e \in Events /\ Route[e] = t
             /\ eventsInProgress[e] \in {rItem[t], NoItem}
             /\ eventsInProgress' = [eventsInProgress EXCEPT ![e] = NoItem]
  <1>1. rAt[t] = "erase" /\ rAt' = [rAt EXCEPT ![t] = "enqueue"] /\ UNCHANGED <<rItem, items>>
    BY DEF Erase
  <1>2. rItem[t] \in Made /\ Route[items[rItem[t]].ev] = t
        /\ eventsInProgress[items[rItem[t]].ev] \in {rItem[t], NoItem}
    BY <1>1 DEF RecvInv, Hand, MapOwned
  <1>3. items[rItem[t]].ev \in Events
    BY <1>2, MadeType
  <1>. QED
    BY <1>1, <1>2, <1>3 DEF Erase

LEMMA FirstNext ==
  ASSUME RecvInv, NetType, FragInv, FirstInv, Ordered, MaxDups = 0, [Next]_vars
  PROVE  FirstInv'
  <1>. SUFFICES ASSUME NEW f \in Fragments, f.off = 0, net'[f] > 0
                PROVE  eventsInProgress'[f.ev] = NoItem
    BY DEF FirstInv
  <1>1. net[f] > 0 /\ f.ev \in Events /\ eventsInProgress[f.ev] = NoItem
    BY NetShrinks, FragmentsAssumption DEF FirstInv
  <1>2. ASSUME NEW t \in Threads, NEW g \in Fragments, StartItem(t, g)
        PROVE  eventsInProgress'[f.ev] = NoItem
    <2>1. /\ net[g] > 0 /\ net' = [net EXCEPT ![g] = @ - 1] /\ g.ev \in Events
          /\ \A h \in Fragments : h.ev = g.ev /\ h.off < g.off => net[h] = 0
          /\ eventsInProgress' = [eventsInProgress EXCEPT ![g.ev] = Len(items) + 1]
      BY <1>2, ArrivesEffect DEF StartItem
    <2>2. CASE g = f
      BY <1>1, <2>1, <2>2 DEF NetType, FragInv
    <2>3. CASE g # f /\ g.ev = f.ev
      <3>1. g.off \in Nat
        BY FragmentsAssumption
      <3>2. g.off = 0
        BY <1>1, <2>1, <2>3, <3>1
      <3>3. 0 \in Span(f) /\ 0 \in Span(g)
        BY <3>2, SpanNonempty
      <3>. QED
        BY <2>3, <3>3, SpansDisjoint
    <2>4. CASE g.ev # f.ev
      BY <1>1, <2>1, <2>4 DEF RecvInv, RecvType
    <2>. QED
      BY <2>2, <2>3, <2>4
  <1>3. ASSUME NEW t \in Threads, Erase(t)
        PROVE  eventsInProgress'[f.ev] = NoItem
    BY <1>1, <1>3, EraseEffect DEF RecvInv, RecvType
  <1>. QED
    BY <1>1, <1>2, <1>3, MapSteps, CollectorForgets

LEMMA LeaveNext ==
  ASSUME RecvInv, LeaveInv, [Next]_vars
  PROVE  LeaveInv'
  <1>1. collected \subseteq collected' /\ offered \subseteq offered'
    BY CollectedGrows, DroppedGrows
  <1>2. ASSUME NEW u \in Threads, rAt'[u] \in {"inqueue", "success"}
        PROVE  rItem'[u] \in offered'
    <2>1. CASE rAt'[u] = rAt[u] /\ rItem'[u] = rItem[u]
      BY <1>1, <1>2, <2>1 DEF LeaveInv
    <2>2. ASSUME NEW t \in Threads, NEW f \in Fragments, StartItem(t, f) \/ JoinItem(t, f)
          PROVE  rAt'[u] = rAt[u] /\ rItem'[u] = rItem[u]
      <3>1. rAt' = [rAt EXCEPT ![t] = "copy"] /\ \E b : rItem' = [rItem EXCEPT ![t] = b]
        BY <2>2, ArrivesEffect DEF StartItem, JoinItem
      <3>. QED
        BY <1>2, <3>1 DEF RecvInv, RecvType
    <2>3. ASSUME NEW t \in Threads, Copy(t)
          PROVE  rAt'[u] = rAt[u] /\ rItem'[u] = rItem[u]
      BY <1>2, <2>3 DEF Copy, RecvInv, RecvType
    <2>4. ASSUME NEW t \in Threads, Erase(t)
          PROVE  rAt'[u] = rAt[u] /\ rItem'[u] = rItem[u]
      BY <1>2, <2>4, EraseEffect DEF RecvInv, RecvType
    <2>5. ASSUME NEW t \in Threads, CallEnqueue(t)
          PROVE  (rAt'[u] = rAt[u] \/ rItem[u] \in offered') /\ rItem'[u] = rItem[u]
      BY <2>5 DEF CallEnqueue, Q!Offer, RecvInv, RecvType
    <2>6. ASSUME NEW t \in Threads, Idling(t)
          PROVE  rAt[u] \in {"inqueue", "success"} /\ rItem'[u] = rItem[u]
      <3>1. CASE InEnqueue(t)
        BY <1>2, <3>1 DEF InEnqueue, recvVars
      <3>2. CASE Enqueued(t) \/ EnqueueFailed(t)
        <4>1. rAt[t] = "inqueue" /\ rAt' = [rAt EXCEPT ![t] = "success"] /\ UNCHANGED rItem
          BY <3>2 DEF Enqueued, EnqueueFailed, Q!CountPush, Q!Drop, RecvInv, AsProducer
        <4>. QED
          BY <1>2, <4>1 DEF RecvInv, RecvType
      <3>3. CASE Select(t) \/ EndPass(t) \/ RecvExit(t) \/ CountSuccess(t)
        BY <1>2, <3>3 DEF Select, EndPass, RecvExit, CountSuccess, RecvInv, RecvType
      <3>. QED
        BY <2>6, <3>1, <3>2, <3>3 DEF Idling
    <2>7. CASE (\E e \in Events : GCCollect(e)) \/ (\E t \in Threads : GCDrain(t)) \/ Elsewhere
      BY <2>1, <2>7, CollectorForgets, ElsewhereEffect DEF recvVars
    <2>. QED
      BY <1>1, <1>2, <2>1, <2>2, <2>3, <2>4, <2>5, <2>6, <2>7, StepCases DEF LeaveInv
  <1>3. ASSUME NEW u \in Threads, rAt'[u] \in {"copy", "erase"},
               eventsInProgress'[items'[rItem'[u]].ev] # rItem'[u]
        PROVE  rItem'[u] \in collected'
    <2>1. ASSUME rAt[u] \in {"copy", "erase"}, rItem'[u] = rItem[u],
                 items'[rItem[u]].ev = items[rItem[u]].ev,
                 eventsInProgress'[items[rItem[u]].ev] = eventsInProgress[items[rItem[u]].ev]
          PROVE  rItem'[u] \in collected'
      BY <1>1, <1>3, <2>1 DEF LeaveInv
    <2>2. rAt[u] \in {"copy", "erase"} =>
            rItem[u] \in Made /\ items[rItem[u]].ev \in Events /\ Route[items[rItem[u]].ev] = u
      BY MadeType DEF RecvInv, Hand
    <2>3. ASSUME NEW t \in Threads, NEW f \in Fragments, StartItem(t, f)
          PROVE  rItem'[u] \in collected'
      <3>1. /\ rAt' = [rAt EXCEPT ![t] = "copy"] /\ rItem' = [rItem EXCEPT ![t] = Len(items) + 1]
            /\ eventsInProgress' = [eventsInProgress EXCEPT ![f.ev] = Len(items) + 1]
            /\ f.ev \in Events /\ Route[f.ev] = t
            /\ items'[Len(items) + 1] = [ev |-> f.ev, curBytes |-> 0, got |-> {}]
            /\ \A b \in Made : items'[b] = items[b]
        BY <2>3, ArrivesEffect, StartItemEffect DEF StartItem
      <3>2. CASE u = t
        BY <1>3, <3>1, <3>2 DEF RecvInv, RecvType
      <3>3. CASE u # t
        BY <1>3, <2>1, <2>2, <3>1, <3>3 DEF RecvInv, RecvType
      <3>. QED
        BY <3>2, <3>3
    <2>4. ASSUME NEW t \in Threads, NEW f \in Fragments, JoinItem(t, f)
          PROVE  rItem'[u] \in collected'
      <3>1. /\ rAt' = [rAt EXCEPT ![t] = "copy"] /\ rItem' = [rItem EXCEPT ![t] = eventsInProgress[f.ev]]
            /\ UNCHANGED <<items, eventsInProgress>> /\ f.ev \in Events /\ eventsInProgress[f.ev] # NoItem
        BY <2>4, ArrivesEffect DEF JoinItem, mapVars
      <3>2. CASE u = t
        <4>1. eventsInProgress[f.ev] \in Made /\ items[eventsInProgress[f.ev]].ev = f.ev
          BY <3>1 DEF RecvInv, RecvType, MapOwned
        <4>. QED
          BY <1>3, <3>1, <3>2, <4>1 DEF RecvInv, RecvType
      <3>3. CASE u # t
        BY <1>3, <2>1, <2>2, <3>1, <3>3 DEF RecvInv, RecvType
      <3>. QED
        BY <3>2, <3>3
    <2>5. ASSUME NEW t \in Threads, Copy(t)
          PROVE  rItem'[u] \in collected'
      <3>1. rAt[u] \in {"copy", "erase"} /\ rItem'[u] = rItem[u] /\ UNCHANGED eventsInProgress
        BY <1>3, <2>5 DEF Copy, mapVars, RecvInv, RecvType
      <3>2. items'[rItem[u]].ev = items[rItem[u]].ev
        BY <2>2, <2>5, <3>1, CopyEffect
      <3>. QED
        BY <2>1, <3>1, <3>2
    <2>6. ASSUME NEW t \in Threads, Erase(t)
          PROVE  rItem'[u] \in collected'
      <3>1. rAt[u] \in {"copy", "erase"} /\ u # t /\ UNCHANGED <<rItem, items>>
        BY <1>3, <2>6, EraseEffect DEF RecvInv, RecvType
      <3>2. eventsInProgress'[items[rItem[u]].ev] = eventsInProgress[items[rItem[u]].ev]
        BY <2>2, <2>6, <3>1, EraseEffect DEF RecvInv, RecvType
      <3>. QED
        BY <2>1, <3>1, <3>2
    <2>7. ASSUME NEW t \in Threads, CallEnqueue(t) \/ Idling(t)
          PROVE  rItem'[u] \in collected'
      <3>1. /\ rAt[u] \in {"copy", "erase"} /\ rItem'[u] = rItem[u]
            /\ UNCHANGED <<items, eventsInProgress>>
        BY <1>3, <2>7, IdlingEffect DEF CallEnqueue, mapVars, Busy, RecvInv, RecvType
      <3>. QED
        BY <2>1, <3>1
    <2>8. CASE (\E e \in Events : GCCollect(e)) \/ (\E t \in Threads : GCDrain(t))
      <3>1. UNCHANGED recvVars /\ rAt[u] \in {"copy", "erase"}
        BY <1>3, <2>8, CollectorForgets DEF recvVars
      <3>2. \/ eventsInProgress'[items[rItem[u]].ev] = eventsInProgress[items[rItem[u]].ev]
            \/ eventsInProgress[items[rItem[u]].ev] \in collected' \cup {NoItem}
        BY <2>2, <2>8, <3>1, CollectorForgets
      <3>3. NoItem \notin Made
        BY MadeType
      <3>. QED
        BY <1>1, <2>1, <2>2, <3>1, <3>2, <3>3 DEF recvVars, LeaveInv
    <2>9. CASE Elsewhere
      BY <1>3, <2>1, <2>9, ElsewhereEffect DEF recvVars
    <2>. QED
      BY <2>3, <2>4, <2>5, <2>6, <2>7, <2>8, <2>9, StepCases
  <1>. QED
    BY <1>2, <1>3 DEF LeaveInv

LEMMA StrandedNext ==
  ASSUME AnyNet, FirstInv, LeaveInv, FragInv, NothingStranded, Ordered, [Next]_vars
  PROVE  NothingStranded'
  <1>. DEFINE Kept == Released \cup offered
  <1>. SUFFICES ASSUME NEW b \in Made', b \notin Kept'
                PROVE  (\E e \in Events : eventsInProgress'[e] = b) \/ \E t \in Threads : rItem'[t] = b
    <2>1. Made' \subseteq 1 .. Len(items') /\ NoItem \notin Made'
      <3>1. RecvInv'
        BY RecvNext DEF AnyNet
      <3>2. Len(items') \in Nat /\ Len(items') <= MaxItems
        BY <3>1 DEF RecvInv, RecvType
      <3>. QED
        BY <3>2, SizesAssumption DEF Made
    <2>. QED
      BY <2>1 DEF NothingStranded, InProgress
  <1>. USE DEF AnyNet
  <1>1. Kept \subseteq Kept'
    BY CollectedGrows, DroppedGrows DEF Released
  <1>2. b \notin collected' /\ b \notin offered'
    BY DEF Released
  <1>3. CASE b \notin Made
    <2>1. PICK t \in Threads, f \in Fragments : StartItem(t, f)
      BY <1>3, MadeGrows
    <2>2. b = Len(items) + 1
      <3>1. Made' = Made \cup {Len(items) + 1}
        BY <2>1, StartItemEffect
      <3>. QED
        BY <1>3, <3>1
    <2>3. rItem' = [rItem EXCEPT ![t] = b]
      BY <2>1, <2>2 DEF StartItem
    <2>. QED
      BY <2>3 DEF RecvInv, RecvType
  <1>4. CASE \E e \in Events : eventsInProgress[e] = b /\ b \in Made
    <2>1. PICK e \in Events : eventsInProgress[e] = b /\ b \in Made
      BY <1>4
    <2>2. b # NoItem
      BY <2>1, MadeType
    <2>3. ASSUME NEW t \in Threads, NEW f \in Fragments, StartItem(t, f)
          PROVE  eventsInProgress'[e] = b
      <3>1. /\ eventsInProgress' = [eventsInProgress EXCEPT ![f.ev] = Len(items) + 1]
            /\ f.off = 0 \/ eventsInProgress[f.ev] = NoItem
            /\ net[f] > 0
        BY <2>3, ArrivesEffect DEF StartItem
      <3>2. eventsInProgress[f.ev] = NoItem
        BY <3>1 DEF FirstInv
      <3>. QED
        BY <2>1, <2>2, <3>1, <3>2 DEF RecvInv, RecvType
    <2>4. ASSUME NEW t \in Threads, Erase(t)
          PROVE  eventsInProgress'[e] = b \/ rItem'[t] = b
      BY <2>1, <2>2, <2>4, EraseEffect DEF RecvInv, RecvType
    <2>5. CASE (\E d \in Events : GCCollect(d)) \/ (\E t \in Threads : GCDrain(t))
      BY <1>2, <2>1, <2>2, <2>5, CollectorForgets
    <2>. QED
      BY <2>1, <2>3, <2>4, <2>5, MapSteps
  <1>5. CASE \E u \in Threads : rItem[u] = b /\ b \in Made
    <2>1. PICK u \in Threads : rItem[u] = b /\ b \in Made
      BY <1>5
    <2>2. rAt[u] \in {"copy", "erase", "enqueue", "inqueue", "success"} /\ items[b].ev \in Events
      BY <2>1, MadeType DEF RecvInv, Hand, RecvType, RecvPlaces
    <2>3. ASSUME NEW t \in Threads, NEW f \in Fragments, StartItem(t, f) \/ JoinItem(t, f)
          PROVE  rItem'[u] = b
      <3>1. rAt[t] = "select" /\ \E c : rItem' = [rItem EXCEPT ![t] = c]
        BY <2>3, ArrivesEffect DEF StartItem, JoinItem
      <3>. QED
        BY <2>1, <2>2, <3>1 DEF RecvInv, RecvType
    <2>4. ASSUME NEW t \in Threads, Copy(t)
          PROVE  rItem'[u] = b \/ eventsInProgress'[items[b].ev] = b
      <3>1. /\ rAt[t] = "copy" /\ UNCHANGED <<eventsInProgress, collected>>
            /\ \E c : rItem' = [rItem EXCEPT ![t] = c]
        BY <2>4 DEF Copy, mapVars, gcVars
      <3>. QED
        BY <1>2, <2>1, <3>1 DEF LeaveInv, RecvInv, RecvType
    <2>5. ASSUME NEW t \in Threads, Erase(t) \/ CallEnqueue(t)
          PROVE  rItem'[u] = b
      BY <2>1, <2>5 DEF Erase, CallEnqueue
    <2>6. ASSUME NEW t \in Threads, Idling(t)
          PROVE  rItem'[u] = b
      <3>1. \/ UNCHANGED rItem
            \/ rAt[t] = "success" /\ rItem' = [rItem EXCEPT ![t] = NoItem]
        BY <2>6 DEF Idling, Select, EndPass, RecvExit, InEnqueue, Enqueued, EnqueueFailed, CountSuccess,
                    recvVars
      <3>2. rAt[u] = "success" => b \in offered
        BY <2>1 DEF LeaveInv
      <3>. QED
        BY <1>1, <2>1, <3>1, <3>2 DEF RecvInv, RecvType
    <2>7. CASE (\E e \in Events : GCCollect(e)) \/ (\E t \in Threads : GCDrain(t)) \/ Elsewhere
      BY <2>1, <2>7, CollectorForgets, ElsewhereEffect DEF recvVars
    <2>. QED
      BY <2>1, <2>2, <2>3, <2>4, <2>5, <2>6, <2>7, StepCases
  <1>6. b \in Made => (\E e \in Events : eventsInProgress[e] = b) \/ \E u \in Threads : rItem[u] = b
    BY <1>1 DEF NothingStranded, InProgress
  <1>. QED
    BY <1>3, <1>4, <1>5, <1>6

(* What is proved of a network that keeps the order of an event's fragments. *)
LEMMA OrderCorrect ==
  Ordered /\ MaxDups = 0 => (SafeSpec => [](FirstInv /\ LeaveInv /\ NothingStranded))
<1>. SUFFICES ASSUME Ordered, MaxDups = 0 PROVE SafeSpec => [](FirstInv /\ LeaveInv /\ NothingStranded)
  OBVIOUS
<1>1. Init => FirstInv /\ LeaveInv /\ NothingStranded
  <2>. SUFFICES ASSUME Init PROVE FirstInv /\ LeaveInv /\ NothingStranded
    OBVIOUS
  <2>1. FirstInv
    BY FragmentsAssumption DEF Init, FirstInv
  <2>2. LeaveInv /\ NothingStranded
    BY DEF Init, LeaveInv, NothingStranded, Made
  <2>. QED
    BY <2>1, <2>2
<1>2. AnyNet /\ FragInv /\ FirstInv /\ LeaveInv /\ NothingStranded /\ [Next]_vars
        => (FirstInv /\ LeaveInv /\ NothingStranded)'
  <2>1. AnyNet /\ FragInv /\ FirstInv /\ [Next]_vars => FirstInv'
    BY FirstNext DEF AnyNet
  <2>2. AnyNet /\ LeaveInv /\ [Next]_vars => LeaveInv'
    BY LeaveNext DEF AnyNet
  <2>. QED
    BY <2>1, <2>2, StrandedNext
<1>. QED
  BY <1>1, <1>2, AnyNetCorrect, FragCorrect, PTL DEF SafeSpec

(* Where fragments come in order and once, no event buffer is leaked: each is in
   the map, with a thread, in the queue, with the user or released. *)
THEOREM NothingStrandedCorrect == Ordered /\ MaxDups = 0 => (SafeSpec => []NothingStranded)
<1>. SUFFICES ASSUME Ordered, MaxDups = 0 PROVE SafeSpec => []NothingStranded
  OBVIOUS
<1>. QED
  BY OrderCorrect, PTL

-----------------------------------------------------------------------------
(* What stopThreads() leaves *)

(* Where the collector goes. *)
LEMMA CollectorSteps ==
  ASSUME [Next]_vars
  PROVE  \/ GCPass \/ GCUnlock \/ GCStop \/ \E t \in Threads : GCLock(t) \/ GCDrain(t)
         \/ UNCHANGED <<gAt, gLeft>>
  <1>1. CASE \E t \in Threads, f \in Fragments : StartItem(t, f) \/ JoinItem(t, f)
    BY <1>1 DEF StartItem, JoinItem, gcVars
  <1>2. CASE \E t \in Threads : Copy(t) \/ Erase(t) \/ CallEnqueue(t) \/ Idling(t)
    BY <1>2 DEF Copy, Erase, CallEnqueue, Idling, Select, EndPass, RecvExit, InEnqueue, Enqueued,
                EnqueueFailed, CountSuccess, gcVars
  <1>3. CASE \E e \in Events : GCCollect(e)
    BY <1>3 DEF GCCollect
  <1>4. CASE Elsewhere
    BY <1>4, QueueSideSteps
       DEF Elsewhere, Lose, Duplicate, Age, GetLostEvent, StopReturn, vars, NotQueue, gcVars
  <1>. QED
    BY <1>1, <1>2, <1>3, <1>4, StepCases

LEMMA DrainNext ==
  ASSUME RecvInv, GCType, DrainInv, [Next]_vars
  PROVE  DrainInv'
  <1>1. late \subseteq late' /\ \A e \in Events : eventsInProgress'[e] \in {eventsInProgress[e], NoItem} \cup late'
          \/ \E t \in Threads, f \in Fragments : StartItem(t, f)
    <2>1. ASSUME NEW t \in Threads, NEW f \in Fragments, StartItem(t, f)
          PROVE  late \subseteq late'
      BY <2>1 DEF StartItem
    <2>2. CASE \E t \in Threads, f \in Fragments : JoinItem(t, f)
      BY <2>2 DEF JoinItem, mapVars
    <2>3. ASSUME NEW t \in Threads, Copy(t) \/ Erase(t) \/ CallEnqueue(t) \/ Idling(t)
          PROVE  late' = late /\ \A e \in Events : eventsInProgress'[e] \in {eventsInProgress[e], NoItem}
      <3>1. late' = late
        BY <2>3, IdlingEffect DEF Copy, Erase, CallEnqueue
      <3>2. CASE Erase(t)
        BY <3>1, <3>2, EraseEffect DEF RecvInv, RecvType
      <3>3. CASE Copy(t) \/ CallEnqueue(t) \/ Idling(t)
        BY <3>1, <3>3, IdlingEffect DEF Copy, CallEnqueue, mapVars
      <3>. QED
        BY <2>3, <3>2, <3>3
    <2>4. CASE (\E e \in Events : GCCollect(e)) \/ (\E t \in Threads : GCDrain(t))
      BY <2>4, CollectorForgets DEF recvVars
    <2>. QED
      BY <2>1, <2>2, <2>3, <2>4, ElsewhereEffect, StepCases DEF recvVars
  <1>2. ASSUME NEW t \in Threads, NEW f \in Fragments, StartItem(t, f)
        PROVE  DrainInv'
    <2>1. /\ eventsInProgress' = [eventsInProgress EXCEPT ![f.ev] = Len(items) + 1]
          /\ f.ev \in Events /\ Route[f.ev] = t /\ UNCHANGED <<gAt, gLeft>>
          /\ gAt = "done" \/ (gAt = "drain" /\ t \notin gLeft) => late' = late \cup {Len(items) + 1}
      BY <1>2, ArrivesEffect DEF StartItem, gcVars
    <2>2. late \subseteq late'
      BY <1>2 DEF StartItem
    <2>. QED
      BY <2>1, <2>2 DEF DrainInv, RecvInv, RecvType
  <1>3. CASE ~\E t \in Threads, f \in Fragments : StartItem(t, f)
    <2>1. late \subseteq late' /\ \A e \in Events : eventsInProgress'[e] \in {eventsInProgress[e], NoItem} \cup late'
      BY <1>1, <1>3
    <2>2. CASE UNCHANGED <<gAt, gLeft>>
      BY <2>1, <2>2 DEF DrainInv
    <2>3. CASE GCPass \/ GCUnlock \/ GCStop \/ \E t \in Threads : GCLock(t)
      <3>1. gAt' \in {"top", "scan"} \/ (gAt' = "drain" /\ gLeft' = Threads)
        BY <2>3 DEF GCPass, GCUnlock, GCStop, GCLock
      <3>. QED
        BY <3>1, RouteAssumption DEF DrainInv
    <2>4. ASSUME NEW t \in Threads, GCDrain(t)
          PROVE  DrainInv'
      <3>1. /\ gAt = "drain" /\ gLeft' = gLeft \ {t} /\ (gAt' = "done" => gLeft' = {})
            /\ eventsInProgress' = [e \in Events |-> IF Route[e] = t THEN NoItem ELSE eventsInProgress[e]]
        BY <2>4 DEF GCDrain
      <3>. QED
        BY <2>1, <3>1 DEF DrainInv
    <2>. QED
      BY <2>2, <2>3, <2>4, CollectorSteps
  <1>. QED
    BY <1>2, <1>3

LEMMA ReturnNext ==
  ASSUME RecvInv, ReturnInv, [Next]_vars
  PROVE  ReturnInv'
  <1>1. gAt = "done" => gAt' = "done"
    BY CollectorSteps DEF GCPass, GCUnlock, GCStop, GCLock, GCDrain
  <1>2. stopAt = "stopped" => stopAt' = "stopped"
    <2>1. [Q!Next]_(Q!vars)
      BY QueueStep
    <2>2. CASE UNCHANGED Q!vars
      BY <2>2 DEF Q!vars
    <2>3. ASSUME NEW p \in Threads,
                 (\E i \in 1 .. MaxItems : Q!Offer(p, i)) \/ Q!Enqueue(p) \/ Q!ProducerExit(p)
          PROVE  stopAt' = stopAt
      BY <2>3 DEF Q!Offer, Q!Enqueue, Q!PushAccepted, Q!PushRefused, Q!CountPush, Q!Drop, Q!ProducerExit,
                  Q!stopVars
    <2>4. ASSUME NEW c \in Consumers, Q!Call(c) \/ Q!Dequeue(c) \/ Q!Wait(c) \/ Q!WaitTimeout(c) \/ Q!GiveUp(c)
          PROVE  stopAt' = stopAt
      BY <2>4 DEF Q!Call, Q!Dequeue, Q!Pop, Q!PopEmpty, Q!Return, Q!Wait, Q!WaitTimeout, Q!GiveUp, Q!stopVars
    <2>5. CASE Q!Sample \/ Q!Report \/ Q!SendStateExit \/ Q!StopThreads \/ Q!Drain
      BY <2>5 DEF Q!Sample, Q!Report, Q!SendStateExit, Q!StopThreads, Q!Drain, Q!JoinThreads, Q!DrainPop,
                  Q!DrainEnd, Q!stopVars
    <2>. QED
      BY <2>1, <2>2, <2>3, <2>4, <2>5 DEF Q!Next
  <1>3. StopReturn \/ UNCHANGED stopReturned
    <2>1. CASE \E t \in Threads, f \in Fragments : StartItem(t, f) \/ JoinItem(t, f)
      BY <2>1 DEF StartItem, JoinItem
    <2>2. CASE \E t \in Threads : Copy(t) \/ Erase(t) \/ CallEnqueue(t) \/ Idling(t)
      BY <2>2, IdlingEffect DEF Copy, Erase, CallEnqueue
    <2>3. CASE (\E e \in Events : GCCollect(e)) \/ (\E t \in Threads : GCDrain(t))
      BY <2>3 DEF GCCollect, GCDrain
    <2>4. CASE Elsewhere
      BY <2>4, QueueSideSteps
         DEF Elsewhere, Lose, Duplicate, Age, GCPass, GCUnlock, GCStop, GCLock, GetLostEvent, vars, NotQueue
    <2>. QED
      BY <2>1, <2>2, <2>3, <2>4, StepCases
  <1>. QED
    BY <1>1, <1>2, <1>3 DEF ReturnInv, StopReturn, queueVars, gcVars

(* Where fragments come in order and once, stopThreads() returns with every
   event buffer released or with a consumer, but for those of events that began
   behind the back of the collector's drain. *)
THEOREM StopReleasesCorrect == Ordered /\ MaxDups = 0 => (SafeSpec => []StopReleases)
<1>. SUFFICES ASSUME Ordered, MaxDups = 0 PROVE SafeSpec => []StopReleases
  OBVIOUS
<1>1. Init => DrainInv /\ ReturnInv
  BY DEF Init, DrainInv, ReturnInv
<1>2. AnyNet /\ DrainInv /\ ReturnInv /\ [Next]_vars => (DrainInv /\ ReturnInv)'
  BY DrainNext, ReturnNext DEF AnyNet
<1>3. /\ AnyNet /\ DrainInv /\ ReturnInv /\ NothingStranded
      /\ Q!ConservedOnce /\ QP!StopInv
      => StopReleases
  <2>. SUFFICES ASSUME AnyNet, DrainInv, ReturnInv, NothingStranded, Q!ConservedOnce, QP!StopInv,
                       stopReturned, NEW b \in Made, b \notin Released
                PROVE  b \in late \cup {cItem[c] : c \in Consumers}
    BY DEF StopReleases
  <2>1. /\ gAt = "done" /\ \A t \in Threads : pAt[t] = "exited"
        /\ eventQueue = <<>>
    BY DEF ReturnInv, QP!StopInv, QP!StoppedMeansEmpty
  <2>2. \A t \in Threads : rItem[t] = NoItem
    BY <2>1 DEF AnyNet, RecvInv, AsProducer, Hand
  <2>3. b \in InProgress \cup offered
    <3>1. b # NoItem
      BY MadeType DEF AnyNet
    <3>. QED
      BY <2>2, <3>1 DEF NothingStranded
  <2>4. CASE b \in InProgress
    BY <2>1, <2>4 DEF DrainInv, InProgress
  <2>5. CASE b \in offered
    <3>1. Q!InHand = {} /\ Q!InQueue = {}
      BY <2>1 DEF Q!InHand, Q!Offering, Q!InQueue
    <3>2. b \in Q!Taken
      BY <2>5, <3>1 DEF Q!ConservedOnce, Q!NoItemLost, Released
    <3>. QED
      BY <3>2 DEF Q!Taken, Q!Uncounting
  <2>. QED
    BY <2>3, <2>4, <2>5
<1>. QED
  BY <1>1, <1>2, <1>3, AnyNetCorrect, OrderCorrect, EventsConserved, QueueStopped, PTL DEF SafeSpec

-----------------------------------------------------------------------------
(* Complete events come whole *)

LEMMA GotGrows ==
  ASSUME RecvInv, [Next]_vars, NEW b \in Made
  PROVE  items[b].got \subseteq items'[b].got
  <1>1. CASE \E t \in Threads, f \in Fragments : StartItem(t, f)
    BY <1>1, StartItemEffect
  <1>2. CASE \E t \in Threads, f \in Fragments : JoinItem(t, f)
    BY <1>2 DEF JoinItem
  <1>3. ASSUME NEW t \in Threads, Copy(t)
        PROVE  items[b].got \subseteq items'[b].got
    <2>1. CASE b = rItem[t]
      BY <1>3, <2>1, CopyEffect
    <2>2. CASE b # rItem[t]
      BY <1>3, <2>2, CopyEffect
    <2>. QED
      BY <2>1, <2>2
  <1>4. CASE CopyIdle
    BY <1>4 DEF CopyIdle
  <1>. QED
    BY <1>1, <1>2, <1>3, <1>4, CopyCases

LEMMA LostGrows ==
  ASSUME RecvInv, GCType, LossType, [Next]_vars
  PROVE  /\ \A t \in Threads : lostEvents[t] \subseteq lostEvents'[t]
         /\ gAt \in {"drain", "done"} => gAt' \in {"drain", "done"}
  <1>1. gAt \in {"drain", "done"} => gAt' \in {"drain", "done"}
    BY CollectorSteps DEF GCPass, GCUnlock, GCStop, GCLock, GCDrain
  <1>2. ASSUME NEW t \in Threads, EnqueueFailed(t)
        PROVE  \A u \in Threads : lostEvents[u] \subseteq lostEvents'[u]
    <2>1. rAt[t] = "inqueue"
      BY <1>2 DEF EnqueueFailed, Q!Drop, RecvInv, AsProducer
    <2>2. items[rItem[t]].ev \in Events
      BY <2>1, MadeType DEF RecvInv, Hand
    <2>3. lostEvents' = [lostEvents EXCEPT ![t] = @ \cup {items[rItem[t]].ev}]
      BY <1>2, <2>2, LogAdds DEF EnqueueFailed
    <2>. QED
      BY <2>3 DEF LossType
  <1>3. ASSUME NEW e \in Events, GCCollect(e)
        PROVE  \A u \in Threads : lostEvents[u] \subseteq lostEvents'[u]
    <2>1. gThread \in Threads /\ LogLostEvent(gThread, e, FALSE)
      BY <1>3 DEF GCCollect, GCType
    <2>2. lostEvents' = [lostEvents EXCEPT ![gThread] = @ \cup {e}]
      BY <2>1, LogAdds
    <2>. QED
      BY <2>1, <2>2 DEF LossType
  <1>4. ASSUME NEW t \in Threads, Idling(t), ~EnqueueFailed(t)
        PROVE  UNCHANGED lostEvents
    BY <1>4 DEF Idling, Select, EndPass, RecvExit, InEnqueue, Enqueued, CountSuccess, lostVars
  <1>5. ASSUME NEW t \in Threads, Copy(t) \/ Erase(t) \/ CallEnqueue(t) \/ GCDrain(t)
        PROVE  UNCHANGED lostEvents
    BY <1>5 DEF Copy, Erase, CallEnqueue, GCDrain, lostVars
  <1>6. ASSUME NEW t \in Threads, NEW f \in Fragments, StartItem(t, f) \/ JoinItem(t, f)
        PROVE  UNCHANGED lostEvents
    BY <1>6 DEF StartItem, JoinItem, lostVars
  <1>. QED
    BY <1>1, <1>2, <1>3, <1>4, <1>5, <1>6, ElsewhereEffect, StepCases

LEMMA CollectedLost ==
  ASSUME AnyNet, ArrivedInv, [Next]_vars, NEW c \in collected'
  PROVE  items'[c].ev \in lostEvents'[Route[items'[c].ev]] \/ gAt' \in {"drain", "done"}
  <1>. USE DEF AnyNet
  <1>1. CASE c \in collected
    <2>1. c \in Made /\ items[c].ev \in Events /\ Route[items[c].ev] \in Threads
      BY <1>1, MadeType, RouteAssumption DEF GCType
    <2>2. items'[c].ev = items[c].ev
      BY <2>1, MadeGrows
    <2>. QED
      BY <1>1, <2>1, <2>2, LostGrows DEF ArrivedInv
  <1>2. ASSUME NEW e \in Events, GCCollect(e), c \notin collected
        PROVE  items'[c].ev \in lostEvents'[Route[items'[c].ev]]
    <2>1. /\ c = eventsInProgress[e] /\ c \in Made /\ gThread \in Threads /\ Route[e] = gThread
          /\ LogLostEvent(gThread, e, FALSE) /\ UNCHANGED items
      BY <1>2 DEF GCCollect, Expired, Delete, GCType, recvVars
    <2>2. items[c].ev = e
      BY <2>1 DEF RecvInv, MapOwned
    <2>3. lostEvents' = [lostEvents EXCEPT ![gThread] = @ \cup {e}]
      BY <2>1, LogAdds
    <2>. QED
      BY <2>1, <2>2, <2>3 DEF LossType
  <1>3. ASSUME NEW t \in Threads, GCDrain(t)
        PROVE  gAt' \in {"drain", "done"}
    BY <1>3 DEF GCDrain
  <1>4. CASE \E t \in Threads, f \in Fragments : StartItem(t, f) \/ JoinItem(t, f)
    BY <1>1, <1>4 DEF StartItem, JoinItem, gcVars
  <1>5. CASE \E t \in Threads : Copy(t) \/ Erase(t) \/ CallEnqueue(t) \/ Idling(t)
    BY <1>1, <1>5, IdlingEffect DEF Copy, Erase, CallEnqueue, gcVars
  <1>6. CASE Elsewhere
    BY <1>1, <1>6, ElsewhereEffect
  <1>. QED
    BY <1>1, <1>2, <1>3, <1>4, <1>5, <1>6, StepCases

(* All that was copied of event e is in the item in the map. *)
InMap(e) ==
  \A f \in handled : f.ev = e =>
    eventsInProgress[e] \in Made /\ Span(f) \subseteq items[eventsInProgress[e]].got

LEMMA InMapNext ==
  ASSUME AnyNet, FragInv, BytesInv, FirstInv, LeaveInv, ArrivedInv, Ordered, [Next]_vars,
         NEW e \in Events, e \notin lostEvents[Route[e]], gAt \notin {"drain", "done"},
         e \notin lostEvents'[Route[e]], gAt' \notin {"drain", "done"}, InMap(e)
  PROVE  InMap(e)' \/ \E b \in Made : items[b].ev = e /\ Whole(b)
  <1>. USE DEF AnyNet
  <1>1. Made \subseteq Made' /\ \A b \in Made : items[b].got \subseteq items'[b].got
    BY MadeGrows, GotGrows
  <1>2. ASSUME UNCHANGED handled, eventsInProgress'[e] = eventsInProgress[e]
        PROVE  InMap(e)'
    BY <1>1, <1>2 DEF InMap
  <1>3. ASSUME NEW t \in Threads, NEW f \in Fragments, StartItem(t, f)
        PROVE  InMap(e)'
    <2>1. /\ UNCHANGED handled /\ net[f] > 0
          /\ f.off = 0 \/ eventsInProgress[f.ev] = NoItem
          /\ eventsInProgress' = [eventsInProgress EXCEPT ![f.ev] = Len(items) + 1]
      BY <1>3, ArrivesEffect DEF StartItem
    <2>2. CASE f.ev = e
      <3>1. eventsInProgress[e] = NoItem /\ NoItem \notin Made
        BY <2>1, <2>2, MadeType DEF FirstInv
      <3>. QED
        BY <2>1, <3>1 DEF InMap
    <2>3. CASE f.ev # e
      <3>1. eventsInProgress'[e] = eventsInProgress[e]
        BY <2>1, <2>3 DEF RecvInv, RecvType
      <3>. QED
        BY <1>2, <2>1, <3>1
    <2>. QED
      BY <2>2, <2>3
  <1>4. ASSUME NEW t \in Threads, Copy(t)
        PROVE  InMap(e)'
    <2>. DEFINE b == rItem[t]
                f == rFrag[t]
    <2>1. /\ rAt[t] = "copy" /\ handled' = handled \cup {f} /\ UNCHANGED eventsInProgress
          /\ b \in Made /\ items[b].ev = f.ev /\ items'[b].got = items[b].got \cup Span(f)
      BY <1>4, CopyEffect DEF Copy, mapVars
    <2>2. CASE f.ev = e
      <3>1. b \notin collected
        BY <2>1, <2>2 DEF ArrivedInv
      <3>2. eventsInProgress[e] = b
        BY <2>1, <2>2, <3>1 DEF LeaveInv
      <3>. HIDE DEF b, f
      <3>3. b \in Made' /\ Span(f) \subseteq items'[b].got /\ items[b].got \subseteq items'[b].got
        BY <1>1, <2>1
      <3>. QED
        BY <2>1, <3>2, <3>3 DEF InMap
    <2>3. CASE f.ev # e
      BY <1>1, <2>1, <2>3 DEF InMap
    <2>. QED
      BY <2>2, <2>3
  <1>5. ASSUME NEW t \in Threads, Erase(t)
        PROVE  InMap(e)' \/ \E b \in Made : items[b].ev = e /\ Whole(b)
    <2>1. /\ rAt[t] = "erase" /\ rItem[t] \in Made /\ UNCHANGED handled
          /\ eventsInProgress' = [eventsInProgress EXCEPT ![items[rItem[t]].ev] = NoItem]
      BY <1>5, EraseEffect DEF Erase
    <2>2. Whole(rItem[t])
      BY <2>1, CountedIsWhole DEF FullInv, BytesInv
    <2>3. items[rItem[t]].ev # e => eventsInProgress'[e] = eventsInProgress[e]
      BY <2>1 DEF RecvInv, RecvType
    <2>. QED
      BY <1>2, <2>1, <2>2, <2>3
  <1>6. ASSUME NEW d \in Events, GCCollect(d)
        PROVE  InMap(e)'
    <2>1. /\ gThread \in Threads /\ Route[d] = gThread /\ LogLostEvent(gThread, d, FALSE)
          /\ eventsInProgress' = [eventsInProgress EXCEPT ![d] = NoItem] /\ UNCHANGED handled
      BY <1>6 DEF GCCollect, Expired, GCType, recvVars
    <2>2. lostEvents' = [lostEvents EXCEPT ![gThread] = @ \cup {d}]
      BY <2>1, LogAdds
    <2>3. d # e
      BY <2>1, <2>2 DEF LossType
    <2>4. eventsInProgress'[e] = eventsInProgress[e]
      BY <2>1, <2>3 DEF RecvInv, RecvType
    <2>. QED
      BY <1>1, <2>1, <2>4 DEF InMap
  <1>7. \A t \in Threads : ~GCDrain(t)
    BY DEF GCDrain
  <1>8. CASE \E t \in Threads, f \in Fragments : JoinItem(t, f)
    BY <1>2, <1>8 DEF JoinItem, mapVars
  <1>9. CASE \E t \in Threads : CallEnqueue(t) \/ Idling(t)
    BY <1>2, <1>9, IdlingEffect DEF CallEnqueue, mapVars
  <1>10. CASE Elsewhere
    BY <1>2, <1>10, ElsewhereEffect DEF recvVars
  <1>. QED
    BY <1>3, <1>4, <1>5, <1>6, <1>7, <1>8, <1>9, <1>10, StepCases

LEMMA WholeStays ==
  ASSUME RecvInv, RecvInv', [Next]_vars, NEW b \in Made, Whole(b)
  PROVE  b \in Made' /\ items'[b].ev = items[b].ev /\ Whole(b)'
  <1>1. b \in Made' /\ items'[b].ev = items[b].ev /\ items[b].got \subseteq items'[b].got
    BY MadeGrows, GotGrows
  <1>2. items'[b].got \subseteq 0 .. (Bytes[items'[b].ev] - 1)
    BY <1>1 DEF RecvInv, RecvType
  <1>. QED
    BY <1>1, <1>2 DEF Whole

LEMMA ArrivedNext ==
  ASSUME AnyNet, FragInv, BytesInv, FirstInv, LeaveInv, ArrivedInv, Ordered, [Next]_vars
  PROVE  ArrivedInv'
  <1>. USE DEF AnyNet
  <1>1. ASSUME NEW e \in Events, e \notin lostEvents'[Route[e]], gAt' \notin {"drain", "done"}
        PROVE  InMap(e)' \/ \E b \in Made' : items'[b].ev = e /\ Whole(b)'
    <2>1. e \notin lostEvents[Route[e]] /\ gAt \notin {"drain", "done"}
      <3>1. Route[e] \in Threads
        BY RouteAssumption
      <3>. QED
        BY <1>1, <3>1, LostGrows
    <2>2. InMap(e) \/ \E b \in Made : items[b].ev = e /\ Whole(b)
      BY <2>1 DEF ArrivedInv, InMap
    <2>3. InMap(e)' \/ \E b \in Made : items[b].ev = e /\ Whole(b)
      BY <1>1, <2>1, <2>2, InMapNext
    <2>. QED
      BY <2>3, RecvNext, WholeStays
  <1>2. \A c \in collected' :
          items'[c].ev \in lostEvents'[Route[items'[c].ev]] \/ gAt' \in {"drain", "done"}
    BY CollectedLost
  <1>. QED
    BY <1>1, <1>2 DEF ArrivedInv, InMap

(* Where fragments come in order and once, an event is whole when the last of
   its fragments has been copied, unless it timed out or the maps are drained. *)
THEOREM AllArrivedIsWholeCorrect == Ordered /\ MaxDups = 0 => (SafeSpec => []AllArrivedIsWhole)
<1>. SUFFICES ASSUME Ordered, MaxDups = 0 PROVE SafeSpec => []AllArrivedIsWhole
  OBVIOUS
<1>1. Init => ArrivedInv
  BY DEF Init, ArrivedInv
<1>2. AnyNet /\ FragInv /\ BytesInv /\ FirstInv /\ LeaveInv /\ ArrivedInv /\ [Next]_vars => ArrivedInv'
  BY ArrivedNext
<1>3. AnyNet /\ ArrivedInv => AllArrivedIsWhole
  <2>. SUFFICES ASSUME AnyNet, ArrivedInv, NEW e \in Events,
                       {f \in Fragments : f.ev = e} \subseteq handled,
                       e \notin lostEvents[Route[e]], gAt \notin {"drain", "done"}
                PROVE  \E b \in Made : items[b].ev = e /\ Whole(b)
    BY DEF AllArrivedIsWhole
  <2>. DEFINE b == eventsInProgress[e]
  <2>1. CASE InMap(e)
    <3>1. \A f \in Fragments : f.ev = e => b \in Made /\ Span(f) \subseteq items[b].got
      BY <2>1 DEF InMap
    <3>2. 0 \in 0 .. (Bytes[e] - 1)
      BY BytesAssumption
    <3>3. b \in Made /\ 0 .. (Bytes[e] - 1) \subseteq items[b].got
      BY <3>1, <3>2, TilingAssumption
    <3>4. items[b].ev = e
      BY <3>3 DEF AnyNet, RecvInv, MapOwned
    <3>5. items[b].got \subseteq 0 .. (Bytes[e] - 1)
      BY <3>3, <3>4 DEF AnyNet, RecvInv, RecvType
    <3>. QED
      BY <3>3, <3>4, <3>5 DEF Whole
  <2>. QED
    BY <2>1 DEF ArrivedInv, InMap
<1>. QED
  BY <1>1, <1>2, <1>3, AnyNetCorrect, FragCorrect, OrderCorrect, PTL DEF SafeSpec
=============================================================================
