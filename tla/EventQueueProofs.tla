-------------------------- MODULE EventQueueProofs --------------------------
(***************************************************************************)
(* Proofs about EventQueue, for any items, any finite sets of producers    *)
(* and consumers, and any capacity.                                        *)
(***************************************************************************)
EXTENDS EventQueue, FiniteSetTheorems, TLAPS

(* notify_all() only moves consumers from their wait to their next try. *)
LEMMA NotifiedType ==
  ASSUME cAt \in [Consumers -> ConsumerPlaces]
  PROVE  /\ Notified \in [Consumers -> ConsumerPlaces]
         /\ \A c \in Consumers : Notified[c] = "count" <=> cAt[c] = "count"
  BY DEF Notified, ConsumerPlaces

(* The sampled fill is a residue modulo the size of the counter's type. *)
LEMMA SampleType ==
  ASSUME NEW d \in Int
  PROVE  d % SizeMod \in 0 .. (SizeMod - 1)
  BY SizesAssumption

(* What a producer has in hand, and what a consumer has popped, is an item. *)
HandsFull ==
  /\ \A p \in Offering : pItem[p] \in Items
  /\ \A c \in Uncounting : cItem[c] \in Items

(* Every variable keeps its type, and every hand its item. *)
THEOREM TypeCorrect == SafeSpec => [](TypeOK /\ HandsFull)
<1>. USE DEF ProducerPlaces, ConsumerPlaces, StopPlaces, SendStatePlaces
<1>1. Init => TypeOK /\ HandsFull
  <2>. SUFFICES ASSUME Init PROVE TypeOK /\ HandsFull
    OBVIOUS
  <2>1. eventQueue \in Seq(Items) /\ fill \in 0 .. (SizeMod - 1)
    BY SizesAssumption DEF Init
  <2>2. HandsFull
    BY DEF Init, HandsFull, Offering, Uncounting
  <2>3. ssAt \in SendStatePlaces
    BY useCPAssumption DEF Init
  <2>4. /\ pAt \in [Producers -> ProducerPlaces] /\ pItem \in [Producers -> Items \cup {NoItem}]
        /\ cAt \in [Consumers -> ConsumerPlaces] /\ cItem \in [Consumers -> Items \cup {NoItem}]
    BY DEF Init
  <2>5. /\ offered \subseteq Items /\ delivered \subseteq Items
        /\ dropped \subseteq Items /\ drained \subseteq Items
    BY DEF Init
  <2>6. eventQueueDepth \in Int /\ stopAt \in StopPlaces
    BY DEF Init
  <2>7. threadsStop \in BOOLEAN
    BY Zenon DEF Init
  <2>. QED
    BY <2>1, <2>2, <2>3, <2>4, <2>5, <2>6, <2>7 DEF TypeOK
<1>2. TypeOK /\ HandsFull /\ [Next]_vars => (TypeOK /\ HandsFull)'
  <2>. SUFFICES ASSUME TypeOK, HandsFull, [Next]_vars PROVE (TypeOK /\ HandsFull)'
    OBVIOUS
  <2>. USE DEF TypeOK, HandsFull, Offering, Uncounting, queueVars, producerVars,
               consumerVars, stopVars, stateVars
  <2>1. ASSUME NEW p \in Producers, NEW i \in Items, Offer(p, i)
        PROVE  (TypeOK /\ HandsFull)'
    BY <2>1 DEF Offer
  <2>2. ASSUME NEW p \in Producers, PushAccepted(p)
        PROVE  (TypeOK /\ HandsFull)'
    BY <2>2 DEF PushAccepted
  <2>3. ASSUME NEW p \in Producers, PushRefused(p)
        PROVE  (TypeOK /\ HandsFull)'
    BY <2>3, NotifiedType DEF PushRefused
  <2>4. ASSUME NEW p \in Producers, CountPush(p)
        PROVE  (TypeOK /\ HandsFull)'
    BY <2>4, NotifiedType DEF CountPush
  <2>5. ASSUME NEW p \in Producers, Drop(p)
        PROVE  (TypeOK /\ HandsFull)'
    BY <2>5 DEF Drop
  <2>6. ASSUME NEW p \in Producers, ProducerExit(p)
        PROVE  (TypeOK /\ HandsFull)'
    BY <2>6 DEF ProducerExit
  <2>7. ASSUME NEW c \in Consumers, Call(c) \/ PopEmpty(c) \/ Wait(c) \/ WaitTimeout(c) \/ GiveUp(c)
        PROVE  (TypeOK /\ HandsFull)'
    BY <2>7 DEF Call, PopEmpty, Wait, WaitTimeout, GiveUp
  <2>8. ASSUME NEW c \in Consumers, Pop(c)
        PROVE  (TypeOK /\ HandsFull)'
    BY <2>8 DEF Pop
  <2>9. ASSUME NEW c \in Consumers, Return(c)
        PROVE  (TypeOK /\ HandsFull)'
    BY <2>9 DEF Return
  <2>10. CASE Sample
    BY <2>10, SampleType DEF Sample
  <2>11. CASE Report \/ SendStateExit
    BY <2>11, SizesAssumption DEF Report, SendStateExit
  <2>12. CASE StopThreads
    BY <2>12, NotifiedType DEF StopThreads
  <2>13. CASE JoinThreads \/ DrainEnd
    BY <2>13 DEF JoinThreads, DrainEnd
  <2>15. CASE DrainPop
    <3>1. Head(eventQueue) \in Items /\ Tail(eventQueue) \in Seq(Items)
      BY <2>15 DEF DrainPop
    <3>. QED
      BY <2>15, <3>1 DEF DrainPop
  <2>14. CASE UNCHANGED vars
    BY <2>14 DEF vars
  <2>. HIDE DEF TypeOK, HandsFull
  <2>. QED
    BY <2>1, <2>2, <2>3, <2>4, <2>5, <2>6, <2>7, <2>8, <2>9, <2>10, <2>11, <2>12, <2>13,
       <2>14, <2>15 DEF Next, Enqueue, Dequeue, Drain
<1>. QED
  BY <1>1, <1>2, PTL DEF SafeSpec
-----------------------------------------------------------------------------
(* Each event in one place *)

(* PlacesDisjoint, pair by pair. *)
Apart ==
  /\ InHand \cap (InQueue \cup Taken \cup delivered \cup dropped \cup drained) = {}
  /\ InQueue \cap (Taken \cup delivered \cup dropped \cup drained) = {}
  /\ Taken \cap (delivered \cup dropped \cup drained) = {}
  /\ delivered \cap (dropped \cup drained) = {}
  /\ dropped \cap drained = {}

(* That is all PlacesDisjoint says. *)
LEMMA PlacesApart == PlacesDisjoint <=> Apart
<1>1. /\ Places[1] = InHand /\ Places[2] = InQueue /\ Places[3] = Taken
      /\ Places[4] = delivered /\ Places[5] = dropped /\ Places[6] = drained
  BY DEF Places
<1>2. PlacesDisjoint <=> \A m, n \in {1, 2, 3, 4, 5, 6} : m # n => Places[m] \cap Places[n] = {}
  <2>1. 1 .. 6 = {1, 2, 3, 4, 5, 6}
    OBVIOUS
  <2>. QED
    BY <2>1 DEF PlacesDisjoint
<1>3. ASSUME PlacesDisjoint PROVE Apart
  <2>1. \A m, n \in {1, 2, 3, 4, 5, 6} : m # n => Places[m] \cap Places[n] = {}
    BY <1>2, <1>3
  <2>2. /\ Places[1] \cap Places[2] = {} /\ Places[1] \cap Places[3] = {}
        /\ Places[1] \cap Places[4] = {} /\ Places[1] \cap Places[5] = {}
        /\ Places[1] \cap Places[6] = {}
    BY <2>1
  <2>3. /\ Places[2] \cap Places[3] = {} /\ Places[2] \cap Places[4] = {}
        /\ Places[2] \cap Places[5] = {} /\ Places[2] \cap Places[6] = {}
    BY <2>1
  <2>4. /\ Places[3] \cap Places[4] = {} /\ Places[3] \cap Places[5] = {}
        /\ Places[3] \cap Places[6] = {} /\ Places[4] \cap Places[5] = {}
        /\ Places[4] \cap Places[6] = {} /\ Places[5] \cap Places[6] = {}
    BY <2>1
  <2>. QED
    BY <1>1, <2>2, <2>3, <2>4 DEF Apart
<1>4. ASSUME Apart PROVE PlacesDisjoint
  <2>. SUFFICES ASSUME NEW m \in {1, 2, 3, 4, 5, 6}, NEW n \in {1, 2, 3, 4, 5, 6}, m # n
                PROVE  Places[m] \cap Places[n] = {}
    BY <1>2
  <2>. QED
    BY <1>1, <1>4 DEF Apart
<1>. QED
  BY <1>3, <1>4

(* The same of the next state. *)
LEMMA PlacesApartNext == PlacesDisjoint' <=> Apart'
  BY PlacesApart, PTL

(* The entries of a queue after a push and after a pop. *)
LEMMA AppendEntries ==
  ASSUME NEW S, NEW s \in Seq(S), NEW x \in S,
         \A k, l \in DOMAIN s : s[k] = s[l] => k = l,
         x \notin {s[k] : k \in DOMAIN s}
  PROVE  LET r == Append(s, x)
         IN  /\ {r[k] : k \in DOMAIN r} = {s[k] : k \in DOMAIN s} \cup {x}
             /\ \A k, l \in DOMAIN r : r[k] = r[l] => k = l
  <1>. DEFINE r == Append(s, x)
  <1>1. /\ DOMAIN s = 1 .. Len(s) /\ DOMAIN r = 1 .. (Len(s) + 1) /\ Len(s) \in Nat
        /\ r[Len(s) + 1] = x /\ \A k \in 1 .. Len(s) : r[k] = s[k]
    OBVIOUS
  <1>. HIDE DEF r
  <1>. QED
    BY <1>1 DEF r

(* A tail has the entries of the queue but the head. *)
LEMMA TailEntries ==
  ASSUME NEW S, NEW s \in Seq(S), s # <<>>,
         \A k, l \in DOMAIN s : s[k] = s[l] => k = l
  PROVE  LET r == Tail(s)
         IN  /\ Head(s) \in {s[k] : k \in DOMAIN s}
             /\ {r[k] : k \in DOMAIN r} = {s[k] : k \in DOMAIN s} \ {Head(s)}
             /\ \A k, l \in DOMAIN r : r[k] = r[l] => k = l
  <1>. DEFINE r == Tail(s)
  <1>1. /\ DOMAIN s = 1 .. Len(s) /\ DOMAIN r = 1 .. (Len(s) - 1) /\ Len(s) \in Nat /\ Len(s) >= 1
        /\ Head(s) = s[1] /\ \A k \in 1 .. (Len(s) - 1) : r[k] = s[k + 1]
    OBVIOUS
  <1>. HIDE DEF r
  <1>2. \A k, l \in DOMAIN r : r[k] = r[l] => k = l
    BY <1>1
  <1>3. {r[k] : k \in DOMAIN r} \subseteq {s[k] : k \in DOMAIN s} \ {Head(s)}
    BY <1>1
  <1>4. ASSUME NEW k \in DOMAIN s, s[k] # Head(s)
        PROVE  s[k] \in {r[n] : n \in DOMAIN r}
    <2>1. k - 1 \in DOMAIN r /\ r[k - 1] = s[k]
      BY <1>1, <1>4
    <2>. QED
      BY <2>1
  <1>. QED
    BY <1>1, <1>2, <1>3, <1>4 DEF r

(* No step that leaves the hands, the queue and the fates alone can break it. *)
LEMMA ConservedFrame ==
  ASSUME ConservedOnce,
         Offering' = Offering, \A p \in Offering : pItem'[p] = pItem[p],
         Uncounting' = Uncounting, \A c \in Uncounting : cItem'[c] = cItem[c],
         UNCHANGED <<eventQueue, offered, delivered, dropped, drained>>
  PROVE  ConservedOnce'
<1>1. InHand' = InHand /\ Taken' = Taken /\ InQueue' = InQueue
  BY DEF InHand, Taken, InQueue
<1>2. PlacesDisjoint'
  BY <1>1 DEF ConservedOnce, PlacesDisjoint, Places
<1>3. NoItemTwice' /\ NoItemLost'
  BY <1>1 DEF ConservedOnce, NoItemTwice, NoItemLost
<1>. QED
  BY <1>2, <1>3 DEF ConservedOnce

(* enqueue() takes in an event that was nowhere before. *)
LEMMA ConservedOffer ==
  ASSUME TypeOK, HandsFull, ConservedOnce, NEW p \in Producers, NEW i \in Items, Offer(p, i)
  PROVE  ConservedOnce'
<1>. USE DEF Offer, consumerVars, queueVars, stopVars
<1>1. Offering' = Offering \cup {p} /\ p \notin Offering /\ Uncounting' = Uncounting
  BY DEF Offering, Uncounting, TypeOK
<1>2. pItem'[p] = i /\ \A q \in Offering : pItem'[q] = pItem[q]
  BY <1>1 DEF TypeOK, Offering
<1>3. InHand' = InHand \cup {i} /\ Taken' = Taken /\ InQueue' = InQueue
  BY <1>1, <1>2 DEF InHand, Taken, InQueue
<1>4. i \notin InHand \cup InQueue \cup Taken \cup delivered \cup dropped \cup drained
  BY DEF ConservedOnce, NoItemLost
<1>5. NoItemTwice'
  BY <1>1, <1>2, <1>4 DEF ConservedOnce, NoItemTwice, InHand
<1>6. NoItemLost'
  BY <1>3 DEF ConservedOnce, NoItemLost
<1>7. PlacesDisjoint'
  BY <1>3, <1>4, PlacesApart, PlacesApartNext DEF ConservedOnce, Apart
<1>. QED
  BY <1>5, <1>6, <1>7 DEF ConservedOnce

(* A push moves the event from the producer's hand to the queue's end. *)
LEMMA ConservedPush ==
  ASSUME TypeOK, HandsFull, ConservedOnce, NEW p \in Producers, PushAccepted(p)
  PROVE  ConservedOnce'
<1>. USE DEF PushAccepted, consumerVars, stopVars
<1>1. Offering' = Offering \ {p} /\ p \in Offering /\ Uncounting' = Uncounting
  BY DEF Offering, Uncounting, TypeOK
<1>2. pItem[p] \in InHand /\ pItem[p] \in Items /\ \A q \in Offering \ {p} : pItem'[q] = pItem[q]
  BY <1>1 DEF TypeOK, Offering, InHand, HandsFull
<1>3. pItem[p] \notin InQueue
  BY <1>2, PlacesApart DEF ConservedOnce, Apart
<1>4. InHand' = InHand \ {pItem[p]}
  BY <1>1, <1>2 DEF InHand, ConservedOnce, NoItemTwice
<1>5. /\ InQueue' = InQueue \cup {pItem[p]}
      /\ \A k, l \in DOMAIN eventQueue' : eventQueue'[k] = eventQueue'[l] => k = l
  <2>1. eventQueue \in Seq(Items) /\ \A k, l \in DOMAIN eventQueue : eventQueue[k] = eventQueue[l] => k = l
    BY DEF TypeOK, ConservedOnce, NoItemTwice
  <2>2. eventQueue' = Append(eventQueue, pItem[p])
    OBVIOUS
  <2>. HIDE DEF PushAccepted
  <2>. QED
    BY <1>2, <1>3, <2>1, <2>2, AppendEntries DEF InQueue
<1>6. Taken' = Taken
  BY <1>1 DEF Taken
<1>7. NoItemTwice'
  BY <1>1, <1>2, <1>5 DEF ConservedOnce, NoItemTwice
<1>8. NoItemLost'
  BY <1>2, <1>4, <1>5, <1>6 DEF ConservedOnce, NoItemLost
<1>9. PlacesDisjoint'
  BY <1>2, <1>4, <1>5, <1>6, PlacesApart, PlacesApartNext DEF ConservedOnce, Apart
<1>. QED
  BY <1>7, <1>8, <1>9 DEF ConservedOnce

(* A refused event moves from the producer's hand to the dropped ones. *)
LEMMA ConservedDrop ==
  ASSUME TypeOK, HandsFull, ConservedOnce, NEW p \in Producers, Drop(p)
  PROVE  ConservedOnce'
<1>. USE DEF Drop, consumerVars, stopVars, queueVars
<1>1. Offering' = Offering \ {p} /\ p \in Offering /\ Uncounting' = Uncounting
  BY DEF Offering, Uncounting, TypeOK
<1>2. pItem[p] \in InHand /\ \A q \in Offering \ {p} : pItem'[q] = pItem[q]
  BY <1>1 DEF TypeOK, Offering, InHand
<1>3. InHand' = InHand \ {pItem[p]}
  BY <1>1, <1>2 DEF InHand, ConservedOnce, NoItemTwice
<1>4. Taken' = Taken /\ InQueue' = InQueue /\ dropped' = dropped \cup {pItem[p]}
  BY <1>1 DEF Taken, InQueue
<1>5. NoItemTwice'
  BY <1>1, <1>2 DEF ConservedOnce, NoItemTwice
<1>6. NoItemLost'
  BY <1>2, <1>3, <1>4 DEF ConservedOnce, NoItemLost
<1>7. PlacesDisjoint'
  BY <1>2, <1>3, <1>4, PlacesApart, PlacesApartNext DEF ConservedOnce, Apart
<1>. QED
  BY <1>5, <1>6, <1>7 DEF ConservedOnce

(* A pop takes the head out of the queue. *)
LEMMA PopEntries ==
  ASSUME TypeOK, ConservedOnce, eventQueue # <<>>, eventQueue' = Tail(eventQueue)
  PROVE  /\ Head(eventQueue) \in InQueue
         /\ InQueue' = InQueue \ {Head(eventQueue)}
         /\ \A k, l \in DOMAIN eventQueue' : eventQueue'[k] = eventQueue'[l] => k = l
<1>1. eventQueue \in Seq(Items) /\ \A k, l \in DOMAIN eventQueue : eventQueue[k] = eventQueue[l] => k = l
  BY DEF TypeOK, ConservedOnce, NoItemTwice
<1>. QED
  BY <1>1, TailEntries DEF InQueue

(* A pop moves the head of the queue to the consumer's hand. *)
LEMMA ConservedPop ==
  ASSUME TypeOK, HandsFull, ConservedOnce, NEW c \in Consumers, Pop(c)
  PROVE  ConservedOnce'
<1>. DEFINE h == Head(eventQueue)
<1>1. /\ h \in InQueue /\ InQueue' = InQueue \ {h}
      /\ \A k, l \in DOMAIN eventQueue' : eventQueue'[k] = eventQueue'[l] => k = l
  BY PopEntries DEF Pop
<1>2. /\ Uncounting' = Uncounting \cup {c} /\ c \notin Uncounting /\ Offering' = Offering
      /\ UNCHANGED <<pItem, offered, delivered, dropped, drained>>
  BY DEF Pop, producerVars, stopVars, Uncounting, Offering, TypeOK
<1>3. cItem'[c] = h /\ \A d \in Uncounting : cItem'[d] = cItem[d]
  BY <1>2 DEF Pop, TypeOK, Uncounting
<1>. HIDE DEF h
<1>4. Taken' = Taken \cup {h} /\ InHand' = InHand
  BY <1>2, <1>3 DEF Taken, InHand
<1>5. h \notin Taken
  BY <1>1, PlacesApart DEF ConservedOnce, Apart
<1>6. NoItemTwice'
  BY <1>1, <1>2, <1>3, <1>5 DEF ConservedOnce, NoItemTwice, Taken
<1>7. NoItemLost'
  BY <1>1, <1>2, <1>4 DEF ConservedOnce, NoItemLost
<1>8. PlacesDisjoint'
  BY <1>1, <1>2, <1>4, PlacesApart, PlacesApartNext DEF ConservedOnce, Apart
<1>. QED
  BY <1>6, <1>7, <1>8 DEF ConservedOnce

(* The call hands the event it popped to the user. *)
LEMMA ConservedReturn ==
  ASSUME TypeOK, HandsFull, ConservedOnce, NEW c \in Consumers, Return(c)
  PROVE  ConservedOnce'
<1>1. /\ Uncounting' = Uncounting \ {c} /\ c \in Uncounting /\ Offering' = Offering
      /\ UNCHANGED <<eventQueue, pItem, offered, dropped, drained>>
      /\ delivered' = delivered \cup {cItem[c]}
  BY DEF Return, producerVars, stopVars, Uncounting, Offering, TypeOK
<1>2. cItem[c] \in Taken /\ \A d \in Uncounting \ {c} : cItem'[d] = cItem[d]
  BY <1>1 DEF Return, TypeOK, Uncounting, Taken
<1>3. Taken' = Taken \ {cItem[c]}
  BY <1>1, <1>2 DEF Taken, ConservedOnce, NoItemTwice
<1>4. InHand' = InHand /\ InQueue' = InQueue
  BY <1>1 DEF InHand, InQueue
<1>5. NoItemTwice'
  BY <1>1, <1>2 DEF ConservedOnce, NoItemTwice
<1>6. NoItemLost'
  BY <1>1, <1>2, <1>3, <1>4 DEF ConservedOnce, NoItemLost
<1>7. PlacesDisjoint'
  BY <1>1, <1>2, <1>3, <1>4, PlacesApart, PlacesApartNext DEF ConservedOnce, Apart
<1>. QED
  BY <1>5, <1>6, <1>7 DEF ConservedOnce

(* stopThreads() takes the head of the queue; it had drained it never before. *)
LEMMA ConservedDrain ==
  ASSUME TypeOK, HandsFull, ConservedOnce, DrainPop
  PROVE  /\ ConservedOnce'
         /\ Head(eventQueue) \notin drained
<1>. DEFINE h == Head(eventQueue)
<1>1. /\ h \in InQueue /\ InQueue' = InQueue \ {h}
      /\ \A k, l \in DOMAIN eventQueue' : eventQueue'[k] = eventQueue'[l] => k = l
  BY PopEntries DEF DrainPop
<1>2. /\ Uncounting' = Uncounting /\ Offering' = Offering /\ drained' = drained \cup {h}
      /\ UNCHANGED <<pItem, cItem, offered, delivered, dropped>>
  BY DEF DrainPop, producerVars, consumerVars, Uncounting, Offering
<1>. HIDE DEF h
<1>3. Taken' = Taken /\ InHand' = InHand
  BY <1>2 DEF Taken, InHand
<1>4. h \notin drained
  BY <1>1, PlacesApart DEF ConservedOnce, Apart
<1>5. NoItemTwice'
  BY <1>1, <1>2 DEF ConservedOnce, NoItemTwice
<1>6. NoItemLost'
  BY <1>1, <1>2, <1>3 DEF ConservedOnce, NoItemLost
<1>7. PlacesDisjoint'
  BY <1>1, <1>2, <1>3, PlacesApart, PlacesApartNext DEF ConservedOnce, Apart
<1>. QED
  BY <1>4, <1>5, <1>6, <1>7 DEF ConservedOnce, h

(* The conservation of events: every event given to enqueue() stays in exactly
   one place, in every interleaving of producers, consumers and a stop. *)
THEOREM Conservation == SafeSpec => []ConservedOnce
<1>1. Init => ConservedOnce
  <2>. SUFFICES ASSUME Init PROVE ConservedOnce
    OBVIOUS
  <2>1. Offering = {} /\ Uncounting = {} /\ eventQueue = <<>>
    BY DEF Init, Offering, Uncounting
  <2>2. InHand = {} /\ InQueue = {} /\ Taken = {}
    BY <2>1 DEF InHand, InQueue, Taken
  <2>3. NoItemLost /\ Apart
    BY <2>2 DEF NoItemLost, Apart, Init
  <2>. QED
    BY <2>1, <2>3, PlacesApart DEF ConservedOnce, NoItemTwice
<1>2. TypeOK /\ HandsFull /\ ConservedOnce /\ [Next]_vars => ConservedOnce'
  <2>. SUFFICES ASSUME TypeOK, HandsFull, ConservedOnce, [Next]_vars PROVE ConservedOnce'
    OBVIOUS
  <2>. USE DEF queueVars, producerVars, consumerVars, stopVars, stateVars
  <2>1. ASSUME NEW p \in Producers, PushRefused(p) \/ CountPush(p) \/ ProducerExit(p)
        PROVE  ConservedOnce'
    <3>1. Offering' = Offering /\ pItem' = pItem /\ cItem' = cItem
      BY <2>1 DEF PushRefused, CountPush, ProducerExit, Offering, TypeOK
    <3>2. Uncounting' = Uncounting
      BY <2>1, NotifiedType DEF PushRefused, CountPush, ProducerExit, Uncounting, TypeOK
    <3>3. UNCHANGED <<eventQueue, offered, delivered, dropped, drained>>
      BY <2>1 DEF PushRefused, CountPush, ProducerExit
    <3>. QED
      BY <3>1, <3>2, <3>3, ConservedFrame
  <2>2. ASSUME NEW c \in Consumers, Call(c) \/ PopEmpty(c) \/ Wait(c) \/ WaitTimeout(c) \/ GiveUp(c)
        PROVE  ConservedOnce'
    <3>1. /\ Uncounting' = Uncounting /\ Offering' = Offering /\ pItem' = pItem /\ cItem' = cItem
          /\ UNCHANGED <<eventQueue, offered, delivered, dropped, drained>>
      BY <2>2 DEF Call, PopEmpty, Wait, WaitTimeout, GiveUp, Uncounting, Offering, TypeOK
    <3>. QED
      BY <3>1, ConservedFrame
  <2>3. CASE Sample \/ Report \/ SendStateExit \/ JoinThreads \/ DrainEnd
    <3>1. /\ UNCHANGED <<cAt, pAt, cItem, pItem>>
          /\ UNCHANGED <<eventQueue, offered, delivered, dropped, drained>>
      BY <2>3 DEF Sample, Report, SendStateExit, JoinThreads, DrainEnd
    <3>. QED
      BY <3>1, ConservedFrame DEF Offering, Uncounting
  <2>4. CASE StopThreads
    <3>1. /\ UNCHANGED <<pAt, cItem, pItem>>
          /\ UNCHANGED <<eventQueue, offered, delivered, dropped, drained>>
      BY <2>4 DEF StopThreads
    <3>2. Uncounting' = Uncounting
      BY <2>4, NotifiedType DEF StopThreads, Uncounting, TypeOK
    <3>. QED
      BY <3>1, <3>2, ConservedFrame DEF Offering
  <2>5. CASE UNCHANGED vars
    <3>1. /\ UNCHANGED <<cAt, pAt, cItem, pItem>>
          /\ UNCHANGED <<eventQueue, offered, delivered, dropped, drained>>
      BY <2>5 DEF vars
    <3>. QED
      BY <3>1, ConservedFrame DEF Offering, Uncounting
  <2>. QED
    BY <2>1, <2>2, <2>3, <2>4, <2>5, ConservedOffer, ConservedPush, ConservedDrop, ConservedPop,
       ConservedReturn, ConservedDrain DEF Next, Enqueue, Dequeue, Drain
<1>. QED
  BY <1>1, <1>2, TypeCorrect, PTL DEF SafeSpec

-----------------------------------------------------------------------------
(* The depth counter *)

(* Only finitely many items are ever drained; only then do they have a number. *)
DepthInv == DepthAgrees /\ IsFiniteSet(drained)

(* Only finitely many threads are between a push or pop and its count. *)
LEMMA CountsFinite ==
  /\ IsFiniteSet(Counting) /\ Cardinality(Counting) \in Nat
  /\ IsFiniteSet(Uncounting) /\ Cardinality(Uncounting) \in Nat
<1>1. Counting \in SUBSET Producers /\ Uncounting \in SUBSET Consumers
  BY DEF Counting, Uncounting
<1>. QED
  BY <1>1, ThreadsAssumption, FS_Subset, FS_CardinalityType

(* A step that touches neither the queue nor anyone's count. *)
LEMMA DepthFrame ==
  ASSUME DepthInv, Counting' = Counting, Uncounting' = Uncounting,
         UNCHANGED <<eventQueue, eventQueueDepth, drained>>
  PROVE  DepthInv'
  BY DEF DepthInv, DepthAgrees

(* A push adds an entry and a thread that has yet to count it. *)
LEMMA DepthPush ==
  ASSUME TypeOK, HandsFull, DepthInv, NEW p \in Producers, PushAccepted(p)
  PROVE  DepthInv'
<1>1. /\ Counting' = Counting \cup {p} /\ p \notin Counting /\ Uncounting' = Uncounting
      /\ UNCHANGED <<eventQueueDepth, drained>>
  BY DEF PushAccepted, consumerVars, stopVars, Counting, Uncounting, TypeOK
<1>2. Len(eventQueue') = Len(eventQueue) + 1 /\ Len(eventQueue) \in Nat
  <2>1. eventQueue \in Seq(Items) /\ pItem[p] \in Items /\ eventQueue' = Append(eventQueue, pItem[p])
    BY DEF TypeOK, HandsFull, Offering, PushAccepted
  <2>. QED
    BY <2>1
<1>3. Cardinality(Counting') = Cardinality(Counting) + 1
  BY <1>1, CountsFinite, FS_AddElement
<1>4. Cardinality(drained) \in Nat
  BY FS_CardinalityType DEF DepthInv
<1>. QED
  BY <1>1, <1>2, <1>3, <1>4, CountsFinite DEF DepthInv, DepthAgrees

(* Counting a push ends that thread's debt. *)
LEMMA DepthCountPush ==
  ASSUME TypeOK, DepthInv, NEW p \in Producers, CountPush(p)
  PROVE  DepthInv'
<1>1. /\ Counting' = Counting \ {p} /\ p \in Counting
      /\ eventQueueDepth' = eventQueueDepth + 1 /\ UNCHANGED <<eventQueue, drained>>
  BY DEF CountPush, stopVars, Counting, TypeOK
<1>2. Uncounting' = Uncounting
  BY NotifiedType DEF CountPush, Uncounting, TypeOK
<1>3. Cardinality(Counting') = Cardinality(Counting) - 1
  BY <1>1, CountsFinite, FS_RemoveElement
<1>4. Cardinality(drained) \in Nat /\ Len(eventQueue) \in Nat /\ eventQueueDepth \in Int
  BY FS_CardinalityType DEF DepthInv, TypeOK
<1>. QED
  BY <1>1, <1>2, <1>3, <1>4, CountsFinite DEF DepthInv, DepthAgrees

(* A pop takes an entry and adds a thread that has yet to count it. *)
LEMMA DepthPop ==
  ASSUME TypeOK, DepthInv, NEW c \in Consumers, Pop(c)
  PROVE  DepthInv'
<1>1. /\ Uncounting' = Uncounting \cup {c} /\ c \notin Uncounting /\ Counting' = Counting
      /\ UNCHANGED <<eventQueueDepth, drained>>
  BY DEF Pop, producerVars, stopVars, Counting, Uncounting, TypeOK
<1>2. Len(eventQueue') = Len(eventQueue) - 1 /\ Len(eventQueue) \in Nat
  <2>1. eventQueue \in Seq(Items) /\ eventQueue # <<>> /\ eventQueue' = Tail(eventQueue)
    BY DEF TypeOK, Pop
  <2>. QED
    BY <2>1
<1>3. Cardinality(Uncounting') = Cardinality(Uncounting) + 1
  BY <1>1, CountsFinite, FS_AddElement
<1>4. Cardinality(drained) \in Nat
  BY FS_CardinalityType DEF DepthInv
<1>. QED
  BY <1>1, <1>2, <1>3, <1>4, CountsFinite DEF DepthInv, DepthAgrees

(* Counting a pop ends that thread's debt. *)
LEMMA DepthReturn ==
  ASSUME TypeOK, DepthInv, NEW c \in Consumers, Return(c)
  PROVE  DepthInv'
<1>1. /\ Uncounting' = Uncounting \ {c} /\ c \in Uncounting /\ Counting' = Counting
      /\ eventQueueDepth' = eventQueueDepth - 1 /\ UNCHANGED <<eventQueue, drained>>
  BY DEF Return, producerVars, stopVars, Counting, Uncounting, TypeOK
<1>2. Cardinality(Uncounting') = Cardinality(Uncounting) - 1
  BY <1>1, CountsFinite, FS_RemoveElement
<1>3. Cardinality(drained) \in Nat /\ Len(eventQueue) \in Nat /\ eventQueueDepth \in Int
  BY FS_CardinalityType DEF DepthInv, TypeOK
<1>. QED
  BY <1>1, <1>2, <1>3, CountsFinite DEF DepthInv, DepthAgrees

(* The drained item is counted here because it was never drained before. *)
LEMMA DepthDrain ==
  ASSUME TypeOK, HandsFull, ConservedOnce, DepthInv, DrainPop
  PROVE  DepthInv'
<1>1. /\ drained' = drained \cup {Head(eventQueue)} /\ Head(eventQueue) \notin drained
      /\ UNCHANGED eventQueueDepth
  BY ConservedDrain DEF DrainPop
<1>2. Counting' = Counting /\ Uncounting' = Uncounting
  BY DEF DrainPop, producerVars, consumerVars, Counting, Uncounting
<1>3. Len(eventQueue') = Len(eventQueue) - 1 /\ Len(eventQueue) \in Nat
  <2>1. eventQueue \in Seq(Items) /\ eventQueue # <<>> /\ eventQueue' = Tail(eventQueue)
    BY DEF TypeOK, DrainPop
  <2>. QED
    BY <2>1
<1>4. /\ IsFiniteSet(drained') /\ Cardinality(drained) \in Nat
      /\ Cardinality(drained') = Cardinality(drained) + 1
  BY <1>1, FS_AddElement, FS_CardinalityType DEF DepthInv
<1>. QED
  BY <1>1, <1>2, <1>3, <1>4, CountsFinite DEF DepthInv, DepthAgrees

(* The counter can be read at any moment and is off by exactly the pushes and
   pops that are still to be counted, and by what a stop has drained. *)
THEOREM DepthCorrect == SafeSpec => []DepthAgrees
<1>1. Init => DepthInv
  <2>. SUFFICES ASSUME Init PROVE DepthInv
    OBVIOUS
  <2>1. Counting = {} /\ Uncounting = {} /\ drained = {} /\ Len(eventQueue) = 0 /\ eventQueueDepth = 0
    BY DEF Init, Counting, Uncounting
  <2>. QED
    BY <2>1, FS_EmptySet DEF DepthInv, DepthAgrees
<1>2. TypeOK /\ HandsFull /\ ConservedOnce /\ DepthInv /\ [Next]_vars => DepthInv'
  <2>. SUFFICES ASSUME TypeOK, HandsFull, ConservedOnce, DepthInv, [Next]_vars PROVE DepthInv'
    OBVIOUS
  <2>. USE DEF queueVars, producerVars, consumerVars, stopVars, stateVars
  <2>1. ASSUME NEW p \in Producers, NEW i \in Items, Offer(p, i)
        PROVE  DepthInv'
    BY <2>1, DepthFrame DEF Offer, Counting, Uncounting, TypeOK
  <2>2. ASSUME NEW p \in Producers, PushRefused(p)
        PROVE  DepthInv'
    <3>1. Counting' = Counting /\ UNCHANGED <<eventQueue, eventQueueDepth, drained>>
      BY <2>2 DEF PushRefused, Counting, TypeOK
    <3>2. Uncounting' = Uncounting
      BY <2>2, NotifiedType DEF PushRefused, Uncounting, TypeOK
    <3>. QED
      BY <3>1, <3>2, DepthFrame
  <2>3. ASSUME NEW p \in Producers, Drop(p) \/ ProducerExit(p)
        PROVE  DepthInv'
    BY <2>3, DepthFrame DEF Drop, ProducerExit, Counting, Uncounting, TypeOK
  <2>4. ASSUME NEW c \in Consumers, Call(c) \/ PopEmpty(c) \/ Wait(c) \/ WaitTimeout(c) \/ GiveUp(c)
        PROVE  DepthInv'
    <3>1. /\ Counting' = Counting /\ Uncounting' = Uncounting
          /\ UNCHANGED <<eventQueue, eventQueueDepth, drained>>
      BY <2>4 DEF Call, PopEmpty, Wait, WaitTimeout, GiveUp, Counting, Uncounting, TypeOK
    <3>. QED
      BY <3>1, DepthFrame
  <2>5. CASE Sample \/ Report \/ SendStateExit \/ JoinThreads \/ DrainEnd
    <3>1. /\ UNCHANGED <<pAt, cAt, eventQueue, eventQueueDepth, drained>>
      BY <2>5 DEF Sample, Report, SendStateExit, JoinThreads, DrainEnd
    <3>. QED
      BY <3>1, DepthFrame DEF Counting, Uncounting
  <2>6. CASE StopThreads
    <3>1. UNCHANGED <<pAt, eventQueue, eventQueueDepth, drained>>
      BY <2>6 DEF StopThreads
    <3>2. Uncounting' = Uncounting
      BY <2>6, NotifiedType DEF StopThreads, Uncounting, TypeOK
    <3>. QED
      BY <3>1, <3>2, DepthFrame DEF Counting
  <2>7. CASE UNCHANGED vars
    BY <2>7, DepthFrame DEF vars, Counting, Uncounting
  <2>. QED
    BY <2>1, <2>2, <2>3, <2>4, <2>5, <2>6, <2>7, DepthPush, DepthCountPush, DepthPop,
       DepthReturn, DepthDrain DEF Next, Enqueue, Dequeue, Drain
<1>3. DepthInv => DepthAgrees
  BY DEF DepthInv
<1>. QED
  BY <1>1, <1>2, <1>3, TypeCorrect, Conservation, PTL DEF SafeSpec

-----------------------------------------------------------------------------
(* The stop *)

(* Once the receive threads are joined none of them runs again, so the queue
   can only shrink. *)
StopInv ==
  /\ stopAt \in {"drain", "stopped"} => \A p \in Producers : pAt[p] = "exited"
  /\ StoppedMeansEmpty

LEMMA StopCorrect == SafeSpec => []StopInv
<1>1. Init => StopInv
  BY DEF Init, StopInv, StoppedMeansEmpty
<1>2. TypeOK /\ StopInv /\ [Next]_vars => StopInv'
  <2>. SUFFICES ASSUME TypeOK, StopInv, [Next]_vars PROVE StopInv'
    OBVIOUS
  <2>. USE DEF StopInv, StoppedMeansEmpty
  <2>1. ASSUME NEW p \in Producers, (\E i \in Items : Offer(p, i)) \/ Enqueue(p) \/ ProducerExit(p)
        PROVE  StopInv'
    <3>1. pAt[p] # "exited" /\ stopAt' = stopAt
      BY <2>1 DEF Offer, Enqueue, PushAccepted, PushRefused, CountPush, Drop, ProducerExit, stopVars
    <3>. QED
      BY <3>1
  <2>2. ASSUME NEW c \in Consumers, Call(c) \/ Dequeue(c) \/ Wait(c) \/ WaitTimeout(c) \/ GiveUp(c)
        PROVE  StopInv'
    <3>1. pAt' = pAt /\ stopAt' = stopAt
      BY <2>2 DEF Call, Dequeue, Pop, PopEmpty, Return, Wait, WaitTimeout, GiveUp, producerVars, stopVars
    <3>2. eventQueue = <<>> => eventQueue' = <<>>
      BY <2>2 DEF Call, Dequeue, Pop, PopEmpty, Return, Wait, WaitTimeout, GiveUp, queueVars
    <3>. QED
      BY <3>1, <3>2
  <2>3. CASE Sample \/ Report \/ SendStateExit
    BY <2>3 DEF Sample, Report, SendStateExit, queueVars, producerVars, stopVars
  <2>4. CASE StopThreads
    BY <2>4 DEF StopThreads
  <2>5. CASE Drain
    BY <2>5 DEF Drain, JoinThreads, DrainPop, DrainEnd, queueVars, producerVars
  <2>6. CASE UNCHANGED vars
    BY <2>6 DEF vars
  <2>. QED
    BY <2>1, <2>2, <2>3, <2>4, <2>5, <2>6 DEF Next
<1>. QED
  BY <1>1, <1>2, TypeCorrect, PTL DEF SafeSpec

(* stopThreads() leaves the queue empty for good. *)
THEOREM StopDrains == SafeSpec => []StoppedMeansEmpty
<1>1. StopInv => StoppedMeansEmpty
  BY DEF StopInv
<1>. QED
  BY <1>1, StopCorrect, PTL
=============================================================================
