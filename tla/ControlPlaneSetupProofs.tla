----------------------- MODULE ControlPlaneSetupProofs -----------------------
(***************************************************************************)
(* Proofs about what the set-up computes in ControlPlane: the ports a      *)
(* receiver announces are those it binds, one thread each, and a sender    *)
(* sends to the LB it was told of.                                         *)
(***************************************************************************)
EXTENDS ControlPlaneURIProofs

-----------------------------------------------------------------------------
(* Ports *)

(* The powers of two that matter here, as a table. *)
Table(f) ==
  /\ f[0] = 1 /\ f[1] = 2 /\ f[2] = 4 /\ f[3] = 8 /\ f[4] = 16 /\ f[5] = 32 /\ f[6] = 64
  /\ f[7] = 128 /\ f[8] = 256 /\ f[9] = 512 /\ f[10] = 1024 /\ f[11] = 2048
  /\ f[12] = 4096 /\ f[13] = 8192 /\ f[14] = 16384

MostPorts == 16384
PortSpace == 65536
InRange(f) == \A r \in 0 .. 14 : f[r] \in 1 .. MostPorts
Doubles(f) == \A r \in 1 .. 14 : f[r] = 2 * f[r - 1]
Increases(f) == \A q, r \in 0 .. 14 : q < r => f[q] < f[r]
Enough(f, n, r) == f[r] >= n /\ f[r - 1] < n
SomeEnough(f) == \A n \in 2 .. MostPorts : \E r \in 1 .. 14 : Enough(f, n, r)
Grows(f) == InRange(f) /\ Doubles(f) /\ Increases(f) /\ SomeEnough(f)

LEMMA TableGrows ==
  ASSUME NEW f, Table(f)
  PROVE  Grows(f)
<1>1. InRange(f)
  BY DEF Table, InRange, MostPorts
<1>2. Doubles(f)
  BY DEF Table, Doubles
<1>3. Increases(f)
  BY DEF Table, Increases
<1>4. ASSUME NEW n \in 2 .. MostPorts PROVE \E r \in 1 .. 14 : Enough(f, n, r)
  <2>1. \/ Enough(f, n, 1) \/ Enough(f, n, 2) \/ Enough(f, n, 3) \/ Enough(f, n, 4)
        \/ Enough(f, n, 5) \/ Enough(f, n, 6) \/ Enough(f, n, 7) \/ Enough(f, n, 8)
        \/ Enough(f, n, 9) \/ Enough(f, n, 10) \/ Enough(f, n, 11) \/ Enough(f, n, 12)
        \/ Enough(f, n, 13) \/ Enough(f, n, 14)
    BY DEF Table, Enough, MostPorts
  <2>2. /\ 1 \in 1 .. 14 /\ 2 \in 1 .. 14 /\ 3 \in 1 .. 14 /\ 4 \in 1 .. 14 /\ 5 \in 1 .. 14
        /\ 6 \in 1 .. 14 /\ 7 \in 1 .. 14 /\ 8 \in 1 .. 14 /\ 9 \in 1 .. 14 /\ 10 \in 1 .. 14
        /\ 11 \in 1 .. 14 /\ 12 \in 1 .. 14 /\ 13 \in 1 .. 14 /\ 14 \in 1 .. 14
    OBVIOUS
  <2>. QED
    BY <2>1, <2>2, Zenon
<1>. QED
  BY <1>1, <1>2, <1>3, <1>4, Zenon DEF Grows, SomeEnough

PowerOfTwo == [i \in 0 .. 14 |-> 2^i]

LEMMA Powers == Grows(PowerOfTwo) /\ \A r \in 0 .. 14 : PowerOfTwo[r] = 2^r
<1>1. /\ 2^0 = 1 /\ 2^1 = 2 /\ 2^2 = 4 /\ 2^3 = 8 /\ 2^4 = 16 /\ 2^5 = 32 /\ 2^6 = 64
      /\ 2^7 = 128 /\ 2^8 = 256 /\ 2^9 = 512 /\ 2^10 = 1024 /\ 2^11 = 2048
      /\ 2^12 = 4096 /\ 2^13 = 8192 /\ 2^14 = 16384
  BY SMT
<1>2. Table(PowerOfTwo)
  BY <1>1, SMT DEF Table, PowerOfTwo
<1>3. \A r \in 0 .. 14 : PowerOfTwo[r] = 2^r
  BY Zenon DEF PowerOfTwo
<1>. QED
  BY <1>2, <1>3, TableGrows, Zenon

LEMMA MostPortsNat == MostPorts \in Nat /\ MostPorts > 2
BY DEF MostPorts

LEMMA PortRangeCases ==
  ASSUME NEW n
  PROVE  GetPortRange(n) = IF n < 2 THEN 0 ELSE IF n > MostPorts THEN 14
                           ELSE CHOOSE r \in 1 .. 14 : 2^r >= n /\ 2^(r - 1) < n
BY DEF GetPortRange, MostPorts

(* The exponent LBManager announces is that of the number of ports. *)
LEMMA Announced ==
  ASSUME NEW r \in 0 .. 14
  PROVE  /\ NumRecvPorts(r) = 2^r /\ 2^r \in 1 .. MostPorts
         /\ GetPortRange(NumRecvPorts(r)) = r
<1>. DEFINE f == PowerOfTwo
<1>1. InRange(f) /\ Doubles(f) /\ Increases(f)
  BY Powers, Zenon DEF Grows
<1>2. \A i \in 0 .. 14 : f[i] = 2^i
  BY Powers, Zenon
<1>3. f[0] = 1
  <2>1. 2^0 = 1 /\ 0 \in 0 .. 14
    BY SMT
  <2>. QED
    BY <1>2, <2>1, Zenon
<1>. HIDE DEF f
<1>4. f[r] = 2^r /\ f[r] \in 1 .. MostPorts
  BY <1>1, <1>2, Zenon DEF InRange
<1>5. NumRecvPorts(r) = f[r]
  <2>1. NumRecvPorts(r) = IF r > 0 THEN f[r] ELSE 1
    BY <1>4, Zenon DEF NumRecvPorts
  <2>. QED
    BY <1>3, <2>1, SMT
<1>6. CASE r = 0
  <2>1. f[r] < 2
    BY <1>3, <1>6, SMT
  <2>2. GetPortRange(f[r]) = 0
    BY <2>1, PortRangeCases, Zenon
  <2>. QED
    BY <1>4, <1>5, <1>6, <2>2, Zenon
<1>7. CASE r # 0
  <2>1. f[r] \in 2 .. MostPorts /\ f[r] = 2 * f[r - 1] /\ f[r - 1] \in 1 .. MostPorts
    BY <1>1, <1>4, <1>7, MostPortsNat, SMT DEF InRange, Doubles
  <2>2. Enough(f, f[r], r)
    BY <2>1, MostPortsNat, SMT DEF Enough
  <2>3. ASSUME NEW q \in 1 .. 14, Enough(f, f[r], q) PROVE q = r
    <3>1. q < r => f[q] < f[r]
      BY <1>1, SMT DEF Increases
    <3>2. r < q => f[r] <= f[q - 1]
      <4>1. r < q => r = q - 1 \/ r < q - 1
        BY SMT
      <4>2. q - 1 \in 0 .. 14
        BY SMT
      <4>3. f[q - 1] \in 1 .. MostPorts
        BY <1>1, <4>2, Zenon DEF InRange
      <4>4. r < q - 1 => f[r] < f[q - 1]
        BY <1>1, <4>2, Zenon DEF Increases
      <4>. QED
        BY <1>4, <4>1, <4>3, <4>4, MostPortsNat, SMT
    <3>3. f[q] \in 1 .. MostPorts /\ f[q - 1] \in 1 .. MostPorts
      BY <1>1, SMT DEF InRange
    <3>. QED
      BY <1>4, <2>3, <3>1, <3>2, <3>3, MostPortsNat, SMT DEF Enough
  <2>4. r \in 1 .. 14
    BY <1>7, SMT
  <2>5. (CHOOSE q \in 1 .. 14 : Enough(f, f[r], q)) = r
    BY <2>2, <2>3, <2>4, Zenon
  <2>6. GetPortRange(f[r]) = CHOOSE q \in 1 .. 14 : Enough(f, f[r], q)
    <3>1. \A q \in 1 .. 14 : Enough(f, f[r], q) <=> 2^q >= f[r] /\ 2^(q - 1) < f[r]
      <4>. TAKE q \in 1 .. 14
      <4>1. q \in 0 .. 14 /\ q - 1 \in 0 .. 14
        BY SMT
      <4>2. f[q] = 2^q /\ f[q - 1] = 2^(q - 1)
        BY <1>2, <4>1, Zenon
      <4>. QED
        BY <4>2, Zenon DEF Enough
    <3>2. (CHOOSE q \in 1 .. 14 : Enough(f, f[r], q))
            = CHOOSE q \in 1 .. 14 : 2^q >= f[r] /\ 2^(q - 1) < f[r]
      BY <3>1, Zenon
    <3>3. ~(f[r] < 2) /\ ~(f[r] > MostPorts)
      BY <2>1, MostPortsNat, SMT
    <3>. QED
      BY <3>2, <3>3, PortRangeCases, Zenon
  <2>. QED
    BY <1>4, <1>5, <2>5, <2>6, Zenon
<1>. QED
  BY <1>6, <1>7, Zenon

LEMMA PortRangeExists ==
  ASSUME NEW n \in Nat
  PROVE  GetPortRange(n) \in 0 .. 14
<1>. DEFINE Fits(q) == 2^q >= n /\ 2^(q - 1) < n
<1>1. CASE n < 2
  <2>1. GetPortRange(n) = 0
    BY <1>1, PortRangeCases, Zenon
  <2>. QED
    BY <2>1, SMT
<1>2. CASE ~(n < 2) /\ n > MostPorts
  <2>1. GetPortRange(n) = 14
    BY <1>2, PortRangeCases, Zenon
  <2>. QED
    BY <2>1, SMT
<1>3. CASE ~(n < 2) /\ ~(n > MostPorts)
  <2>1. n \in 2 .. MostPorts
    BY <1>3, MostPortsNat, SMT
  <2>2. PICK r \in 1 .. 14 : Enough(PowerOfTwo, n, r)
    BY <2>1, Powers, Zenon DEF Grows, SomeEnough
  <2>3. r \in 0 .. 14 /\ r - 1 \in 0 .. 14
    BY SMT
  <2>4. PowerOfTwo[r] = 2^r /\ PowerOfTwo[r - 1] = 2^(r - 1)
    BY <2>3, Powers, Zenon
  <2>5. Fits(r)
    BY <2>2, <2>4, Zenon DEF Enough
  <2>6. GetPortRange(n) = CHOOSE q \in 1 .. 14 : Fits(q)
    BY <1>3, PortRangeCases, Zenon
  <2>. HIDE DEF Fits
  <2>7. (CHOOSE q \in 1 .. 14 : Fits(q)) \in 1 .. 14
    BY <2>5, Zenon
  <2>. QED
    BY <2>6, <2>7, SMT
<1>. QED
  BY <1>1, <1>2, <1>3, Zenon

(* The ports dealt to the threads are all of a range, none dealt twice. *)
Written(P) == {p % PortSpace : p \in UNION {P[j] : j \in DOMAIN P}}
NoneTwice(P) == \A i, j \in DOMAIN P : i # j => P[i] \cap P[j] = {}
GoesTo(k, threads, j) == k % threads = j - 1
Deals(P, port, count, threads) ==
  /\ DOMAIN P = 1 .. threads
  /\ \A j \in DOMAIN P : \A p : p \in P[j] <=>
        \E k \in 0 .. count - 1 : GoesTo(k, threads, j) /\ p = port + k

LEMMA AssignPortsDeals ==
  ASSUME NEW port, NEW count, NEW threads, NEW P, P = AssignPorts(port, count, threads)
  PROVE  Deals(P, port, count, threads)
<1>1. DOMAIN P = 1 .. threads
  BY Zenon DEF AssignPorts, GoesTo
<1>2. \A j \in 1 .. threads :
        P[j] = {port + i : i \in {k \in 0 .. count - 1 : GoesTo(k, threads, j)}}
  BY Zenon DEF AssignPorts, GoesTo
<1>3. \A j \in DOMAIN P : \A p : p \in P[j] <=>
        \E k \in 0 .. count - 1 : GoesTo(k, threads, j) /\ p = port + k
  <2>. TAKE j \in DOMAIN P
  <2>1. P[j] = {port + i : i \in {k \in 0 .. count - 1 : GoesTo(k, threads, j)}}
    BY <1>1, <1>2, Zenon
  <2>. DEFINE K == {k \in 0 .. count - 1 : GoesTo(k, threads, j)}
  <2>2. \A k : k \in K <=> k \in 0 .. count - 1 /\ GoesTo(k, threads, j)
    BY Zenon
  <2>3. P[j] = {port + i : i \in K}
    BY <2>1, Zenon
  <2>. HIDE DEF K
  <2>4. \A p : p \in P[j] <=> \E k \in K : p = port + k
    BY <2>3, Zenon
  <2>. QED
    BY <2>2, <2>4, Zenon
<1>. QED
  BY <1>1, <1>3, Zenon DEF Deals

LEMMA Dealt ==
  ASSUME NEW port \in Nat, NEW count \in Nat, NEW threads \in Nat \ {0}, port + count <= PortSpace,
         NEW P, Deals(P, port, count, threads)
  PROVE  Written(P) = port .. port + count - 1 /\ NoneTwice(P)
<1>1. DOMAIN P = 1 .. threads
  BY Zenon DEF Deals
<1>3. \A j \in DOMAIN P : \A p : p \in P[j] <=>
        \E k \in 0 .. count - 1 : GoesTo(k, threads, j) /\ p = port + k
  BY Zenon DEF Deals
<1>4. \A k \in Nat : k % threads \in 0 .. threads - 1
  BY SMT
<1>5. ASSUME NEW j \in DOMAIN P, NEW p \in P[j] PROVE p \in port .. port + count - 1
  <2>1. PICK k \in 0 .. count - 1 : p = port + k
    <3>1. \E k \in 0 .. count - 1 : GoesTo(k, threads, j) /\ p = port + k
      BY <1>3, Zenon
    <3>. QED
      BY <3>1
  <2>. QED
    BY <2>1, SMT
<1>6. ASSUME NEW p \in port .. port + count - 1 PROVE \E j \in DOMAIN P : p \in P[j]
  <2>. DEFINE k == p - port
              j == (k % threads) + 1
  <2>1. k \in 0 .. count - 1 /\ k \in Nat /\ p = port + k
    BY SMT
  <2>. HIDE DEF k
  <2>2. k % threads \in 0 .. threads - 1
    BY <1>4, <2>1, Zenon
  <2>3. j \in 1 .. threads /\ GoesTo(k, threads, j)
    BY <2>2, SMT DEF GoesTo
  <2>. HIDE DEF j
  <2>. QED
    BY <1>1, <1>3, <2>1, <2>3, Zenon
<1>7. UNION {P[j] : j \in DOMAIN P} = port .. port + count - 1
  BY <1>5, <1>6, Zenon
<1>8. \A p \in port .. port + count - 1 : p % PortSpace = p
  BY SMT DEF PortSpace
<1>9. ASSUME NEW i \in DOMAIN P, NEW j \in DOMAIN P, NEW p, p \in P[i], p \in P[j] PROVE i = j
  <2>1. PICK k \in 0 .. count - 1 : GoesTo(k, threads, i) /\ p = port + k
    BY <1>3, <1>9, Zenon
  <2>2. PICK m \in 0 .. count - 1 : GoesTo(m, threads, j) /\ p = port + m
    BY <1>3, <1>9, Zenon
  <2>3. k = m
    BY <2>1, <2>2, SMT
  <2>. QED
    BY <1>1, <2>1, <2>2, <2>3, SMT DEF GoesTo
<1>10. Written(P) = port .. port + count - 1
  <2>. DEFINE Cut(p) == p % PortSpace
              S == port .. port + count - 1
  <2>1. \A p \in S : Cut(p) = p
    BY <1>8
  <2>. HIDE DEF Cut, S
  <2>2. {Cut(p) : p \in S} = S
    BY <2>1, Zenon
  <2>. QED
    BY <1>7, <2>2 DEF Cut, S, Written
<1>11. ASSUME NEW i \in DOMAIN P, NEW j \in DOMAIN P, i # j PROVE P[i] \cap P[j] = {}
  <2>1. ASSUME NEW p \in P[i] \cap P[j] PROVE FALSE
    BY <1>9, <1>11, Zenon
  <2>. QED
    BY <2>1, Zenon
<1>. QED
  BY <1>10, <1>11, Zenon DEF NoneTwice

-----------------------------------------------------------------------------
(* What the constructors leave *)

(* A receiver binds, each on one thread, as many ports as a power of two says *)
(* whose exponent is the one it announces.                                    *)
Built(r) ==
  /\ BoundPorts(r) = r.port .. r.port + 2^GetPortRange(r.numRecvPorts) - 1
  /\ NoneTwice(r.threadsToPorts)

LEMMA NumRecvPortsExact ==
  ASSUME NEW range \in Int, range <= 14
  PROVE  /\ NumRecvPorts(range) \in Nat
         /\ 2^GetPortRange(NumRecvPorts(range)) = NumRecvPorts(range)
<1>1. CASE range \in 0 .. 14
  <2>1. /\ NumRecvPorts(range) = 2^range /\ 2^range \in 1 .. MostPorts
        /\ GetPortRange(NumRecvPorts(range)) = range
    BY <1>1, Announced, Zenon
  <2>2. 2^range \in Nat
    BY <2>1, MostPortsNat, SMT
  <2>. QED
    BY <2>1, <2>2, Zenon
<1>2. CASE range < 0
  <2>1. ~(range > 0)
    BY <1>2, SMT
  <2>2. NumRecvPorts(range) = 1
    BY <2>1, Zenon DEF NumRecvPorts
  <2>3. 1 < 2 /\ 2^0 = 1 /\ 1 \in Nat
    BY SMT
  <2>4. GetPortRange(1) = 0
    BY <2>3, PortRangeCases, Zenon
  <2>. QED
    BY <2>2, <2>3, <2>4, Zenon
<1>. QED
  BY <1>1, <1>2, SMT

LEMMA ReassemblerBuilt ==
  ASSUME NEW u, NEW flags, NEW ip, NEW port \in Nat, NEW threads \in Nat \ {0}, NEW v6, NEW affinity,
         NEW range, range = PortRange(flags, threads), flags.portRange \in Int,
         range <= 14 => port + NumRecvPorts(range) <= PortSpace,
         NEW r, r = Reassembler(u, flags, ip, port, threads, v6, affinity), r.ok
  PROVE  Built(r)
<1>1. range \in Int
  <2>1. CASE flags.portRange # -1
    BY <2>1 DEF PortRange
  <2>2. CASE flags.portRange = -1
    <3>1. range = GetPortRange(threads) /\ threads \in Nat
      BY <2>2, Zenon DEF PortRange
    <3>2. GetPortRange(threads) \in 0 .. 14
      BY <3>1, PortRangeExists
    <3>. QED
      BY <3>1, <3>2
  <2>. QED
    BY <2>1, <2>2
<1>2. /\ ReassemblerSane(u, flags, port, threads)
      /\ r.port = port /\ r.numRecvPorts = NumRecvPorts(range)
      /\ r.threadsToPorts = AssignPorts(port, NumRecvPorts(range), threads)
  <2>1. ~Throw.ok
    BY DEF Throw
  <2>2. \/ r = Throw
        \/ /\ ReassemblerSane(u, flags, port, threads)
           /\ \E a : r = [ok |-> TRUE, uri |-> u, useCP |-> flags.useCP, addr |-> a,
                         port |-> port, numRecvPorts |-> NumRecvPorts(range),
                         threadsToPorts |-> AssignPorts(port, NumRecvPorts(range), threads),
                         weight |-> flags.weight, min_factor |-> flags.min_factor,
                         max_factor |-> flags.max_factor]
    BY Zenon DEF Reassembler
  <2>. QED
    BY <2>1, <2>2
<1>3. range <= 14
  BY <1>2, SMTT(30) DEF ReassemblerSane
<1>4. PICK count \in Nat : count = NumRecvPorts(range) /\ 2^GetPortRange(count) = count
  BY <1>1, <1>3, NumRecvPortsExact
<1>5. port + count <= PortSpace
  BY <1>3, <1>4, Zenon
<1>6. Deals(r.threadsToPorts, port, count, threads)
  BY <1>2, <1>4, AssignPortsDeals, Zenon
<1>7. Written(r.threadsToPorts) = port .. port + count - 1 /\ NoneTwice(r.threadsToPorts)
  BY <1>5, <1>6, Dealt, Zenon
<1>8. BoundPorts(r) = Written(r.threadsToPorts)
  BY DEF BoundPorts, PortSpace, Written
<1>. QED
  BY <1>2, <1>4, <1>7, <1>8, Zenon DEF Built

(* What registerWorker() asks for is what the constructor left. *)
AsBuilt(w, r) ==
  w.addr = r.addr /\ w.port = r.port /\ w.sources = GetPortRange(r.numRecvPorts)

LEMMA RegistersAsBuilt ==
  ASSUME NEW r, NEW u, NEW name, NEW req, req = RegisterSelf(r, u, name), req.op # "early"
  PROVE  AsBuilt(req.arg, r)
  BY DEF RegisterSelf, RegisterWorker, Rpc, Early, NoToken, AsBuilt

(* A sender's sockets, as many as the constructor admits, send to the LB. *)
SmallEnough == 128

LEMMA SocketsFit ==
  /\ DATAPLANE_PORT \in Nat /\ PortSpace \in Nat /\ SmallEnough \in Nat
  /\ DATAPLANE_PORT + SmallEnough < PortSpace
  BY SMTT(60) DEF DATAPLANE_PORT, PortSpace, SmallEnough

LEMMA SendsToLB ==
  ASSUME NEW u, NEW flags, ~flags.dpV6, flags.numSendSockets \in Int,
         flags.numSendSockets <= SmallEnough, u.dataPort = DATAPLANE_PORT,
         NEW d \in Destinations(u, flags)
  PROVE  /\ d.addr = u.v4
         /\ d.port \in DATAPLANE_PORT .. DATAPLANE_PORT + flags.numSendSockets - 1
<1>. DEFINE n == flags.numSendSockets
            Sent(i) == [addr |-> IF flags.dpV6 THEN u.v6 ELSE u.v4,
                        port |-> (u.dataPort + (IF flags.multiPort THEN i ELSE 0)) % PortSpace]
<1>1. Destinations(u, flags) = {Sent(i) : i \in 0 .. n - 1}
  BY DEF Destinations, PortSpace
<1>2. PICK i \in 0 .. n - 1 : d = Sent(i)
  <2>. HIDE DEF Sent, n
  <2>. QED
    BY <1>1, Zenon
<1>3. PICK k : k = IF flags.multiPort THEN i ELSE 0
  OBVIOUS
<1>4. d.addr = u.v4 /\ d.port = (DATAPLANE_PORT + k) % PortSpace
  BY <1>2, <1>3, Zenon
<1>5. n \in Int /\ n <= SmallEnough
  OBVIOUS
<1>. HIDE DEF n, Sent
<1>6. k = i \/ k = 0
  BY <1>3, Zenon
<1>7. k \in 0 .. n - 1
  BY <1>5, <1>6, SMT
<1>8. DATAPLANE_PORT + k \in Nat /\ DATAPLANE_PORT + k < PortSpace
  BY <1>5, <1>7, SocketsFit, SMT
<1>9. \A a, b \in Nat : a < b => a % b = a
  BY SMT
<1>10. (DATAPLANE_PORT + k) % PortSpace = DATAPLANE_PORT + k
  BY <1>8, <1>9, SocketsFit, SMT
<1>11. DATAPLANE_PORT + k \in DATAPLANE_PORT .. DATAPLANE_PORT + n - 1
  BY <1>5, <1>7, SocketsFit, SMT
<1>. QED
  BY <1>4, <1>10, <1>11, Zenon DEF n

-----------------------------------------------------------------------------
(* The ports announced are the ports bound *)

AnnounceCall ==
  LET r == rpc["worker"]
  IN /\ r.phase = "sent" => AsBuilt(r.req.arg, worker.reas)
     /\ r.phase = "done" /\ r.ok => AsBuilt(sessions[r.rep.sid].w, worker.reas)

(* EndpointsAgree is not inductive: the session must record what was built, *)
(* from the call that opens it on.                                          *)
AnnounceInv ==
  /\ worker.pc \in Launched => Built(worker.reas)
  /\ worker.pc = "registering" => AnnounceCall
  /\ worker.pc \in {"open", "running"} /\ worker.reas.useCP =>
       /\ Registered(worker.uri)
       /\ AsBuilt(sessions[worker.uri.sid].w, worker.reas)

LEMMA AnnouncedKept ==
  ASSUME SessionsKept
  PROVE  /\ \A u : Registered(u) => Registered(u)'
         /\ \A u, r : Registered(u) /\ AsBuilt(sessions[u.sid].w, r) => AsBuilt(sessions'[u.sid].w, r)
  BY DEF SessionsKept, Registered, Recorded

LEMMA AnnounceFrame ==
  ASSUME AnnounceInv, SessionsKept, UNCHANGED worker, worker.pc = "registering" => AnnounceCall'
  PROVE  AnnounceInv'
  BY AnnouncedKept, Zenon DEF AnnounceInv

LEMMA AnnounceCallKept ==
  ASSUME RegisterInv, AnnounceInv, SessionsKept, worker.pc = "registering", UNCHANGED worker,
         rpc'["worker"] = rpc["worker"]
  PROVE  AnnounceCall'
<1>1. AnnounceCall
  BY DEF AnnounceInv
<1>2. ASSUME rpc["worker"].phase = "done", rpc["worker"].ok
      PROVE  \E s \in Sids : rpc["worker"].rep.sid = s /\ sessions[s].state # "none"
  <2>1. PICK s \in Sids : /\ rpc["worker"].rep = [token |-> SessToken(s), sid |-> s]
                         /\ Recorded(s, worker.uri)
    BY <1>2 DEF RegisterInv, RegisterCall
  <2>. QED
    BY <2>1 DEF Recorded
<1>3. rpc["worker"].phase = "done" /\ rpc["worker"].ok =>
        sessions'[rpc["worker"].rep.sid].w = sessions[rpc["worker"].rep.sid].w
  BY <1>2 DEF SessionsKept
<1>. QED
  BY <1>1, <1>3, Zenon DEF AnnounceCall

LEMMA ServerAnnounces ==
  ASSUME TypeInv, RegisterInv, AnnounceInv, ServerNext
  PROVE  AnnounceInv'
<1>. USE DEF TypeInv, SessionsTyped, RpcTyped
<1>1. SessionsKept
  BY ServerKeepsSessions
<1>2. UNCHANGED worker
  BY ServerKeepsTools
<1>3. ASSUME worker.pc = "registering" PROVE AnnounceCall'
  <2>1. rpc'["worker"] = rpc["worker"] \/ Serve("worker")
    BY ServerEnds DEF Clients
  <2>2. CASE rpc'["worker"] = rpc["worker"]
    BY <1>1, <1>2, <1>3, <2>2, AnnounceCallKept
  <2>3. CASE ServeRegister("worker")
    <3>1. PICK s \in Sids : /\ sessions' = [sessions EXCEPT ![s] =
                                [state |-> "new", lb |-> rpc["worker"].req.lb, by |-> "worker",
                                 w |-> rpc["worker"].req.arg]]
                           /\ Reply("worker", [token |-> SessToken(s), sid |-> s])
      BY <2>3 DEF ServeRegister
    <3>2. AsBuilt(rpc["worker"].req.arg, worker.reas)
      BY <1>3, <2>3 DEF ServeRegister, Asked, Granted, AnnounceInv, AnnounceCall
    <3>3. sessions'[s].w = rpc["worker"].req.arg
      BY <3>1 DEF SessionShape
    <3>4. rpc'["worker"].phase = "done" /\ rpc'["worker"].rep.sid = s
      BY <3>1 DEF Reply, RpcShape, Clients
    <3>. QED
      BY <1>2, <3>2, <3>3, <3>4 DEF AnnounceCall
  <2>4. CASE Refuse("worker") \/ Lose("worker")
    <3>1. rpc'["worker"].phase = "done" /\ rpc'["worker"].ok = FALSE
      BY <2>4 DEF Refuse, Lose, Fail, RpcShape, Clients
    <3>. QED
      BY <3>1 DEF AnnounceCall
  <2>5. CASE \/ ServeReserve("worker") \/ ServeFree("worker") \/ ServeDeregister("worker")
             \/ ServeState("worker") \/ ServeSenders("worker") \/ ServeQuery("worker")
    <3>1. rpc["worker"].phase = "sent" => rpc["worker"].req.op = "Register"
      BY <1>3 DEF RegisterInv, RegisterCall
    <3>. QED
      BY <2>5, <3>1 DEF ServeReserve, ServeFree, ServeDeregister, ServeState, ServeSenders,
         ServeQuery, Asked, Granted
  <2>. QED
    BY <2>1, <2>2, <2>3, <2>4, <2>5 DEF Serve
<1>. QED
  BY <1>1, <1>2, <1>3, AnnounceFrame

LEMMA LaunchBuilds ==
  ASSUME WorkersFit, NEW run \in WorkerRuns, LaunchWorker(run)
  PROVE  \/ worker'.pc = "exited"
         \/ worker'.pc = "register" /\ Built(worker'.reas)
<1>1. PICK u : u = FromText(env.text, "instance", FALSE)
  OBVIOUS
<1>2. PICK flags : flags = ReceiveFlags(run.hasIni, run.ini, run.opts)
  OBVIOUS
<1>3. PICK r : r = Reassembler(u, flags, run.ip, run.port, run.threads, FALSE, run.affinityOk)
  OBVIOUS
<1>4. \/ \E code : worker' = Dead("exited", code)
      \/ r.ok /\ worker' = [WorkerOff EXCEPT !.pc = "register", !.uri = u, !.run = run, !.reas = r]
  BY <1>1, <1>2, <1>3, Zenon DEF LaunchWorker
<1>5. r.ok => Built(r)
  <2>1. PICK range : range = PortRange(flags, run.threads)
    OBVIOUS
  <2>2. /\ run.threads \in Nat \ {0} /\ run.port \in Nat /\ flags.portRange \in Int
        /\ range <= 14 => run.port + NumRecvPorts(range) <= PortSpace
    <3>1. \A q \in WorkerRuns :
            LET f == ReceiveFlags(q.hasIni, q.ini, q.opts)
                p == PortRange(f, q.threads)
            IN /\ q.threads \in Nat \ {0} /\ q.port \in Nat /\ f.portRange \in Int
               /\ p <= 14 => q.port + NumRecvPorts(p) <= PortSpace
      BY DEF WorkersFit, PortSpace
    <3>. QED
      BY <1>2, <2>1, <3>1, Zenon
  <2>. QED
    BY <1>3, <2>1, <2>2, ReassemblerBuilt, Zenon
<1>. QED
  BY <1>4, <1>5 DEF Dead, WorkerOff

LEMMA WorkerAnnounces ==
  ASSUME WorkersFit, TypeInv, RegisterInv, RegisterInv', AnnounceInv, WorkerNext
  PROVE  AnnounceInv'
<1>. USE DEF TypeInv, ToolsTyped, RpcTyped
<1>1. CASE \E run \in WorkerRuns : LaunchWorker(run)
  BY <1>1, LaunchBuilds DEF AnnounceInv, Launched, Started
<1>2. CASE CallRegister
  <2>1. PICK req : req = RegisterSelf(worker.reas, worker.uri, <<"host">>)
    OBVIOUS
  <2>2. /\ worker.pc = "register" /\ worker'.reas = worker.reas
        /\ \/ worker'.pc = "open" /\ ~worker.reas.useCP
           \/ worker'.pc = "shutdown"
           \/ /\ worker'.pc = "registering" /\ req.op # "early"
              /\ rpc'["worker"] = [phase |-> "sent", req |-> req]
    BY <1>2, <2>1 DEF CallRegister, Goto, Try, WorkerShape, RpcShape, Clients
  <2>3. req.op # "early" => AsBuilt(req.arg, worker.reas)
    BY <2>1, RegistersAsBuilt
  <2>4. Built(worker'.reas)
    BY <2>2 DEF AnnounceInv, Launched
  <2>5. worker'.pc = "registering" => AnnounceCall'
    BY <2>2, <2>3 DEF AnnounceCall
  <2>. QED
    BY <2>2, <2>4, <2>5 DEF AnnounceInv
<1>3. CASE RegisterReturns
  <2>1. /\ worker.pc = "registering" /\ rpc["worker"].phase = "done" /\ worker'.reas = worker.reas
        /\ UNCHANGED sessions
    BY <1>3 DEF RegisterReturns, Returned, server, WorkerShape
  <2>2. Built(worker'.reas) /\ AnnounceCall
    BY <2>1 DEF AnnounceInv, Launched
  <2>3. CASE ~rpc["worker"].ok
    <3>1. worker'.pc = "shutdown"
      BY <1>3, <2>3 DEF RegisterReturns, WorkerShape
    <3>. QED
      BY <2>2, <3>1 DEF AnnounceInv
  <2>4. CASE rpc["worker"].ok
    <3>1. worker'.pc = "open" /\ worker'.uri = FillSession(worker.uri, rpc["worker"].rep)
      BY <1>3, <2>4 DEF RegisterReturns, WorkerShape
    <3>2. PICK s \in Sids : rpc["worker"].rep = [token |-> SessToken(s), sid |-> s]
      BY <2>1, <2>4 DEF RegisterInv, RegisterCall
    <3>3. IsURI(worker.uri)
      BY <2>1 DEF RegisterInv, Launched
    <3>4. worker'.uri.sid = s
      BY <3>1, <3>2, <3>3, FillSessionFills
    <3>5. AsBuilt(sessions'[worker'.uri.sid].w, worker'.reas)
      BY <2>1, <2>2, <2>4, <3>2, <3>4 DEF AnnounceCall
    <3>6. worker'.reas.useCP => Registered(worker.uri)'
      BY <3>1 DEF RegisterInv
    <3>. QED
      BY <2>2, <3>1, <3>5, <3>6 DEF AnnounceInv
  <2>. QED
    BY <2>3, <2>4
<1>4. CASE OpenAndStart
  <2>1. /\ worker.pc = "open" /\ worker'.pc = "running" /\ worker'.reas = worker.reas
        /\ worker'.uri = worker.uri /\ UNCHANGED sessions
    BY <1>4 DEF OpenAndStart, Goto, server, WorkerShape
  <2>. QED
    BY <2>1 DEF AnnounceInv, Launched, Started, Registered, Recorded
<1>5. CASE InterruptWorker
  <2>1. /\ worker.pc = "running" /\ worker'.pc = "running" /\ worker'.reas = worker.reas
        /\ worker'.uri = worker.uri /\ UNCHANGED sessions
    BY <1>5 DEF InterruptWorker, server, WorkerShape
  <2>. QED
    BY <2>1 DEF AnnounceInv, Launched, Started, Registered, Recorded
<1>6. CASE \/ HostNameFails \/ OpenFails \/ ReadersEnd \/ CallDeregister \/ DeregisterReturns
           \/ StopThreads
  <2>1. /\ worker.pc \in Launched /\ worker'.reas = worker.reas
        /\ worker'.pc \in {"shutdown", "stop", "deregistering", "join"}
    BY <1>6 DEF HostNameFails, OpenFails, ReadersEnd, CallDeregister, DeregisterReturns, StopThreads, Goto,
       WorkerShape, Launched, Started
  <2>. QED
    BY <2>1 DEF AnnounceInv
<1>7. CASE WorkerJoins \/ KillWorker
  <2>1. worker'.pc \in {"exited", "killed"}
    BY <1>7 DEF WorkerJoins, KillWorker, Dead, WorkerOff
  <2>. QED
    BY <2>1 DEF AnnounceInv, Launched, Started
<1>. QED
  BY <1>1, <1>2, <1>3, <1>4, <1>5, <1>6, <1>7 DEF WorkerNext, WorkerSteps

LEMMA AnnounceInductive ==
  ASSUME WorkersFit
  PROVE  TypeInv /\ RegisterInv /\ AnnounceInv /\ [Next]_vars => AnnounceInv'
<1>. SUFFICES ASSUME TypeInv, RegisterInv, AnnounceInv, [Next]_vars PROVE AnnounceInv'
  OBVIOUS
<1>1. RegisterInv'
  BY RegisterInductive
<1>2. CASE ServerNext
  BY <1>2, ServerAnnounces
<1>3. CASE WorkerNext
  BY <1>1, <1>3, WorkerAnnounces
<1>4. CASE LbadmNext \/ SenderNext \/ StateThreadNext \/ UNCHANGED vars
  <2>1. UNCHANGED <<worker, sessions>> /\ rpc'["worker"] = rpc["worker"]
    <3>1. CASE LbadmNext \/ SenderNext
      BY <3>1, OthersKeepWorker DEF RegisterInv
    <3>2. CASE StateThreadNext
      BY <3>2 DEF StateThreadNext, CallSendState, SendStateReturns, StateThreadEnds, Try, Hangup, server,
         RegisterInv, RpcShape, Clients
    <3>. QED
      BY <1>4, <3>1, <3>2 DEF vars
  <2>2. SessionsKept
    BY <2>1 DEF SessionsKept
  <2>. QED
    BY <2>1, <2>2, AnnounceFrame, AnnounceCallKept
<1>. QED
  BY <1>2, <1>3, <1>4 DEF Next

-----------------------------------------------------------------------------
(* A sender sends to the LB *)

SendInv ==
  /\ sender.pc \notin {"off", "exited"} =>
       /\ Bears(sender.uri) /\ DefaultPort(sender.uri)
       /\ ~sender.flags.dpV6 /\ sender.flags.numSendSockets \in Int
  /\ sender.seg \in {"built", "open"} => sender.pc \in {"open", "sending", "stop"}
  /\ sender.pc \in {"open", "sending", "stop"} =>
       sender.uri.v4 # NoAddr /\ sender.flags.numSendSockets <= SmallEnough

LEMMA SendFrame ==
  ASSUME SendInv, LbsKept, SessionsKept, SenderShape,
         \/ UNCHANGED sender
         \/ /\ sender'.pc = "exited" /\ sender'.seg \notin {"built", "open"}
         \/ /\ sender.pc \notin {"off", "exited"} /\ sender'.pc \notin {"off", "exited"}
            /\ sender'.uri = sender.uri /\ sender'.flags = sender.flags
            /\ sender'.seg \in {"built", "open"} => sender'.pc \in {"open", "sending", "stop"}
            /\ sender'.pc \in {"open", "sending", "stop"} =>
                 \/ sender.pc \in {"open", "sending", "stop"}
                 \/ sender.uri.v4 # NoAddr /\ sender.flags.numSendSockets <= SmallEnough
  PROVE  SendInv'
<1>1. sender.pc \notin {"off", "exited"} => Bears(sender.uri)' \/ sender'.uri # sender.uri
  BY BearsKept DEF SendInv, Bears
<1>. QED
  BY <1>1 DEF SendInv, SenderShape

LEMMA SegmenterFits ==
  ASSUME NEW u, NEW flags, NEW mtu, NEW a, NEW b, ~flags.dpV6, SegmenterBuilds(u, flags, mtu, a, b)
  PROVE  u.v4 # NoAddr /\ flags.numSendSockets <= SmallEnough
<1>1. (IF flags.dpV6 THEN u.v6 ELSE u.v4) # NoAddr
  BY Zenon DEF SegmenterBuilds
<1>2. PICK m : SegmenterSane(u, flags, m)
  BY Zenon DEF SegmenterBuilds
<1>3. flags.numSendSockets <= SmallEnough
  BY <1>2, SMTT(30) DEF SegmenterSane, SmallEnough
<1>. QED
  BY <1>1, <1>3

LEMMA LaunchSends ==
  ASSUME SendersFit, ExportInv, NEW run \in SenderRuns, LaunchSender(run)
  PROVE  SendInv'
<1>1. PICK u : u = FromText(env.text, "instance", FALSE)
  OBVIOUS
<1>2. PICK flags : flags = SendFlags(run.hasIni, run.ini, run.opts)
  OBVIOUS
<1>3. \/ \E code : sender' = SDead(code)
      \/ sender' = [SenderOff EXCEPT !.pc = IF flags.useCP THEN "add" ELSE "build",
                                     !.uri = u, !.run = run, !.flags = flags]
  BY <1>1, <1>2, Zenon DEF LaunchSender
<1>4. env.kind # "admin" /\ UNCHANGED lbs
  BY DEF LaunchSender, server
<1>5. Bears(u) /\ DefaultPort(u)
  BY <1>1, <1>4 DEF ExportInv, EnvInv, TokenType
<1>6. ~flags.dpV6 /\ flags.numSendSockets \in Int
  BY <1>2, Zenon DEF SendersFit
<1>7. \/ sender'.pc = "exited" /\ sender'.seg = "none"
      \/ /\ sender'.pc \in {"add", "build"} /\ sender'.seg = "none"
         /\ sender'.uri = u /\ sender'.flags = flags
  BY <1>3 DEF SDead, SenderOff
<1>. QED
  BY <1>4, <1>5, <1>6, <1>7 DEF SendInv, Bears

LEMMA SenderSends ==
  ASSUME SendersFit, TypeInv, ExportInv, SendInv, SenderNext
  PROVE  SendInv'
<1>. USE DEF TypeInv, ToolsTyped
<1>1. CASE \E run \in SenderRuns : LaunchSender(run)
  BY <1>1, LaunchSends
<1>2. CASE ~(\E run \in SenderRuns : LaunchSender(run))
  <2>1. /\ UNCHANGED <<lbs, sessions>>
    BY <1>2 DEF SenderNext, SenderSteps, CallAddSenders, AddSendersReturns, BuildSegmenter, OpenSegmenter,
       OpenSegmenterFails, SendingEnds, StopSegmenter, CallRemoveSenders, RemoveSendersReturns,
       SenderExits, InterruptSender, AllSent, server
  <2>2. LbsKept /\ SessionsKept
    BY <2>1 DEF LbsKept, SessionsKept
  <2>3. CASE CallAddSenders \/ AddSendersReturns
    <3>1. /\ sender.pc \in {"add", "adding"}
          /\ \/ sender'.pc = "exited" /\ sender'.seg = "none"
             \/ /\ sender'.pc \in {"adding", "build"} /\ sender'.uri = sender.uri
                /\ sender'.flags = sender.flags /\ sender'.seg = sender.seg
      BY <2>3 DEF CallAddSenders, AddSendersReturns, SDead, SenderOff, SenderShape
    <3>2. sender.seg \notin {"built", "open"}
      BY <3>1 DEF SendInv
    <3>. QED
      BY <2>2, <3>1, <3>2, SendFrame
  <2>4. CASE BuildSegmenter
    <3>1. /\ sender.pc = "build"
          /\ \/ sender'.pc = "exited" /\ sender'.seg = "none"
             \/ /\ sender'.pc = "open" /\ sender'.uri = sender.uri /\ sender'.flags = sender.flags
                /\ SegmenterBuilds(sender.uri, sender.flags, sender.run.ifMTU, TRUE,
                                   sender.run.affinityOk)
      <4>. DEFINE fits == SegmenterBuilds(sender.uri, sender.flags, sender.run.ifMTU, TRUE,
                                          sender.run.affinityOk)
      <4>1. /\ sender.pc = "build"
            /\ sender' = IF fits THEN [sender EXCEPT !.pc = "open", !.seg = "built"] ELSE SDead("0")
        BY <2>4, Zenon DEF BuildSegmenter
      <4>. HIDE DEF fits
      <4>2. \/ sender'.pc = "exited" /\ sender'.seg = "none"
            \/ fits /\ sender'.pc = "open" /\ sender'.uri = sender.uri /\ sender'.flags = sender.flags
        BY <4>1 DEF SDead, SenderOff, SenderShape
      <4>. QED
        BY <4>1, <4>2 DEF fits
    <3>2. ~sender.flags.dpV6
      BY <3>1 DEF SendInv
    <3>3. \/ sender'.pc = "exited" /\ sender'.seg = "none"
          \/ /\ sender'.pc = "open" /\ sender'.uri = sender.uri /\ sender'.flags = sender.flags
             /\ sender.uri.v4 # NoAddr /\ sender.flags.numSendSockets <= SmallEnough
      BY <3>1, <3>2, SegmenterFits
    <3>. QED
      BY <2>2, <3>1, <3>3, SendFrame
  <2>5. CASE OpenSegmenter \/ OpenSegmenterFails \/ InterruptSender \/ AllSent
    <3>1. /\ sender.pc \in {"open", "sending"}
          /\ \/ sender'.pc = "exited" /\ sender'.seg = "none"
             \/ /\ sender'.pc \in {"sending", "stop"} /\ sender'.uri = sender.uri
                /\ sender'.flags = sender.flags
      BY <2>5 DEF OpenSegmenter, OpenSegmenterFails, InterruptSender, AllSent, SDead, SenderOff, SenderShape
    <3>. QED
      BY <2>2, <3>1, SendFrame
  <2>6. CASE SendingEnds \/ StopSegmenter
    <3>1. /\ sender.pc \in {"sending", "stop"}
          /\ sender'.uri = sender.uri /\ sender'.flags = sender.flags
          /\ \/ sender'.pc = "stop" /\ sender'.seg = sender.seg
             \/ sender'.pc = "remove" /\ sender'.seg = "stopped"
      BY <2>6 DEF SendingEnds, StopSegmenter, SGoto, SenderShape
    <3>. QED
      BY <2>2, <3>1, SendFrame
  <2>7. CASE CallRemoveSenders \/ RemoveSendersReturns \/ SenderExits
    <3>1. /\ sender.pc \in {"remove", "removing", "end"} /\ sender'.seg = sender.seg
          /\ \/ sender'.pc = "exited"
             \/ /\ sender'.pc \in {"removing", "end"} /\ sender'.uri = sender.uri
                /\ sender'.flags = sender.flags
      BY <2>7 DEF CallRemoveSenders, RemoveSendersReturns, SenderExits, SGoto, SenderShape
    <3>2. sender.seg \notin {"built", "open"}
      BY <3>1 DEF SendInv
    <3>. QED
      BY <2>2, <3>1, <3>2, SendFrame
  <2>. QED
    BY <1>2, <2>3, <2>4, <2>5, <2>6, <2>7 DEF SenderNext, SenderSteps
<1>. QED
  BY <1>1, <1>2

LEMMA SendInductive ==
  ASSUME SendersFit
  PROVE  TypeInv /\ ExportInv /\ SendInv /\ [Next]_vars => SendInv'
<1>. SUFFICES ASSUME TypeInv, ExportInv, SendInv, [Next]_vars PROVE SendInv'
  OBVIOUS
<1>. USE DEF TypeInv, ToolsTyped, SessionsTyped, RpcTyped
<1>1. CASE ServerNext
  <2>1. UNCHANGED sender /\ LbsKept /\ SessionsKept
    BY <1>1, ServerKeepsTools, ServerKeepsLbs, ServerKeepsSessions
  <2>. QED
    BY <2>1, SendFrame
<1>2. CASE LbadmNext \/ WorkerNext \/ StateThreadNext \/ UNCHANGED vars
  <2>1. UNCHANGED <<sender, lbs, sessions>>
    <3>1. CASE LbadmNext
      BY <3>1 DEF LbadmNext, RunCommand, CommandFails, CommandSucceeds, ReserveSucceeds,
         RegisterSucceeds, server
    <3>2. CASE WorkerNext \/ StateThreadNext
      BY <3>2 DEF WorkerNext, WorkerSteps, LaunchWorker, InterruptWorker, KillWorker, HostNameFails,
         CallRegister, RegisterReturns, OpenFails, OpenAndStart, ReadersEnd, CallDeregister,
         DeregisterReturns, StopThreads, WorkerJoins, StateThreadNext, CallSendState,
         SendStateReturns, StateThreadEnds, server
    <3>. QED
      BY <1>2, <3>1, <3>2 DEF vars
  <2>2. LbsKept /\ SessionsKept
    BY <2>1 DEF LbsKept, SessionsKept
  <2>. QED
    BY <2>1, <2>2, SendFrame
<1>3. CASE SenderNext
  BY <1>3, SenderSends
<1>. QED
  BY <1>1, <1>2, <1>3 DEF Next

(* Where the command lines fit and every reply has a sync address, the ports  *)
(* a worker announces are the ports it listens on, each on one thread, and a  *)
(* sender's sockets send to the LB that was reserved, at the data plane's     *)
(* ports.  (get_PortRange and assignPortsToThreads, registerWorker's          *)
(* arguments, and _open of both sides, through every URI printed and read and *)
(* every reply lost.)                                                         *)
THEOREM EndpointsAgreeCorrect ==
  ASSUME WorkersFit, SendersFit, RepliesHaveSync
  PROVE  Spec => []EndpointsAgree
<1>1. Init => TypeInv /\ RegisterInv /\ ExportInv /\ AnnounceInv /\ SendInv
  <2>1. Init => AnnounceInv /\ SendInv
    BY DEF Init, AnnounceInv, SendInv, WorkerOff, SenderOff, Launched, Started
  <2>. QED
    BY <2>1, InitTyped, InitRegister, InitExports
<1>2. AnnounceInv /\ SendInv => EndpointsAgree
  <2>1. ASSUME AnnounceInv, worker.pc = "running", worker.reas.useCP,
               NEW w, w = sessions[worker.uri.sid].w
        PROVE  /\ w.addr = worker.reas.addr
               /\ BoundPorts(worker.reas) = w.port .. w.port + 2^w.sources - 1
               /\ NoneTwice(worker.reas.threadsToPorts)
    <3>1. Built(worker.reas) /\ AsBuilt(w, worker.reas)
      BY <2>1 DEF AnnounceInv, Launched, Started
    <3>. QED
      BY <3>1, Zenon DEF Built, AsBuilt
  <2>2. ASSUME SendInv, sender.seg = "open", NEW d \in Destinations(sender.uri, sender.flags)
        PROVE  /\ d.addr = lbs[sender.uri.lbId].addrs.v4
               /\ d.port \in DATAPLANE_PORT .. DATAPLANE_PORT + sender.flags.numSendSockets - 1
    <3>1. /\ sender.uri.dataPort = DATAPLANE_PORT
          /\ ~sender.flags.dpV6 /\ sender.flags.numSendSockets \in Int
          /\ sender.flags.numSendSockets <= SmallEnough
          /\ AddrsOf(sender.uri) = lbs[sender.uri.lbId].addrs
      BY <2>2 DEF SendInv, Bears, DefaultPort
    <3>2. lbs[sender.uri.lbId].addrs.v4 = sender.uri.v4
      BY <3>1 DEF AddrsOf
    <3>. QED
      BY <2>2, <3>1, <3>2, SendsToLB
  <2>. QED
    BY <2>1, <2>2, Zenon DEF EndpointsAgree, NoneTwice
<1>3. TypeInv /\ ExportInv /\ SendInv /\ [Next]_vars => SendInv'
  BY SendInductive
<1>4. TypeInv /\ RegisterInv /\ AnnounceInv /\ [Next]_vars => AnnounceInv'
  BY AnnounceInductive
<1>. QED
  BY <1>1, <1>2, <1>3, <1>4, TypeInductive, RegisterInductive, ExportInductive, PTL DEF Spec
=============================================================================
