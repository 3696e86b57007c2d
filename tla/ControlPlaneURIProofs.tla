------------------------ MODULE ControlPlaneURIProofs ------------------------
(***************************************************************************)
(* Proofs about the credentials that pass from tool to tool in ControlPlane: *)
(* what EJFAT_URI says when a tool reads it, and which calls the control    *)
(* plane turns down.                                                        *)
(***************************************************************************)
EXTENDS ControlPlaneProofs

-----------------------------------------------------------------------------
(* Printing a URI and reading it back *)

(* A URI that names the control plane, with a sync address and no data address
   but in its own family's place. *)
Printable(u) ==
  /\ u.ok = TRUE /\ CpText(u) = AdminText.host /\ u.cpPort = AdminText.port
  /\ u.sync \in Addr /\ IsPort(u.syncPort)
  /\ u.v4 \in V4 \cup {NoAddr} /\ u.v6 \in V6 \cup {NoAddr}

(* A URI object with all its members. *)
Whole(u) ==
  /\ DOMAIN u = {"ok", "tls", "cpAddr", "cpHost", "cpPort", "tok", "lbName", "lbId", "sid",
                 "sync", "syncPort", "v4", "v6", "dataPort"}
  /\ DOMAIN u.tok = TokenType

(* The data plane's port, which is not printed, is the default again. *)
DefaultPort(u) == u.v4 # NoAddr => u.dataPort = DATAPLANE_PORT

(* Only token t is known. *)
Only(t, token) == [x \in TokenType |-> IF x = t THEN token ELSE <<>>]

(* The parameter a printed address makes, and the one of a session. *)
SyncPar(u) == [key |-> "sync", val |-> u.sync, port |-> u.syncPort]
DataPar(a) == [key |-> "data", val |-> a, port |-> NoPort]
SidPar(u)  == [key |-> "sessionid", val |-> u.sid, port |-> NoPort]

LEMMA Concat ==
  ASSUME NEW S, NEW s \in Seq(S), NEW t \in Seq(S)
  PROVE  /\ s \o t \in Seq(S) /\ Len(s \o t) = Len(s) + Len(t)
         /\ \A i \in 1 .. Len(s) : (s \o t)[i] = s[i]
         /\ \A i \in 1 .. Len(t) : (s \o t)[Len(s) + i] = t[i]
  OBVIOUS

(* The places of a printed URI's parameters in its query, 0 when it has none. *)
At4(u) == IF u.v4 = NoAddr THEN 0 ELSE 2
At6(u) == IF u.v6 = NoAddr THEN 0 ELSE IF u.v4 = NoAddr THEN 2 ELSE 3
AtSid(u) == IF u.sid = <<>> THEN 0
            ELSE 2 + (IF u.v4 = NoAddr THEN 0 ELSE 1) + (IF u.v6 = NoAddr THEN 0 ELSE 1)

LEMMA PrintedQuery ==
  ASSUME NEW u, Printable(u), NEW token
  PROVE  LET q == AsText(u, token).query
         IN /\ DOMAIN q = {1, At4(u), At6(u), AtSid(u)} \ {0}
            /\ q[1] = SyncPar(u)
            /\ At4(u) # 0 => q[At4(u)] = DataPar(u.v4)
            /\ At6(u) # 0 => q[At6(u)] = DataPar(u.v6)
            /\ AtSid(u) # 0 => q[AtSid(u)] = SidPar(u)
            /\ AsText(u, token).path = u.lbId
  <1>. DEFINE S == <<SyncPar(u)>>
              P4 == IF u.v4 = NoAddr THEN <<>> ELSE <<DataPar(u.v4)>>
              P6 == IF u.v6 = NoAddr THEN <<>> ELSE <<DataPar(u.v6)>>
              PI == IF u.sid = <<>> THEN <<>> ELSE <<SidPar(u)>>
              T == {SyncPar(u), DataPar(u.v4), DataPar(u.v6), SidPar(u)}
              q == AsText(u, token).query
  <1>1. u.sync # NoAddr
    <2>1. u.sync \in Addr
      BY DEF Printable
    <2>2. NoAddr \notin Addr
      BY AddrAssumption
    <2>. QED
      BY <2>1, <2>2
  <1>2. /\ q = IF S \o P4 \o P6 = <<>> THEN <<>> ELSE (S \o P4 \o P6) \o PI
        /\ S \o P4 \o P6 # <<>> => AsText(u, token).path = u.lbId
    BY <1>1 DEF AsText, SyncPar, DataPar, SidPar
  <1>3. /\ S \in Seq(T) /\ Len(S) = 1 /\ S[1] = SyncPar(u)
        /\ P4 \in Seq(T) /\ Len(P4) = (IF u.v4 = NoAddr THEN 0 ELSE 1)
        /\ u.v4 # NoAddr => P4[1] = DataPar(u.v4)
        /\ P6 \in Seq(T) /\ Len(P6) = (IF u.v6 = NoAddr THEN 0 ELSE 1)
        /\ u.v6 # NoAddr => P6[1] = DataPar(u.v6)
        /\ PI \in Seq(T) /\ Len(PI) = (IF u.sid = <<>> THEN 0 ELSE 1)
        /\ u.sid # <<>> => PI[1] = SidPar(u)
    OBVIOUS
  <1>. HIDE DEF S, P4, P6, PI, T, q
  <1>4. /\ S \o P4 \in Seq(T) /\ Len(S \o P4) = 1 + Len(P4) /\ (S \o P4)[1] = S[1]
        /\ Len(P4) = 1 => (S \o P4)[2] = P4[1]
    BY <1>3, Concat
  <1>5. /\ (S \o P4) \o P6 \in Seq(T) /\ Len((S \o P4) \o P6) = 1 + Len(P4) + Len(P6)
        /\ ((S \o P4) \o P6)[1] = S[1]
        /\ Len(P4) = 1 => ((S \o P4) \o P6)[2] = P4[1]
        /\ Len(P6) = 1 => ((S \o P4) \o P6)[2 + Len(P4)] = P6[1]
    BY <1>3, <1>4, Concat
  <1>6. q = (S \o P4 \o P6) \o PI /\ AsText(u, token).path = u.lbId
    BY <1>2, <1>3, <1>5
  <1>7. /\ q \in Seq(T) /\ Len(q) = 1 + Len(P4) + Len(P6) + Len(PI)
        /\ q[1] = S[1]
        /\ Len(P4) = 1 => q[2] = P4[1]
        /\ Len(P6) = 1 => q[2 + Len(P4)] = P6[1]
        /\ Len(PI) = 1 => q[2 + Len(P4) + Len(P6)] = PI[1]
    BY <1>3, <1>5, <1>6, Concat
  <1>. QED
    BY <1>3, <1>6, <1>7 DEF q, At4, At6, AtSid

LEMMA PortKept ==
  ASSUME NEW n, IsPort(n)
  PROVE  StringToPort(n) = n /\ n % 65536 = n /\ n # BadPort /\ n # NoPort /\ n # 0
  BY DEF IsPort, StringToPort, BadPort, NoPort

LEMMA Last ==
  ASSUME NEW i \in Int
  PROVE  (CHOOSE k \in {i} : \A j \in {i} : j <= k) = i
  OBVIOUS

(* The control plane and its port, wherever they are read. *)
CpRead     == IF AdminText.host \in Addr THEN AdminText.host ELSE ResolveHost(AdminText.host, FALSE)
CpHostRead == IF AdminText.host \in Addr THEN <<>> ELSE <<AdminText.host>>

LEMMA HostReads ==
  /\ CpRead # NoAddr /\ IsPort(AdminText.port)
  /\ \A u : u.cpAddr = CpRead /\ u.cpHost = CpHostRead => CpText(u) = AdminText.host
<1>1. IsPort(AdminText.port) /\ FromText(AdminText, "admin", FALSE).ok
  BY AdminTextAssumption
<1>2. Parse(AdminText, "admin", FALSE).ok
  BY <1>1 DEF FromText, Throw
<1>3. CASE CpRead = NoAddr
  <2>1. Parse(AdminText, "admin", FALSE) = Throw
    BY <1>1, <1>3 DEF Parse, CpRead
  <2>2. ~Throw.ok
    BY DEF Throw
  <2>. QED
    BY <1>2, <2>1, <2>2, Zenon
<1>4. ASSUME NEW u, u.cpAddr = CpRead, u.cpHost = CpHostRead PROVE CpText(u) = AdminText.host
  <2>1. CASE AdminText.host \in Addr
    BY <1>4, <2>1 DEF CpText, CpRead, CpHostRead
  <2>2. CASE AdminText.host \notin Addr
    BY <1>4, <2>2 DEF CpText, CpHostRead
  <2>. QED
    BY <2>1, <2>2
<1>. QED
  BY <1>1, <1>3, <1>4

(* A printed URI reads back: its addresses, its ids, and the one token it was *)
(* given.  Nothing of it is lost but the other tokens.                        *)
LEMMA ReadBack ==
  ASSUME NEW u, Printable(u), NEW token, NEW t
  PROVE  LET r == FromText(AsText(u, token), t, FALSE)
         IN /\ Printable(r) /\ Whole(r) /\ r.tok = Only(t, token)
            /\ r.lbId = u.lbId /\ r.sid = u.sid
            /\ r.sync = u.sync /\ r.syncPort = u.syncPort /\ r.v4 = u.v4 /\ r.v6 = u.v6
            /\ DefaultPort(r)
  <1>. DEFINE text == AsText(u, token)
              q == text.query
              keyed(k) == {i \in DOMAIN q : q[i].key = k}
              data(family) == {i \in keyed("data") : q[i].val \in family}
              last(A) == CHOOSE i \in A : \A j \in A : j <= i
              val(A, none) == IF A = {} THEN none ELSE q[last(A)].val
              unread == DOMAIN q \ keyed("sessionid")
              r == FromText(text, t, FALSE)
              One(i) == {i} \ {0}
  <1>1. /\ DOMAIN q = {1, At4(u), At6(u), AtSid(u)} \ {0}
        /\ q[1] = SyncPar(u)
        /\ At4(u) # 0 => q[At4(u)] = DataPar(u.v4)
        /\ At6(u) # 0 => q[At6(u)] = DataPar(u.v6)
        /\ AtSid(u) # 0 => q[AtSid(u)] = SidPar(u)
        /\ text.path = u.lbId
    BY PrintedQuery
  <1>2. text.host = AdminText.host /\ text.port = AdminText.port /\ text.token = token /\ text # Unset
    <2>1. CpText(u) = AdminText.host /\ u.cpPort = AdminText.port
      BY DEF Printable
    <2>2. \E path, query : text = [tls |-> u.tls, token |-> token, port |-> u.cpPort,
              host |-> CpText(u), path |-> path, query |-> query]
      BY Zenon DEF AsText
    <2>. HIDE DEF text
    <2>. QED
      BY <2>1, <2>2 DEF Unset
  <1>. HIDE DEF text, q
  <1>3. /\ At4(u) \in {0, 2} /\ At6(u) \in {0, 2, 3} /\ AtSid(u) \in {0, 2, 3, 4}
        /\ At4(u) # 0 => u.v4 \in V4 \ V6 /\ u.v4 \in Addr
        /\ At6(u) # 0 => u.v6 \in V6 \ V4 /\ u.v6 \in Addr
        /\ At4(u) = 0 <=> u.v4 = NoAddr
        /\ At6(u) = 0 <=> u.v6 = NoAddr
        /\ AtSid(u) = 0 <=> u.sid = <<>>
    BY AddrAssumption DEF At4, At6, AtSid, Printable, Addr
  <1>4. /\ keyed("sync") = {1}
        /\ keyed("data") = {At4(u), At6(u)} \ {0}
        /\ keyed("sessionid") = One(AtSid(u))
        /\ unread = {1, At4(u), At6(u)} \ {0}
    BY <1>1, <1>3 DEF SyncPar, DataPar, SidPar
  <1>5. data(V4) = One(At4(u)) /\ data(V6) = One(At6(u))
    BY <1>1, <1>3, <1>4 DEF DataPar
  <1>. HIDE DEF keyed
  <1>6. \A i \in {1, 2, 3, 4} : One(i) # {} /\ last(One(i)) = i
    <2>1. \A i \in {1, 2, 3, 4} : One(i) = {i}
      OBVIOUS
    <2>. QED
      BY <2>1, Last
  <1>7. One(0) = {}
    OBVIOUS
  <1>. HIDE DEF One
  <1>8. keyed("sync") = One(1) /\ keyed("sync") # {} /\ last(keyed("sync")) = 1
    BY <1>4, <1>6 DEF One
  <1>. HIDE DEF last, data
  <1>9. /\ val(keyed("sync"), NoAddr) = u.sync /\ q[last(keyed("sync"))].port = u.syncPort
        /\ val(data(V4), NoAddr) = u.v4 /\ val(data(V6), NoAddr) = u.v6
        /\ val(keyed("sessionid"), <<>>) = u.sid
    <2>1. val(keyed("sync"), NoAddr) = u.sync /\ q[last(keyed("sync"))].port = u.syncPort
      BY <1>1, <1>8 DEF SyncPar
    <2>2. val(data(V4), NoAddr) = u.v4
      <3>1. CASE At4(u) = 0
        BY <1>3, <1>5, <1>7, <3>1
      <3>2. CASE At4(u) # 0
        BY <1>1, <1>3, <1>5, <1>6, <3>2 DEF DataPar
      <3>. QED
        BY <3>1, <3>2
    <2>3. val(data(V6), NoAddr) = u.v6
      <3>1. CASE At6(u) = 0
        BY <1>3, <1>5, <1>7, <3>1
      <3>2. CASE At6(u) # 0
        BY <1>1, <1>3, <1>5, <1>6, <3>2 DEF DataPar
      <3>. QED
        BY <3>1, <3>2
    <2>4. val(keyed("sessionid"), <<>>) = u.sid
      <3>1. CASE AtSid(u) = 0
        BY <1>3, <1>4, <1>7, <3>1
      <3>2. CASE AtSid(u) # 0
        BY <1>1, <1>3, <1>4, <1>6, <3>2 DEF SidPar
      <3>. QED
        BY <3>1, <3>2
    <2>. QED
      BY <2>1, <2>2, <2>3, <2>4
  <1>. DEFINE cp == IF text.host \in Addr THEN text.host ELSE ResolveHost(text.host, FALSE)
              dp == IF keyed("data") = {} THEN Indeterminate
                    ELSE LET p == TuplePort(q[last(keyed("data"))])
                         IN IF p = 0 THEN DATAPLANE_PORT ELSE p
              bad == \/ StringToPort(text.port) = BadPort
                     \/ cp = NoAddr
                     \/ \E i \in unread : ~TupleParses(q[i])
                     \/ unread # keyed("sync") \cup keyed("data")
              read == [ok |-> TRUE, tls |-> text.tls, cpAddr |-> cp,
                       cpHost |-> IF text.host \in Addr THEN <<>> ELSE <<text.host>>,
                       cpPort |-> StringToPort(text.port),
                       tok |-> [x \in TokenType |-> IF x = t THEN text.token ELSE <<>>],
                       lbName |-> <<>>, lbId |-> text.path,
                       sid |-> val(keyed("sessionid"), <<>>),
                       sync |-> val(keyed("sync"), NoAddr),
                       syncPort |-> IF keyed("sync") = {} THEN Indeterminate
                                    ELSE TuplePort(q[last(keyed("sync"))]),
                       v4 |-> val(data(V4), NoAddr), v6 |-> val(data(V6), NoAddr),
                       dataPort |-> dp]
  <1>10. Parse(text, t, FALSE) = IF bad THEN Throw ELSE read
    BY Zenon DEF Parse, q, keyed, last, data
  <1>11. ~bad
    <2>1. \A i \in unread : TupleParses(q[i])
      <3>1. IsPort(u.syncPort) /\ u.sync \in Addr
        BY DEF Printable
      <3>2. TupleParses(q[1])
        BY <1>1, <3>1, PortKept DEF TupleParses, SyncPar
      <3>3. /\ At4(u) # 0 => TupleParses(q[At4(u)])
            /\ At6(u) # 0 => TupleParses(q[At6(u)])
        BY <1>1, <1>3 DEF TupleParses, DataPar
      <3>. QED
        BY <1>4, <3>2, <3>3
    <2>2. unread = keyed("sync") \cup keyed("data")
      BY <1>4
    <2>3. StringToPort(text.port) # BadPort /\ cp # NoAddr
      <3>1. /\ text.port = AdminText.port /\ IsPort(AdminText.port)
            /\ cp = CpRead
        BY <1>2, HostReads DEF CpRead
      <3>. HIDE DEF cp
      <3>2. CpRead # NoAddr
        BY HostReads
      <3>3. StringToPort(AdminText.port) # BadPort
        BY <3>1, PortKept
      <3>. QED
        BY <3>1, <3>2, <3>3
    <2>. QED
      BY <2>1, <2>2, <2>3, Zenon
  <1>12. u.v4 # NoAddr => dp = DATAPLANE_PORT
    <2>. SUFFICES ASSUME u.v4 # NoAddr PROVE dp = DATAPLANE_PORT
      OBVIOUS
    <2>. DEFINE A == keyed("data")
    <2>1. A = {At4(u), At6(u)} \ {0} /\ At4(u) = 2 /\ At6(u) \in {0, 3}
      BY <1>4 DEF At4, At6
    <2>2. A = {2} \/ A = {2, 3}
      BY <2>1
    <2>. HIDE DEF A
    <2>3. last(A) \in A
      BY <2>2 DEF last
    <2>4. q[last(A)].port = NoPort
      BY <1>1, <2>1, <2>3 DEF DataPar
    <2>5. TuplePort(q[last(A)]) = 0 /\ A # {}
      BY <2>2, <2>4 DEF TuplePort
    <2>. QED
      BY <2>5 DEF A
  <1>13. TuplePort(q[last(keyed("sync"))]) = u.syncPort
    BY <1>9, PortKept DEF TuplePort, Printable
  <1>14. r = read
    BY <1>2, <1>10, <1>11, Zenon DEF FromText
  <1>. HIDE DEF r, cp, dp, val
  <1>15. r = [ok |-> TRUE, tls |-> text.tls, cpAddr |-> CpRead,
              cpHost |-> CpHostRead, cpPort |-> AdminText.port,
              tok |-> Only(t, token), lbName |-> <<>>, lbId |-> u.lbId,
              sid |-> u.sid, sync |-> u.sync, syncPort |-> u.syncPort,
              v4 |-> u.v4, v6 |-> u.v6, dataPort |-> dp]
    <2>1. /\ text.host = AdminText.host /\ StringToPort(text.port) = AdminText.port
          /\ [x \in TokenType |-> IF x = t THEN text.token ELSE <<>>] = Only(t, token)
          /\ text.path = u.lbId
      BY <1>1, <1>2, HostReads, PortKept DEF Only
    <2>2. cp = CpRead /\ (IF text.host \in Addr THEN <<>> ELSE <<text.host>>) = CpHostRead
      BY <2>1 DEF cp, CpRead, CpHostRead
    <2>. QED
      BY <1>8, <1>9, <1>13, <1>14, <2>1, <2>2
  <1>16. Printable(r) /\ Whole(r) /\ r.tok = Only(t, token)
         /\ r.lbId = u.lbId /\ r.sid = u.sid
         /\ r.sync = u.sync /\ r.syncPort = u.syncPort /\ r.v4 = u.v4 /\ r.v6 = u.v6
         /\ DefaultPort(r)
    <2>1. CpText(r) = AdminText.host
      <3>1. r.cpAddr = CpRead /\ r.cpHost = CpHostRead
        BY <1>15
      <3>. QED
        BY <3>1, HostReads
    <2>. QED
      BY <1>15, <1>12, <2>1 DEF Printable, Whole, Only, DefaultPort
  <1>. QED
    BY <1>16, Zenon DEF r, text

-----------------------------------------------------------------------------
(* What EJFAT_URI says *)

(* A URI says what the control plane holds of a reservation, and of a worker *)
(* that lbadm has registered.                                                 *)
AddrsOf(u) == [sync |-> u.sync, syncPort |-> u.syncPort, v4 |-> u.v4, v6 |-> u.v6]
Bears(u) ==
  /\ Printable(u) /\ Whole(u)
  /\ u.lbId \in LbIds /\ lbs[u.lbId].state # "free" /\ AddrsOf(u) = lbs[u.lbId].addrs
Session(s, l) ==
  s \in Sids /\ sessions[s].state # "none" /\ sessions[s].lb = l /\ sessions[s].by = "lbadm"

(* So does EJFAT_URI, whichever token it is read for. *)
EnvInv ==
  env.kind # "admin" => \A t \in TokenType :
    LET u == FromText(env.text, t, FALSE)
    IN /\ Bears(u) /\ DefaultPort(u)
       /\ IF env.kind = "instance" THEN u.sid = <<>> ELSE Session(u.sid, u.lbId)
       /\ u.tok = Only(t, IF env.kind = "session" THEN SessToken(u.sid) ELSE InstToken(u.lbId))

(* The URI a reservation fills: the administrator's, with nothing of an LB. *)
Blank(u) ==
  /\ Whole(u) /\ u.ok = TRUE /\ CpText(u) = AdminText.host /\ u.cpPort = AdminText.port
  /\ u.sid = <<>> /\ u.v4 = NoAddr /\ u.v6 = NoAddr

(* What lbadm's two commands that print a URI ask for, and what is brought. *)
ReserveCall ==
  LET r == rpc["lbadm"]
  IN /\ Blank(cmd.uri)
     /\ r.phase = "sent" => r.req.op = "Reserve"
     /\ r.phase = "done" /\ r.ok =>
          \E l \in LbIds : /\ lbs[l].state # "free" /\ lbs[l].addrs \in ServerAddrs
                           /\ r.rep.token = InstToken(l) /\ r.rep.lb = l
                           /\ AddrsOf(r.rep) = lbs[l].addrs
EnlistCall ==
  LET r == rpc["lbadm"]
  IN /\ Bears(cmd.uri) /\ cmd.uri.tok["instance"] = InstToken(cmd.uri.lbId)
     /\ r.phase = "sent" => r.req.op = "Register" /\ r.req.lb = cmd.uri.lbId
     /\ r.phase = "done" /\ r.ok =>
          \E s \in Sids : /\ r.rep = [token |-> SessToken(s), sid |-> s]
                          /\ Session(s, cmd.uri.lbId)

(* ExportedAgrees is not inductive: what is exported is what the two commands *)
(* were answered.                                                             *)
ExportInv ==
  /\ EnvInv
  /\ cmd.name = "reserve" => ReserveCall
  /\ cmd.name = "register" => EnlistCall

(* Once reserved, an LB is not given again, and keeps its addresses. *)
LbsKept ==
  \A l \in LbIds : lbs[l].state # "free" => lbs'[l].state # "free" /\ lbs'[l].addrs = lbs[l].addrs

LEMMA ReleaseKeepsLbs ==
  ASSUME LbsTyped, NEW k, Release(k)
  PROVE  LbsKept
<1>1. ASSUME NEW l \in LbIds
      PROVE  lbs'[l] = IF l = k THEN [lbs[l] EXCEPT !.state = "gone", !.admitted = {}] ELSE lbs[l]
  BY DEF Release, LbsTyped, LbShape
<1>2. ASSUME NEW l \in LbIds
      PROVE  lbs[l] = [state |-> lbs[l].state, until |-> lbs[l].until, admitted |-> lbs[l].admitted,
                       byLbadm |-> lbs[l].byLbadm, addrs |-> lbs[l].addrs]
  BY DEF LbsTyped, LbShape
<1>. QED
  BY <1>1, <1>2 DEF LbsKept

LEMMA ServerKeepsLbs ==
  ASSUME TypeInv, ServerNext
  PROVE  LbsKept
<1>. USE DEF TypeInv
<1>1. ASSUME NEW c \in Clients, ServeReserve(c) PROVE LbsKept
  BY <1>1 DEF ServeReserve, LbsKept, LbsTyped, LbShape
<1>2. ASSUME \/ \E c \in Clients : ServeFree(c)
             \/ \E l \in LbIds : ReservationEnds(l)
      PROVE  LbsKept
  BY <1>2, ReleaseKeepsLbs DEF ServeFree, ReservationEnds
<1>3. ASSUME NEW c \in Clients, ServeSenders(c) PROVE LbsKept
  <2>. DEFINE r == rpc[c].req
              A == IF r.op = "AddSenders" THEN lbs[r.lb].admitted \cup r.arg
                   ELSE lbs[r.lb].admitted \ r.arg
              B == IF c = "lbadm" THEN lbs[r.lb].byLbadm \cup r.arg
                   ELSE lbs[r.lb].byLbadm \ r.arg
  <2>1. lbs' = [lbs EXCEPT ![r.lb].admitted = A, ![r.lb].byLbadm = B]
    BY <1>3 DEF ServeSenders
  <2>2. ASSUME NEW l \in LbIds PROVE lbs'[l].state = lbs[l].state /\ lbs'[l].addrs = lbs[l].addrs
    <3>. HIDE DEF r, A, B
    <3>1. lbs'[l] = IF l = r.lb THEN [lbs[l] EXCEPT !.admitted = A, !.byLbadm = B] ELSE lbs[l]
      BY <2>1 DEF LbsTyped, LbShape
    <3>2. lbs[l] = [state |-> lbs[l].state, until |-> lbs[l].until, admitted |-> lbs[l].admitted,
                    byLbadm |-> lbs[l].byLbadm, addrs |-> lbs[l].addrs]
      BY DEF LbsTyped, LbShape
    <3>. QED
      BY <3>1, <3>2
  <2>. QED
    BY <2>2 DEF LbsKept
<1>4. ASSUME NEW c \in Clients,
             \/ ServeRegister(c) \/ ServeDeregister(c) \/ ServeState(c) \/ ServeQuery(c)
             \/ Refuse(c) \/ Lose(c)
      PROVE  LbsKept
  BY <1>4 DEF ServeRegister, ServeDeregister, ServeState, ServeQuery, Refuse, Lose, server, LbsKept
<1>5. ASSUME NEW s \in Sids, SessionExpires(s) PROVE LbsKept
  BY <1>5 DEF SessionExpires, LbsKept
<1>. QED
  BY <1>1, <1>2, <1>3, <1>4, <1>5 DEF ServerNext, Serve

LEMMA BearsKept ==
  ASSUME LbsKept, SessionsKept
  PROVE  /\ \A u : Bears(u) => Bears(u)'
         /\ \A s, l : Session(s, l) => Session(s, l)'
  BY DEF LbsKept, SessionsKept, Bears, Session

LEMMA ServerKeepsTools ==
  ASSUME ServerNext
  PROVE  UNCHANGED <<env, cmd, worker, states, sender>>
  BY DEF ServerNext, Serve, ServeReserve, ServeFree, ServeRegister, ServeDeregister, ServeState,
     ServeSenders, ServeQuery, Refuse, Lose, ReservationEnds, SessionExpires

LEMMA EnvKept ==
  ASSUME EnvInv, LbsKept, SessionsKept, UNCHANGED env
  PROVE  EnvInv'
<1>1. SUFFICES ASSUME env.kind # "admin", NEW t \in TokenType
      PROVE  LET u == FromText(env.text, t, FALSE)
             IN /\ Bears(u)' /\ DefaultPort(u)
                /\ IF env.kind = "instance" THEN u.sid = <<>> ELSE Session(u.sid, u.lbId)'
                /\ u.tok = Only(t, IF env.kind = "session" THEN SessToken(u.sid)
                                   ELSE InstToken(u.lbId))
  BY DEF EnvInv, Bears, Session
<1>. QED
  BY <1>1, BearsKept DEF EnvInv
(* Only the control plane ends a client's call. *)
LEMMA ServerEnds ==
  ASSUME TypeInv, ServerNext, NEW d \in Clients
  PROVE  RpcShape' /\ (rpc'[d] = rpc[d] \/ Serve(d))
<1>. USE DEF TypeInv, RpcTyped
<1>1. ASSUME NEW c \in Clients, Serve(c) PROVE Fail(c) \/ (\E rep : Reply(c, rep))
  BY <1>1 DEF Serve, ServeReserve, ServeFree, ServeRegister, ServeDeregister, ServeState,
     ServeSenders, ServeQuery, Refuse, Lose
<1>2. ASSUME NEW c \in Clients, Serve(c) PROVE RpcShape' /\ (c # d => rpc'[d] = rpc[d])
  BY <1>1, <1>2 DEF RpcShape, Fail, Reply
<1>3. ASSUME ~\E c \in Clients : Serve(c) PROVE UNCHANGED rpc
  BY <1>3 DEF ServerNext, ReservationEnds, SessionExpires
<1>. QED
  BY <1>2, <1>3 DEF RpcShape

LEMMA ReserveServed ==
  ASSUME TypeInv, ReserveCall, Serve("lbadm"), ServerNext
  PROVE  ReserveCall'
<1>. USE DEF TypeInv, RpcTyped
<1>1. UNCHANGED cmd
  BY ServerKeepsTools
<1>2. Blank(cmd.uri)'
  BY <1>1 DEF ReserveCall, Blank, Whole
<1>3. CASE ServeReserve("lbadm")
  <2>1. PICK l \in LbIds, a \in ServerAddrs :
           /\ lbs' = [lbs EXCEPT ![l] = [state |-> "reserved", until |-> rpc["lbadm"].req.arg.until,
                                  admitted |-> rpc["lbadm"].req.arg.senders,
                                  byLbadm |-> rpc["lbadm"].req.arg.senders, addrs |-> a]]
           /\ Reply("lbadm", [token |-> InstToken(l), lb |-> l, sync |-> a.sync,
                              syncPort |-> a.syncPort, v4 |-> a.v4, v6 |-> a.v6])
    BY <1>3 DEF ServeReserve
  <2>2. lbs'[l].state # "free" /\ lbs'[l].addrs = a
    BY <2>1 DEF LbsTyped, LbShape
  <2>3. /\ rpc'["lbadm"].phase = "done"
        /\ rpc'["lbadm"].rep = [token |-> InstToken(l), lb |-> l, sync |-> a.sync,
                                syncPort |-> a.syncPort, v4 |-> a.v4, v6 |-> a.v6]
    BY <2>1 DEF Reply, RpcShape, Clients
  <2>4. AddrsOf(rpc'["lbadm"].rep) = a /\ rpc'["lbadm"].rep.token = InstToken(l)
        /\ rpc'["lbadm"].rep.lb = l
    BY <2>3, RepliesAssumption DEF AddrsOf
  <2>. QED
    BY <1>2, <2>2, <2>3, <2>4 DEF ReserveCall, AddrsOf
<1>4. CASE Refuse("lbadm") \/ Lose("lbadm")
  <2>1. rpc'["lbadm"].phase = "done" /\ ~rpc'["lbadm"].ok
    BY <1>4 DEF Refuse, Lose, Fail, RpcShape, Clients
  <2>. QED
    BY <1>2, <2>1 DEF ReserveCall
<1>5. CASE \/ ServeRegister("lbadm") \/ ServeFree("lbadm") \/ ServeDeregister("lbadm")
           \/ ServeState("lbadm") \/ ServeSenders("lbadm") \/ ServeQuery("lbadm")
  <2>1. rpc["lbadm"].phase = "sent" /\ rpc["lbadm"].req.op # "Reserve"
    BY <1>5 DEF ServeRegister, ServeFree, ServeDeregister, ServeState, ServeSenders, ServeQuery, Asked,
       Granted
  <2>. QED
    BY <2>1 DEF ReserveCall
<1>. QED
  BY <1>3, <1>4, <1>5 DEF Serve

LEMMA EnlistServed ==
  ASSUME TypeInv, EnlistCall, Serve("lbadm"), ServerNext
  PROVE  EnlistCall'
<1>. USE DEF TypeInv, RpcTyped
<1>1. UNCHANGED cmd /\ LbsKept /\ SessionsKept
  BY ServerKeepsTools, ServerKeepsLbs, ServerKeepsSessions DEF SessionsTyped
<1>2. Bears(cmd.uri)' /\ cmd'.uri.tok["instance"] = InstToken(cmd'.uri.lbId)
  <2>1. Bears(cmd.uri) /\ cmd.uri.tok["instance"] = InstToken(cmd.uri.lbId)
    BY DEF EnlistCall
  <2>. QED
    BY <1>1, <2>1 DEF LbsKept, Bears
<1>3. CASE ServeRegister("lbadm")
  <2>1. PICK s \in Sids :
           /\ sessions' = [sessions EXCEPT ![s] = [state |-> "new", lb |-> rpc["lbadm"].req.lb,
                                                  by |-> "lbadm", w |-> rpc["lbadm"].req.arg]]
           /\ Reply("lbadm", [token |-> SessToken(s), sid |-> s])
    BY <1>3 DEF ServeRegister
  <2>2. rpc["lbadm"].req.lb = cmd.uri.lbId
    BY <1>3 DEF ServeRegister, Asked, Granted, EnlistCall
  <2>3. Session(s, cmd.uri.lbId)'
    BY <1>1, <2>1, <2>2 DEF SessionsTyped, SessionShape, Session
  <2>4. /\ rpc'["lbadm"].phase = "done"
        /\ rpc'["lbadm"].rep = [token |-> SessToken(s), sid |-> s]
    BY <2>1 DEF Reply, RpcShape, Clients
  <2>. QED
    BY <1>2, <2>3, <2>4 DEF EnlistCall
<1>4. CASE Refuse("lbadm") \/ Lose("lbadm")
  <2>1. rpc'["lbadm"].phase = "done" /\ ~rpc'["lbadm"].ok
    BY <1>4 DEF Refuse, Lose, Fail, RpcShape, Clients
  <2>. QED
    BY <1>2, <2>1 DEF EnlistCall
<1>5. CASE \/ ServeReserve("lbadm") \/ ServeFree("lbadm") \/ ServeDeregister("lbadm")
           \/ ServeState("lbadm") \/ ServeSenders("lbadm") \/ ServeQuery("lbadm")
  <2>1. rpc["lbadm"].phase = "sent" /\ rpc["lbadm"].req.op # "Register"
    BY <1>5 DEF ServeReserve, ServeFree, ServeDeregister, ServeState, ServeSenders, ServeQuery, Asked,
       Granted
  <2>. QED
    BY <2>1 DEF EnlistCall
<1>. QED
  BY <1>3, <1>4, <1>5 DEF Serve

LEMMA ServerExports ==
  ASSUME TypeInv, ExportInv, ServerNext
  PROVE  ExportInv'
<1>1. UNCHANGED <<env, cmd>> /\ LbsKept /\ SessionsKept
  BY ServerKeepsTools, ServerKeepsLbs, ServerKeepsSessions DEF TypeInv, SessionsTyped
<1>2. EnvInv'
  BY <1>1, EnvKept DEF ExportInv
<1>3. ASSUME cmd.name = "reserve" PROVE ReserveCall'
  <2>1. ReserveCall
    BY <1>3 DEF ExportInv
  <2>2. CASE rpc'["lbadm"] = rpc["lbadm"]
    BY <1>1, <2>1, <2>2 DEF ReserveCall, Blank, Whole, LbsKept, AddrsOf
  <2>. QED
    BY <2>1, <2>2, ServerEnds, ReserveServed DEF Clients
<1>4. ASSUME cmd.name = "register" PROVE EnlistCall'
  <2>1. EnlistCall
    BY <1>4 DEF ExportInv
  <2>2. CASE rpc'["lbadm"] = rpc["lbadm"]
    BY <1>1, <2>1, <2>2 DEF EnlistCall, Bears, Session, LbsKept, SessionsKept
  <2>. QED
    BY <2>1, <2>2, ServerEnds, EnlistServed DEF Clients
<1>. QED
  BY <1>1, <1>2, <1>3, <1>4 DEF ExportInv
(* The administrator's URI has nothing of an LB, named or not. *)
LEMMA AdminBlank ==
  LET u == FromText(AdminText, "admin", FALSE)
  IN /\ u.ok /\ Blank(u) /\ u.tok = Only("admin", AdminToken) /\ u.lbId = AdminText.path
     /\ Blank(Named(u, <<"lb">>))
<1>. DEFINE u == FromText(AdminText, "admin", FALSE)
            Parsed(v) == \E tls, port : v =
               [ok |-> TRUE, tls |-> tls, cpAddr |-> CpRead, cpHost |-> CpHostRead,
                cpPort |-> AdminText.port, tok |-> Only("admin", AdminToken), lbName |-> <<>>,
                lbId |-> AdminText.path, sid |-> <<>>, sync |-> NoAddr, syncPort |-> Indeterminate,
                v4 |-> NoAddr, v6 |-> NoAddr, dataPort |-> port]
<1>1. /\ IsPort(AdminText.port) /\ AdminText.query = <<>>
      /\ AdminText.token = AdminToken /\ u.ok
  BY AdminTextAssumption, CPAssumption
<1>2. u = Parse(AdminText, "admin", FALSE) /\ u # Throw
  <2>1. u # Throw
    <3>1. ~Throw.ok
      BY DEF Throw
    <3>. QED
      BY <1>1, <3>1, Zenon
  <2>. QED
    BY <2>1 DEF FromText
<1>3. Parsed(u)
  <2>. DEFINE q == AdminText.query
              keyed(k) == {i \in DOMAIN q : q[i].key = k}
  <2>1. \A k : keyed(k) = {}
    BY <1>1
  <2>2. StringToPort(AdminText.port) = AdminText.port
    BY <1>1, PortKept
  <2>. QED
    BY <1>1, <1>2, <2>1, <2>2 DEF Parse, Only, CpRead, CpHostRead
<1>. HIDE DEF u
<1>4. Blank(u) /\ u.tok = Only("admin", AdminToken) /\ u.lbId = AdminText.path
  <2>1. CpText(u) = AdminText.host
    <3>1. u.cpAddr = CpRead /\ u.cpHost = CpHostRead
      BY <1>3
    <3>. QED
      BY <3>1, HostReads
  <2>. QED
    BY <1>3, <2>1 DEF Blank, Whole, Only
<1>5. Blank(Named(u, <<"lb">>))
  <2>. DEFINE n == [u EXCEPT !.lbName = <<"lb">>]
  <2>1. Blank(n)
    BY <1>4 DEF Blank, Whole, CpText
  <2>. HIDE DEF n
  <2>2. Named(u, <<"lb">>) \in {u, n}
    BY DEF Named, n
  <2>. QED
    BY <1>4, <2>1, <2>2
<1>. QED
  BY <1>1, <1>4, <1>5, Zenon DEF u

(* What a reply's addresses leave: w0 the URI before the sync address and w1 *)
(* after it; and what they are when all of them parse.                        *)
PlaceAll(w0, w1, b, b4, b6) ==
  LET s1 == Place([ok |-> TRUE, uri |-> w0], b, w1)
      s2 == Place(s1, b4, SetDataAddr(s1.uri, b4))
  IN Place(s2, b6, SetDataAddr(s2.uri, b6))
WithData(w, b) == IF b = NoAddr THEN w ELSE SetDataAddr(w, b)

LEMMA Placed ==
  ASSUME NEW w0, NEW w1, NEW b, NEW b4, NEW b6, b # NoAddr
  PROVE  LET s == PlaceAll(w0, w1, b, b4, b6)
         IN /\ s.ok \in BOOLEAN
            /\ s.ok = TRUE =>
                 /\ b \in Addr /\ b4 \in Addr \cup {NoAddr} /\ b6 \in Addr \cup {NoAddr}
                 /\ s.uri = WithData(WithData(w1, b4), b6)
<1>. DEFINE s1 == Place([ok |-> TRUE, uri |-> w0], b, w1)
            s2 == Place(s1, b4, SetDataAddr(s1.uri, b4))
            s3 == Place(s2, b6, SetDataAddr(s2.uri, b6))
            w2 == IF b4 = NoAddr THEN w1 ELSE SetDataAddr(w1, b4)
            Good1 == b \in Addr /\ s1 = [ok |-> TRUE, uri |-> w1]
            Good2 == b4 \in Addr \cup {NoAddr} /\ s2 = [ok |-> TRUE, uri |-> w2]
            Good3 == /\ b6 \in Addr \cup {NoAddr}
                     /\ s3 = [ok |-> TRUE, uri |-> IF b6 = NoAddr THEN w2 ELSE SetDataAddr(w2, b6)]
<1>1. s1.ok = FALSE \/ Good1
  BY DEF Place
<1>. HIDE DEF s1
<1>2. s1.ok = FALSE => s2 = s1
  BY DEF Place
<1>3. Good1 => s2.ok = FALSE \/ Good2
  <2>1. ASSUME Good1 PROVE s2 = Place([ok |-> TRUE, uri |-> w1], b4, SetDataAddr(w1, b4))
    BY <2>1
  <2>2. LET s == Place([ok |-> TRUE, uri |-> w1], b4, SetDataAddr(w1, b4))
        IN s.ok = FALSE \/ (b4 \in Addr \cup {NoAddr} /\ s = [ok |-> TRUE, uri |-> w2])
    BY DEF Place
  <2>. QED
    BY <2>1, <2>2
<1>. HIDE DEF s2, w2
<1>4. s2.ok = FALSE => s3 = s2
  BY DEF Place
<1>5. Good2 => s3.ok = FALSE \/ Good3
  <2>1. ASSUME Good2 PROVE s3 = Place([ok |-> TRUE, uri |-> w2], b6, SetDataAddr(w2, b6))
    BY <2>1
  <2>2. LET s == Place([ok |-> TRUE, uri |-> w2], b6, SetDataAddr(w2, b6))
        IN s.ok = FALSE \/ (b6 \in Addr \cup {NoAddr}
             /\ s = [ok |-> TRUE, uri |-> IF b6 = NoAddr THEN w2 ELSE SetDataAddr(w2, b6)])
    BY DEF Place
  <2>. QED
    BY <2>1, <2>2
<1>. HIDE DEF s3
<1>6. s3.ok = FALSE \/ (Good1 /\ Good2 /\ Good3)
  BY <1>1, <1>2, <1>3, <1>4, <1>5
<1>7. /\ s3.ok \in BOOLEAN
      /\ s3.ok = TRUE =>
           /\ b \in Addr /\ b4 \in Addr \cup {NoAddr} /\ b6 \in Addr \cup {NoAddr}
           /\ s3.uri = IF b6 = NoAddr THEN w2 ELSE SetDataAddr(w2, b6)
  <2>1. CASE s3.ok = FALSE
    BY <2>1
  <2>2. CASE Good1 /\ Good2 /\ Good3
    <3>1. s3.ok = TRUE /\ s3.uri = IF b6 = NoAddr THEN w2 ELSE SetDataAddr(w2, b6)
      BY <2>2
    <3>. QED
      BY <2>2, <3>1
  <2>. QED
    BY <1>6, <2>1, <2>2
<1>8. s3 = PlaceAll(w0, w1, b, b4, b6)
  BY DEF PlaceAll, s1, s2, s3
<1>. QED
  BY <1>7, <1>8 DEF w2, WithData

(* A data address goes to the place of its family. *)
LEMMA DataSet ==
  ASSUME NEW u, Whole(u), NEW b
  PROVE  LET v == SetDataAddr(u, b)
         IN /\ Whole(v) /\ v.ok = u.ok /\ CpText(v) = CpText(u) /\ v.cpPort = u.cpPort
            /\ v.tok = u.tok /\ v.lbId = u.lbId /\ v.sid = u.sid
            /\ v.sync = u.sync /\ v.syncPort = u.syncPort
            /\ v.v4 = (IF b \in V4 THEN b ELSE u.v4) /\ v.v6 = (IF b \in V4 THEN u.v6 ELSE b)
<1>1. CASE b \in V4
  BY <1>1 DEF SetDataAddr, Whole, CpText
<1>2. CASE b \notin V4
  BY <1>2 DEF SetDataAddr, Whole, CpText
<1>. QED
  BY <1>1, <1>2

(* What a reservation brings is in the URI, and parses. *)
LEMMA Filled ==
  ASSUME RepliesHaveSync,
         NEW u, Blank(u), NEW l \in LbIds, NEW a \in ServerAddrs, NEW rep,
         rep.token = InstToken(l), rep.lb = l, AddrsOf(rep) = a, FillReservation(u, rep).ok
  PROVE  LET v == FillReservation(u, rep).uri
         IN /\ Printable(v) /\ Whole(v) /\ v.lbId = l /\ v.sid = <<>> /\ AddrsOf(v) = a
            /\ v.tok["instance"] = InstToken(l)
<1>. DEFINE u1 == IF rep.token = <<>> THEN u ELSE SetToken(u, "instance", rep.token)
            u2 == IF rep.lb = <<>> THEN u1 ELSE [u1 EXCEPT !.lbId = rep.lb]
            u3 == SetSyncAddr(u2, rep.sync, rep.syncPort % 65536)
            w2 == IF rep.v4 = NoAddr THEN u3 ELSE SetDataAddr(u3, rep.v4)
            w3 == IF rep.v6 = NoAddr THEN w2 ELSE SetDataAddr(w2, rep.v6)
            fill == FillReservation(u, rep)
            Kept(w) == /\ Whole(w) /\ w.ok = TRUE /\ CpText(w) = AdminText.host
                       /\ w.cpPort = AdminText.port /\ w.tok["instance"] = InstToken(l)
                       /\ w.lbId = l /\ w.sid = <<>> /\ w.sync = rep.sync
                       /\ w.syncPort = rep.syncPort
<1>1. /\ rep.sync = a.sync /\ rep.syncPort = a.syncPort /\ rep.v4 = a.v4 /\ rep.v6 = a.v6
      /\ rep.sync # NoAddr /\ IsPort(rep.syncPort) /\ rep.v4 \notin V6 /\ rep.v6 \notin V4
  BY RepliesAssumption DEF AddrsOf, RepliesHaveSync
<1>2. /\ fill.ok \in BOOLEAN
      /\ fill.ok = TRUE =>
           /\ rep.sync \in Addr /\ rep.v4 \in Addr \cup {NoAddr} /\ rep.v6 \in Addr \cup {NoAddr}
           /\ fill.uri = w3
  <2>1. fill = PlaceAll(u2, u3, rep.sync, rep.v4, rep.v6)
    BY DEF FillReservation, PlaceAll
  <2>. HIDE DEF u2, u3, fill
  <2>. QED
    <3>1. rep.sync # NoAddr
      BY <1>1
    <3>2. LET s == PlaceAll(u2, u3, rep.sync, rep.v4, rep.v6)
          IN /\ s.ok \in BOOLEAN
             /\ s.ok = TRUE =>
                  /\ rep.sync \in Addr /\ rep.v4 \in Addr \cup {NoAddr}
                  /\ rep.v6 \in Addr \cup {NoAddr}
                  /\ s.uri = WithData(WithData(u3, rep.v4), rep.v6)
      BY <3>1, Placed, Zenon
    <3>. QED
      BY <2>1, <3>2 DEF WithData
<1>3. fill.ok = TRUE
  <2>. HIDE DEF w3
  <2>1. fill.ok \in BOOLEAN
    BY <1>2
  <2>. HIDE DEF fill
  <2>. QED
    BY <2>1, Zenon DEF fill
<1>4. Kept(u3) /\ u3.v4 = NoAddr /\ u3.v6 = NoAddr
  <2>1. rep.token # <<>> /\ rep.lb # <<>>
    BY CPAssumption
  <2>2. u2 = [SetToken(u, "instance", rep.token) EXCEPT !.lbId = rep.lb]
    BY <2>1
  <2>. HIDE DEF u2
  <2>. QED
    BY <1>1, <2>2, PortKept DEF Blank, Whole, SetToken, SetSyncAddr, TokenType, CpText
<1>. HIDE DEF u2, u3, fill
<1>5. rep.v4 \in V4 \cup {NoAddr} /\ rep.v6 \in V6 \cup {NoAddr} /\ rep.v6 \notin V4
  BY <1>1, <1>2, <1>3 DEF Addr
<1>6. Kept(w2) /\ w2.v4 = rep.v4 /\ w2.v6 = NoAddr
  <2>1. CASE rep.v4 # NoAddr
    BY <1>4, <1>5, <2>1, DataSet
  <2>. QED
    BY <1>4, <2>1
<1>. HIDE DEF w2
<1>7. Kept(w3) /\ w3.v4 = rep.v4 /\ w3.v6 = rep.v6
  <2>1. CASE rep.v6 # NoAddr
    BY <1>5, <1>6, <2>1, DataSet
  <2>. QED
    BY <1>6, <2>1
<1>. HIDE DEF w3
<1>8. LET v == w3
      IN /\ Printable(v) /\ Whole(v) /\ v.lbId = l /\ v.sid = <<>> /\ AddrsOf(v) = AddrsOf(rep)
         /\ v.tok["instance"] = InstToken(l)
  BY <1>1, <1>2, <1>3, <1>5, <1>7 DEF Printable, AddrsOf
<1>. QED
  BY <1>2, <1>3, <1>8 DEF fill

(* The URI a command reads, and with --lbid of which LB. *)
CommandURI(name, in) ==
  LET u0 == FromText(in.text, CommandTokenType(name), FALSE)
  IN IF in.lbid = <<>> THEN u0 ELSE [u0 EXCEPT !.lbId = in.lbid]

LEMMA CommandRuns ==
  ASSUME NEW name, RunCommand(name)
  PROVE  \E in \in Inputs(name), ch \in Choices :
           LET u0  == FromText(in.text, CommandTokenType(name), FALSE)
               u   == CommandURI(name, in)
               req == CommandRequest(name, u, in.lbid, ch)
           IN \/ /\ ~u0.ok
                 /\ refused' = refused \cup {[by |-> "lbadm", op |-> "parse", held |-> TRUE]}
                 /\ UNCHANGED <<cmd, rpc>>
              \/ u0.ok /\ Try("lbadm", name, u, req) /\ req.op = "early" /\ UNCHANGED cmd
              \/ /\ u0.ok /\ Try("lbadm", name, u, req) /\ req.op # "early"
                 /\ cmd' = [name |-> name, uri |-> IF name = "reserve" THEN Named(u, <<"lb">>) ELSE u]
<1>. DEFINE u0(in)  == FromText(in.text, CommandTokenType(name), FALSE)
            u(in)   == CommandURI(name, in)
            req(in, ch) == CommandRequest(name, u(in), in.lbid, ch)
<1>1. PICK in \in Inputs(name), ch \in Choices :
        IF ~u0(in).ok
        THEN /\ refused' = refused \cup {[by |-> "lbadm", op |-> "parse", held |-> TRUE]}
             /\ UNCHANGED <<cmd, rpc>>
        ELSE /\ Try("lbadm", name, u(in), req(in, ch))
             /\ cmd' = IF req(in, ch).op = "early" THEN cmd ELSE
                       [name |-> name, uri |-> IF name = "reserve" THEN Named(u(in), <<"lb">>) ELSE u(in)]
  BY Zenon DEF RunCommand, CommandURI
<1>. QED
  BY <1>1, Zenon

LEMMA RunExports ==
  ASSUME TypeInv, ExportInv, NEW name \in Commands, RunCommand(name)
  PROVE  ExportInv'
<1>. USE DEF TypeInv, RpcTyped
<1>1. UNCHANGED <<lbs, sessions, env>> /\ cmd = NoCommand
  BY DEF RunCommand, server
<1>2. LbsKept /\ SessionsKept
  BY <1>1 DEF LbsKept, SessionsKept
<1>3. EnvInv'
  BY <1>1, <1>2, EnvKept DEF ExportInv
<1>4. PICK in \in Inputs(name), ch \in Choices :
           LET u0  == FromText(in.text, CommandTokenType(name), FALSE)
               u   == CommandURI(name, in)
               req == CommandRequest(name, u, in.lbid, ch)
           IN \/ UNCHANGED cmd
              \/ /\ u0.ok /\ Try("lbadm", name, u, req) /\ req.op # "early"
                 /\ cmd' = [name |-> name, uri |-> IF name = "reserve" THEN Named(u, <<"lb">>) ELSE u]
  BY CommandRuns, Zenon
<1>5. CASE UNCHANGED cmd
  BY <1>1, <1>3, <1>5 DEF ExportInv, NoCommand
<1>6. PICK u : u = CommandURI(name, in)
  OBVIOUS
<1>7. PICK req : req = CommandRequest(name, u, in.lbid, ch)
  OBVIOUS
<1>8. CASE /\ Try("lbadm", name, u, req) /\ req.op # "early"
           /\ cmd' = [name |-> name, uri |-> IF name = "reserve" THEN Named(u, <<"lb">>) ELSE u]
  <2>1. rpc'["lbadm"] = [phase |-> "sent", req |-> req] /\ cmd'.name = name
    BY <1>8 DEF Try, RpcShape, Clients
  <2>2. CASE name = "reserve"
    <3>1. in = [text |-> AdminText, lbid |-> <<>>]
      <4>1. name \notin {"free", "status"} /\ name \in AdminCommands
        BY <2>2 DEF AdminCommands
      <4>2. Inputs(name) = {[text |-> AdminText, lbid |-> l] : l \in {<<>>}}
        <5>. DEFINE S == {[text |-> AdminText, lbid |-> l] : l \in {<<>>}}
                    T == {[text |-> AdminText, lbid |-> l] : l \in {k \in LbIds : lbs[k].state # "free"}}
                    own == {[text |-> env.text, lbid |-> <<>>]}
                    isSet == env.kind \in {"instance", "registered"}
        <5>1. Inputs(name) = CASE name \in {"free", "status"} -> T \cup (IF isSet THEN own ELSE {})
                     [] name \in AdminCommands \ {"free", "status"} -> S
                     [] name \in InstanceCommands -> IF isSet THEN own ELSE {}
                     [] OTHER -> IF env.kind \in {"registered", "session"} THEN own ELSE {}
          BY Zenon DEF Inputs
        <5>. HIDE DEF S, T, own, isSet
        <5>2. Inputs(name) = S
          BY <2>2, <5>1 DEF AdminCommands, InstanceCommands
        <5>. QED
          BY <5>2 DEF S
      <4>. QED
        BY <4>2
    <3>2. u = FromText(AdminText, "admin", FALSE)
      BY <1>6, <2>2, <3>1 DEF CommandURI, CommandTokenType, AdminCommands
    <3>3. Blank(cmd'.uri)
      <4>1. cmd'.uri = Named(u, <<"lb">>)
        BY <1>8, <2>2
      <4>. QED
        BY <3>2, <4>1, AdminBlank
    <3>4. req.op = "Reserve"
      <4>1. req = ReserveLB(u, "lb", ch.duration, ch.senders, DUAL_STACK)
        BY <1>7, <2>2 DEF CommandRequest
      <4>. QED
        BY <1>8, <4>1 DEF ReserveLB, ReserveUntil, Rpc, Early, NoToken
    <3>5. ReserveCall'
      BY <2>1, <3>3, <3>4 DEF ReserveCall, Blank, Whole
    <3>. QED
      BY <1>3, <2>1, <2>2, <3>5 DEF ExportInv
  <2>3. CASE name = "register"
    <3>1. in = [text |-> env.text, lbid |-> <<>>] /\ env.kind \in {"instance", "registered"}
      BY <2>3 DEF Inputs, AdminCommands, InstanceCommands
    <3>2. u = FromText(env.text, "instance", FALSE)
      BY <1>6, <2>3, <3>1 DEF CommandURI, CommandTokenType, AdminCommands, InstanceCommands
    <3>3. Bears(u) /\ u.tok = Only("instance", InstToken(u.lbId))
      BY <3>1, <3>2 DEF ExportInv, EnvInv, TokenType
    <3>4. Bears(u)' /\ u.tok["instance"] = InstToken(u.lbId)
      BY <1>2, <3>3, BearsKept DEF Only, TokenType
    <3>5. req.op = "Register" /\ req.lb = u.lbId
      <4>1. \E w, v : req = RegisterWorkerSelf(u, w, v) \/ req = RegisterWorker(u, w)
        BY <1>7, <2>3 DEF CommandRequest
      <4>. QED
        BY <1>8, <4>1 DEF RegisterWorkerSelf, RegisterWorker, Rpc, Early, NoToken
    <3>6. cmd'.uri = u
      BY <1>8, <2>3
    <3>7. EnlistCall'
      BY <2>1, <3>4, <3>5, <3>6 DEF EnlistCall, Bears
    <3>. QED
      BY <1>3, <2>1, <2>3, <3>7 DEF ExportInv
  <2>4. CASE name \notin {"reserve", "register"}
    BY <1>3, <2>1, <2>4 DEF ExportInv
  <2>. QED
    BY <2>2, <2>3, <2>4
<1>. QED
  BY <1>4, <1>5, <1>6, <1>7, <1>8, Zenon

(* What is printed reads back. *)
LEMMA PrintExports ==
  ASSUME NEW v, Bears(v), NEW kind, NEW token, UNCHANGED <<lbs, sessions>>,
         env' = [kind |-> kind, text |-> AsText(v, token)], kind # "admin",
         IF kind = "instance" THEN v.sid = <<>> ELSE Session(v.sid, v.lbId),
         token = IF kind = "session" THEN SessToken(v.sid) ELSE InstToken(v.lbId)
  PROVE  EnvInv'
<1>1. LbsKept /\ SessionsKept
  BY DEF LbsKept, SessionsKept
<1>2. ASSUME NEW t \in TokenType, NEW u, u = FromText(AsText(v, token), t, FALSE)
      PROVE  /\ Bears(u)' /\ DefaultPort(u)
             /\ IF kind = "instance" THEN u.sid = <<>> ELSE Session(u.sid, u.lbId)'
             /\ u.tok = Only(t, IF kind = "session" THEN SessToken(u.sid) ELSE InstToken(u.lbId))
  <2>1. /\ Printable(u) /\ Whole(u) /\ u.tok = Only(t, token)
        /\ u.lbId = v.lbId /\ u.sid = v.sid
        /\ u.sync = v.sync /\ u.syncPort = v.syncPort /\ u.v4 = v.v4 /\ u.v6 = v.v6
        /\ DefaultPort(u)
    <3>1. Printable(v)
      BY DEF Bears
    <3>. QED
      <4>1. LET r == FromText(AsText(v, token), t, FALSE)
            IN /\ Printable(r) /\ Whole(r) /\ r.tok = Only(t, token)
               /\ r.lbId = v.lbId /\ r.sid = v.sid
               /\ r.sync = v.sync /\ r.syncPort = v.syncPort /\ r.v4 = v.v4 /\ r.v6 = v.v6
               /\ DefaultPort(r)
        BY ONLY <3>1, ReadBack, Zenon
      <4>. QED
        BY <1>2, <4>1, Zenon
  <2>2. Bears(u)
    BY <2>1 DEF Bears, AddrsOf
  <2>. QED
    BY <1>1, <2>1, <2>2, BearsKept
<1>. QED
  BY <1>2 DEF EnvInv, Bears, Session

LEMMA LbadmExports ==
  ASSUME RepliesHaveSync, TypeInv, ExportInv, LbadmNext
  PROVE  ExportInv'
<1>. USE DEF TypeInv, RpcTyped
<1>1. ASSUME CommandFails \/ CommandSucceeds PROVE ExportInv'
  <2>1. UNCHANGED <<lbs, sessions, env>> /\ cmd' = NoCommand
    BY <1>1 DEF CommandFails, CommandSucceeds, server
  <2>2. LbsKept /\ SessionsKept
    BY <2>1 DEF LbsKept, SessionsKept
  <2>. QED
    BY <2>1, <2>2, EnvKept DEF ExportInv, NoCommand
<1>2. ASSUME ReserveSucceeds PROVE ExportInv'
  <2>1. /\ UNCHANGED <<lbs, sessions>> /\ cmd' = NoCommand
        /\ Blank(cmd.uri) /\ ReserveCall
        /\ FillReservation(cmd.uri, rpc["lbadm"].rep).ok
        /\ rpc["lbadm"].phase = "done" /\ rpc["lbadm"].ok
    BY <1>2 DEF ReserveSucceeds, server, ExportInv, ReserveCall, Returned
  <2>2. PICK l \in LbIds : /\ lbs[l].state # "free" /\ lbs[l].addrs \in ServerAddrs
                          /\ rpc["lbadm"].rep.token = InstToken(l) /\ rpc["lbadm"].rep.lb = l
                          /\ AddrsOf(rpc["lbadm"].rep) = lbs[l].addrs
    BY <2>1 DEF ReserveCall
  <2>3. PICK v : v = FillReservation(cmd.uri, rpc["lbadm"].rep).uri
    OBVIOUS
  <2>4. /\ Printable(v) /\ Whole(v) /\ v.lbId = l /\ v.sid = <<>> /\ AddrsOf(v) = lbs[l].addrs
        /\ v.tok["instance"] = InstToken(l)
    BY <2>1, <2>2, <2>3, Filled
  <2>5. Bears(v)
    BY <2>2, <2>4 DEF Bears
  <2>6. env' = [kind |-> "instance", text |-> AsText(v, InstToken(v.lbId))]
    BY <1>2, <2>3, <2>4 DEF ReserveSucceeds, ToString
  <2>7. EnvInv'
    BY <2>1, <2>4, <2>5, <2>6, PrintExports
  <2>. QED
    BY <2>1, <2>7 DEF ExportInv, NoCommand
<1>3. ASSUME RegisterSucceeds PROVE ExportInv'
  <2>1. /\ UNCHANGED <<lbs, sessions>> /\ cmd' = NoCommand
        /\ EnlistCall /\ rpc["lbadm"].phase = "done" /\ rpc["lbadm"].ok
    BY <1>3 DEF RegisterSucceeds, server, ExportInv, Returned
  <2>2. PICK s \in Sids : rpc["lbadm"].rep = [token |-> SessToken(s), sid |-> s]
                          /\ Session(s, cmd.uri.lbId)
    BY <2>1 DEF EnlistCall
  <2>3. PICK v : v = FillSession(cmd.uri, rpc["lbadm"].rep)
    OBVIOUS
  <2>4. /\ Bears(v) /\ v.sid = s /\ v.lbId = cmd.uri.lbId
        /\ v.tok["session"] = SessToken(s) /\ v.tok["instance"] = InstToken(v.lbId)
    <3>1. Bears(cmd.uri) /\ cmd.uri.tok["instance"] = InstToken(cmd.uri.lbId)
      BY <2>1 DEF EnlistCall
    <3>2. SessToken(s) # <<>> /\ s # <<>>
      BY CPAssumption
    <3>3. v = [SetToken(cmd.uri, "session", SessToken(s)) EXCEPT !.sid = s]
      BY <2>2, <2>3, <3>2 DEF FillSession
    <3>4. /\ Whole(v) /\ v.sid = s /\ v.lbId = cmd.uri.lbId
          /\ v.tok["session"] = SessToken(s) /\ v.tok["instance"] = cmd.uri.tok["instance"]
          /\ v.ok = cmd.uri.ok /\ CpText(v) = CpText(cmd.uri) /\ v.cpPort = cmd.uri.cpPort
          /\ v.sync = cmd.uri.sync /\ v.syncPort = cmd.uri.syncPort
          /\ v.v4 = cmd.uri.v4 /\ v.v6 = cmd.uri.v6
      BY <3>1, <3>3 DEF Bears, Whole, SetToken, TokenType, CpText
    <3>. QED
      BY <3>1, <3>4 DEF Bears, Printable, AddrsOf
  <2>5. \/ env' = [kind |-> "registered", text |-> AsText(v, InstToken(v.lbId))]
        \/ env' = [kind |-> "session", text |-> AsText(v, SessToken(v.sid))]
    BY <1>3, <2>3, <2>4 DEF RegisterSucceeds, ToString
  <2>6. Session(v.sid, v.lbId)
    BY <2>2, <2>4
  <2>7. EnvInv'
    BY <2>1, <2>4, <2>5, <2>6, PrintExports
  <2>. QED
    BY <2>1, <2>7 DEF ExportInv, NoCommand
<1>. QED
  BY <1>1, <1>2, <1>3, RunExports DEF LbadmNext

(* The receiver and the sender call for themselves. *)
LEMMA ToolsKeepLbadm ==
  ASSUME RpcShape, WorkerNext \/ StateThreadNext \/ SenderNext
  PROVE  RpcShape' /\ UNCHANGED <<lbs, sessions, live, env, cmd>> /\ rpc'["lbadm"] = rpc["lbadm"]
<1>1. ASSUME CallRegister \/ CallDeregister \/ CallSendState \/ CallAddSenders \/ CallRemoveSenders
      PROVE  RpcShape' /\ UNCHANGED <<lbs, sessions, live, env, cmd>> /\ rpc'["lbadm"] = rpc["lbadm"]
  BY <1>1 DEF CallRegister, CallDeregister, CallSendState, CallAddSenders, CallRemoveSenders, Try,
     server, RpcShape, Clients
<1>2. ASSUME \/ RegisterReturns \/ DeregisterReturns \/ SendStateReturns \/ AddSendersReturns
             \/ RemoveSendersReturns
      PROVE  RpcShape' /\ UNCHANGED <<lbs, sessions, live, env, cmd>> /\ rpc'["lbadm"] = rpc["lbadm"]
  BY <1>2 DEF RegisterReturns, DeregisterReturns, SendStateReturns, AddSendersReturns,
     RemoveSendersReturns, Hangup, server, RpcShape, Clients
<1>3. ASSUME \/ \E run \in WorkerRuns : LaunchWorker(run)
             \/ \E run \in SenderRuns : LaunchSender(run)
             \/ HostNameFails \/ OpenAndStart \/ OpenFails \/ ReadersEnd \/ StopThreads
             \/ WorkerJoins \/ InterruptWorker \/ KillWorker \/ StateThreadEnds
      PROVE  UNCHANGED <<lbs, sessions, live, env, cmd, rpc>>
  BY <1>3 DEF LaunchWorker, LaunchSender, HostNameFails, OpenAndStart, OpenFails, ReadersEnd,
     StopThreads, WorkerJoins, InterruptWorker, KillWorker, StateThreadEnds, server
<1>4. ASSUME \/ BuildSegmenter \/ OpenSegmenter \/ OpenSegmenterFails \/ SendingEnds
             \/ StopSegmenter \/ SenderExits \/ InterruptSender \/ AllSent
      PROVE  UNCHANGED <<lbs, sessions, live, env, cmd, rpc>>
  BY <1>4 DEF BuildSegmenter, OpenSegmenter, OpenSegmenterFails, SendingEnds, StopSegmenter,
     SenderExits, InterruptSender, AllSent, server
<1>. QED
  BY <1>1, <1>2, <1>3, <1>4 DEF WorkerNext, WorkerSteps, StateThreadNext, SenderNext, SenderSteps,
     RpcShape

LEMMA ExportFrame ==
  ASSUME ExportInv, UNCHANGED <<lbs, sessions, env, cmd>>, rpc'["lbadm"] = rpc["lbadm"]
  PROVE  ExportInv'
<1>1. EnvInv'
  BY EnvKept DEF ExportInv, LbsKept, SessionsKept
<1>2. ASSUME cmd.name = "reserve" PROVE ReserveCall'
  BY <1>2 DEF ExportInv, ReserveCall, Blank, Whole, AddrsOf
<1>3. ASSUME cmd.name = "register" PROVE EnlistCall'
  BY <1>3 DEF ExportInv, EnlistCall, Bears, Session
<1>. QED
  BY <1>1, <1>2, <1>3 DEF ExportInv

LEMMA ExportInductive ==
  ASSUME RepliesHaveSync
  PROVE  TypeInv /\ ExportInv /\ [Next]_vars => ExportInv'
<1>. SUFFICES ASSUME TypeInv, ExportInv, [Next]_vars PROVE ExportInv'
  OBVIOUS
<1>1. CASE ServerNext
  BY <1>1, ServerExports
<1>2. CASE LbadmNext
  BY <1>2, LbadmExports
<1>3. CASE WorkerNext \/ StateThreadNext \/ SenderNext
  BY <1>3, ToolsKeepLbadm, ExportFrame DEF TypeInv, RpcTyped
<1>4. CASE UNCHANGED vars
  BY <1>4, ExportFrame DEF vars
<1>. QED
  BY <1>1, <1>2, <1>3, <1>4 DEF Next

LEMMA InitExports == Init => ExportInv
  BY DEF Init, NoCommand, ExportInv, EnvInv

(* Where every reply has an address for the sync messages, what EJFAT_URI   *)
(* says to any tool that reads it is what the control plane holds: the      *)
(* administrator's host, a given LB's id, its addresses, the token of that  *)
(* LB and, once lbadm has registered a worker, its session.                 *)
(* (lbadm.cpp's printing of the URI, EjfatURI::to_string and the parse of   *)
(* the constructor, and the filling of the URI from the replies.)           *)
THEOREM ExportedAgreesCorrect ==
  ASSUME RepliesHaveSync
  PROVE  Spec => []ExportedAgrees
<1>1. Init => TypeInv /\ ExportInv
  BY InitTyped, InitExports
<1>2. TypeInv /\ ExportInv => ExportedAgrees
  <2>. SUFFICES ASSUME ExportInv, env.kind # "admin" PROVE ExportedAgrees
    BY DEF ExportedAgrees
  <2>1. PICK tt : tt = IF env.kind = "session" THEN "session" ELSE "instance"
    OBVIOUS
  <2>2. PICK u : u = FromText(env.text, tt, FALSE)
    OBVIOUS
  <2>3. /\ Bears(u)
        /\ IF env.kind = "instance" THEN u.sid = <<>> ELSE Session(u.sid, u.lbId)
        /\ u.tok = Only(tt, IF env.kind = "session" THEN SessToken(u.sid) ELSE InstToken(u.lbId))
    BY <2>1, <2>2 DEF ExportInv, EnvInv, TokenType
  <2>4. u.tok[tt] = IF env.kind = "session" THEN SessToken(u.sid) ELSE InstToken(u.lbId)
    BY <2>1, <2>3 DEF Only, TokenType
  <2>5. u.ok
    BY <2>3 DEF Bears, Printable
  <2>. QED
    BY <2>1, <2>2, <2>3, <2>4, <2>5 DEF ExportedAgrees, Bears, Printable, AddrsOf, Session
<1>. QED
  BY <1>1, <1>2, TypeInductive, ExportInductive, PTL DEF Spec

-----------------------------------------------------------------------------
(* No call is turned down for want of a credential *)

(* A request whose token entitles its holder to it, now and later. *)
Backed(r) ==
  \/ r.token = AdminToken
  \/ /\ r.op \in {"Free", "Status", "Register", "AddSenders", "RemoveSenders"}
     /\ r.lb \in LbIds /\ r.token = InstToken(r.lb)
  \/ /\ r.op \in {"Deregister", "SendState"}
     /\ r.sid \in Sids /\ sessions[r.sid].state # "none" /\ sessions[r.sid].lb = r.lb
     /\ r.token \in {InstToken(r.lb), SessToken(r.sid)}

(* A process that was started with the instance token of an LB. *)
Holds(u) == u.lbId \in LbIds /\ u.tok["instance"] = InstToken(u.lbId)

(* NotRefused is not inductive: what a tool asks for must be what its token is *)
(* for, by the time the control plane looks at it.                             *)
RequestsBacked == \A c \in Clients : rpc[c].phase = "sent" => Backed(rpc[c].req)
WorkerCred ==
  worker.pc \in Launched =>
    Holds(worker.uri) /\ (worker.uri.tok["session"] = <<>> \/ Registered(worker.uri))
SenderCred == sender.pc \notin {"off", "exited"} => Holds(sender.uri)
CredInv == RequestsBacked /\ WorkerCred /\ SenderCred /\ NotRefused

LEMMA BackedCovers ==
  ASSUME NEW r, Backed(r)
  PROVE  Covers(r)
  BY DEF Backed, Covers

LEMMA CredKept ==
  ASSUME SessionsKept
  PROVE  /\ \A r : Backed(r) => Backed(r)'
         /\ \A u : Registered(u) => Registered(u)'
         /\ \A u : Holds(u) => Holds(u)'
  BY DEF SessionsKept, Backed, Registered, Recorded, Holds

(* A call that is backed, or fails for another reason than its credential. *)
Sound(op, u, req) ==
  IF req.op # "early" THEN Backed(req)
  ELSE req # NoToken /\ (op = "reserve" \/ u.lbId # <<>>)

LEMMA TryBacked ==
  ASSUME RpcTyped, RequestsBacked, NotRefused, NEW c \in Clients, NEW op, NEW u, NEW req,
         Try(c, op, u, req), UNCHANGED sessions,
         Sound(op, u, req) \/ (c = "worker" /\ op = "deregister" /\ req.op = "early")
  PROVE  RequestsBacked' /\ NotRefused'
<1>1. SessionsKept
  BY DEF SessionsKept
<1>2. CASE req.op = "early"
  <2>1. UNCHANGED rpc
    BY <1>2 DEF Try
  <2>2. RequestsBacked'
    BY <1>1, <2>1, CredKept DEF RequestsBacked
  <2>3. \/ UNCHANGED refused
        \/ /\ refused' = refused \cup {[by |-> c, op |-> op, held |-> FALSE]}
           /\ c = "worker" /\ op = "deregister"
    BY <1>2 DEF Try, Sound
  <2>. QED
    BY <2>2, <2>3 DEF NotRefused
<1>3. CASE req.op # "early"
  <2>1. rpc' = [rpc EXCEPT ![c] = [phase |-> "sent", req |-> req]] /\ UNCHANGED refused
    BY <1>3 DEF Try
  <2>2. Backed(req)'
    BY <1>1, <1>3, CredKept DEF Sound
  <2>3. ASSUME NEW d \in Clients, rpc'[d].phase = "sent" PROVE Backed(rpc[d].req)'
    <3>1. CASE d = c
      BY <2>1, <2>2, <3>1 DEF RpcTyped, RpcShape
    <3>2. CASE d # c
      <4>1. rpc'[d] = rpc[d]
        BY <2>1, <3>2 DEF RpcTyped, RpcShape
      <4>2. Backed(rpc[d].req)
        BY <2>3, <4>1 DEF RequestsBacked
      <4>3. PICK q : q = rpc[d].req
        OBVIOUS
      <4>4. Backed(q)'
        BY <1>1, <4>2, <4>3, CredKept
      <4>. QED
        BY <4>1, <4>3, <4>4 DEF Backed
    <3>. QED
      BY <3>1, <3>2
  <2>. QED
    BY <2>1, <2>3 DEF RequestsBacked, NotRefused, Backed
<1>. QED
  BY <1>2, <1>3

LEMMA AnswerBacked ==
  ASSUME RpcTyped, RequestsBacked, SessionsKept,
         NEW c \in Clients, Hangup(c) \/ Fail(c) \/ (\E rep : Reply(c, rep))
  PROVE  RequestsBacked'
<1>1. ASSUME NEW d \in Clients, rpc'[d].phase = "sent" PROVE rpc'[d] = rpc[d]
  BY <1>1 DEF RpcTyped, RpcShape, Hangup, Fail, Reply, Idle
<1>2. ASSUME NEW d \in Clients, rpc'[d].phase = "sent" PROVE Backed(rpc[d].req)'
  <2>1. PICK q : q = rpc[d].req
    OBVIOUS
  <2>2. Backed(q) /\ rpc'[d].req = q
    BY <1>1, <1>2, <2>1 DEF RequestsBacked
  <2>3. Backed(q)'
    BY <2>2, CredKept
  <2>. QED
    BY <2>2, <2>3 DEF Backed
<1>. QED
  BY <1>2 DEF RequestsBacked, Backed

LEMMA CredFrame ==
  ASSUME SessionsKept, RequestsBacked, WorkerCred, SenderCred, NotRefused,
         UNCHANGED <<worker, sender, refused>>
  PROVE  WorkerCred' /\ SenderCred' /\ NotRefused' /\ (UNCHANGED rpc => RequestsBacked')
<1>1. WorkerCred'
  <2>1. PICK u : u = worker.uri
    OBVIOUS
  <2>2. Registered(u) => Registered(u)'
    BY CredKept
  <2>. QED
    BY <2>1, <2>2 DEF WorkerCred, Holds, Registered, Recorded
<1>2. ASSUME UNCHANGED rpc, NEW d \in Clients, rpc[d].phase = "sent" PROVE Backed(rpc[d].req)'
  <2>1. PICK q : q = rpc[d].req
    OBVIOUS
  <2>2. Backed(q)'
    BY <1>2, <2>1, CredKept DEF RequestsBacked
  <2>. QED
    BY <1>2, <2>1, <2>2 DEF Backed
<1>. QED
  BY <1>1, <1>2 DEF SenderCred, Holds, NotRefused, RequestsBacked, Backed

LEMMA ServerCred ==
  ASSUME TypeInv, CredInv, ServerNext
  PROVE  CredInv'
<1>. USE DEF TypeInv
<1>1. SessionsKept /\ UNCHANGED <<worker, sender>>
  BY ServerKeepsTools, ServerKeepsSessions DEF SessionsTyped
<1>2. ASSUME NEW c \in Clients, Serve(c) PROVE RequestsBacked'
  <2>1. Fail(c) \/ (\E rep : Reply(c, rep))
    BY <1>2 DEF Serve, ServeReserve, ServeFree, ServeRegister, ServeDeregister, ServeState,
       ServeSenders, ServeQuery, Refuse, Lose
  <2>. QED
    BY <1>1, <2>1, AnswerBacked DEF CredInv
<1>3. ASSUME NEW c \in Clients, Serve(c) PROVE UNCHANGED refused
  <2>1. CASE Refuse(c)
    <3>1. Covers(rpc[c].req)
      BY <2>1, BackedCovers DEF Refuse, CredInv, RequestsBacked
    <3>. QED
      BY <2>1, <3>1 DEF Refuse
  <2>. QED
    BY <1>3, <2>1 DEF Serve, ServeReserve, ServeFree, ServeRegister, ServeDeregister, ServeState,
       ServeSenders, ServeQuery, Lose
<1>4. ASSUME ~\E c \in Clients : Serve(c) PROVE UNCHANGED <<rpc, refused>>
  BY <1>4 DEF ServerNext, ReservationEnds, SessionExpires
<1>. QED
  BY <1>1, <1>2, <1>3, <1>4, CredFrame DEF CredInv

(* What lbadm is run with. *)
LEMMA InputsAre ==
  ASSUME NEW name \in Commands, NEW in \in Inputs(name)
  PROVE  \/ /\ name \in AdminCommands /\ in.text = AdminText
            /\ IF name \in {"free", "status"} THEN in.lbid \in LbIds ELSE in.lbid = <<>>
         \/ /\ in.text = env.text /\ in.lbid = <<>>
            /\ \/ /\ name \in {"free", "status"} \cup InstanceCommands
                  /\ env.kind \in {"instance", "registered"}
               \/ name \in SessionCommands /\ env.kind \in {"registered", "session"}
<1>. DEFINE S == {[text |-> AdminText, lbid |-> l] : l \in {<<>>}}
            T == {[text |-> AdminText, lbid |-> l] : l \in {k \in LbIds : lbs[k].state # "free"}}
            own == {[text |-> env.text, lbid |-> <<>>]}
            isSet == env.kind \in {"instance", "registered"}
<1>1. Inputs(name) = CASE name \in {"free", "status"} -> T \cup (IF isSet THEN own ELSE {})
                     [] name \in AdminCommands \ {"free", "status"} -> S
                     [] name \in InstanceCommands -> IF isSet THEN own ELSE {}
                     [] OTHER -> IF env.kind \in {"registered", "session"} THEN own ELSE {}
  BY Zenon DEF Inputs
<1>2. /\ \A x \in S : x.text = AdminText /\ x.lbid = <<>>
      /\ \A x \in T : x.text = AdminText /\ x.lbid \in LbIds
      /\ \A x \in own : x.text = env.text /\ x.lbid = <<>>
  OBVIOUS
<1>. HIDE DEF S, T, own
<1>3. CASE name \in {"free", "status"}
  BY <1>1, <1>2, <1>3 DEF AdminCommands
<1>4. CASE name \in AdminCommands \ {"free", "status"}
  BY <1>1, <1>2, <1>4
<1>5. CASE name \in InstanceCommands
  BY <1>1, <1>2, <1>5 DEF InstanceCommands, AdminCommands
<1>6. CASE name \in SessionCommands
  BY <1>1, <1>2, <1>6 DEF InstanceCommands, AdminCommands, SessionCommands
<1>. QED
  BY <1>3, <1>4, <1>5, <1>6 DEF Commands

(* Each command holds the token its request needs. *)
LEMMA AdminSound ==
  ASSUME NEW name \in AdminCommands, NEW u, u.tok["admin"] = AdminToken, NEW lbid, NEW ch,
         IF name \in {"free", "status"} THEN lbid \in LbIds ELSE TRUE
  PROVE  Sound(name, u, CommandRequest(name, u, lbid, ch))
<1>. DEFINE req == CommandRequest(name, u, lbid, ch)
<1>1. AdminToken # <<>> /\ <<>> \notin LbIds
  BY CPAssumption DEF AdminToken
<1>2. CASE name = "reserve"
  BY <1>1, <1>2 DEF CommandRequest, ReserveLB, ReserveUntil, Rpc, Early, NoToken, Sound, Backed
<1>3. CASE name = "free" \/ name = "status"
  BY <1>1, <1>3 DEF CommandRequest, FreeLB, GetLBStatus, OrOwn, Rpc, Early, NoToken, Sound, Backed
<1>4. CASE name \in {"overview", "version", "timeseries"}
  BY <1>1, <1>4 DEF CommandRequest, Overview, Version, Timeseries, Rpc, Early, NoToken, Sound, Backed
<1>5. CASE name \in {"createtoken", "listtokenpermissions", "listchildtokens", "revoketoken"}
  BY <1>1, <1>5 DEF CommandRequest, CreateToken, ListTokenPermissions, ListChildTokens, RevokeToken,
     Rpc, Early, NoToken, Sound, Backed
<1>. QED
  BY <1>2, <1>3, <1>4, <1>5 DEF AdminCommands

LEMMA OwnSound ==
  ASSUME NEW name \in {"free", "status"}, NEW u, u.lbId \in LbIds,
         u.tok["admin"] = InstToken(u.lbId), NEW ch
  PROVE  Sound(name, u, CommandRequest(name, u, <<>>, ch))
<1>1. u.lbId # <<>> /\ InstToken(u.lbId) # <<>>
  BY CPAssumption
<1>. QED
  BY <1>1 DEF CommandRequest, FreeOwnLB, FreeLB, GetLBStatus, OrOwn, Rpc, Early, NoToken, Sound, Backed

LEMMA SendersSound ==
  ASSUME NEW u, Holds(u), NEW op, NEW v6, NEW senders
  PROVE  /\ Sound(op, u, AddSenders(u, senders)) /\ Sound(op, u, RemoveSenders(u, senders))
         /\ Sound(op, u, AddSenderSelf(u, v6)) /\ Sound(op, u, RemoveSenderSelf(u, v6))
<1>1. u.lbId \in LbIds /\ u.tok["instance"] = InstToken(u.lbId)
      /\ u.lbId # <<>> /\ InstToken(u.lbId) # <<>>
  BY CPAssumption DEF Holds
<1>2. \A s : Sound(op, u, AddSenders(u, s)) /\ Sound(op, u, RemoveSenders(u, s))
  BY <1>1 DEF AddSenders, RemoveSenders, Rpc, Early, NoToken, Sound, Backed
<1>3. Sound(op, u, Early)
  BY <1>1 DEF Early, NoToken, Sound
<1>. QED
  BY <1>2, <1>3 DEF AddSenderSelf, RemoveSenderSelf

LEMMA RegisterSound ==
  ASSUME NEW u, Holds(u), NEW op, NEW w, NEW v6
  PROVE  Sound(op, u, RegisterWorker(u, w)) /\ Sound(op, u, RegisterWorkerSelf(u, w, v6))
<1>1. u.lbId \in LbIds /\ u.tok["instance"] = InstToken(u.lbId)
      /\ u.lbId # <<>> /\ InstToken(u.lbId) # <<>>
  BY CPAssumption DEF Holds
<1>2. \A x : Sound(op, u, RegisterWorker(u, x))
  BY <1>1 DEF RegisterWorker, Rpc, Early, NoToken, Sound, Backed
<1>3. Sound(op, u, Early)
  BY <1>1 DEF Early, NoToken, Sound
<1>. QED
  BY <1>2, <1>3 DEF RegisterWorkerSelf

(* A URI with a session and a token for it. *)
HoldsSession(u) ==
  /\ u.lbId \in LbIds /\ u.sid \in Sids
  /\ sessions[u.sid].state # "none" /\ sessions[u.sid].lb = u.lbId
  /\ u.tok["session"] \in {InstToken(u.lbId), SessToken(u.sid)}

LEMMA SessionSound ==
  ASSUME NEW u, HoldsSession(u), NEW op
  PROVE  /\ Sound(op, u, DeregisterWorker(u)) /\ Sound(op, u, SendState(u, 10))
         /\ SendState(u, 10).op # "early"
<1>1. u.lbId # <<>> /\ u.tok["session"] # <<>>
  BY CPAssumption DEF HoldsSession
<1>2. 10 \in 0 .. 100
  OBVIOUS
<1>. QED
  BY <1>1, <1>2 DEF HoldsSession, DeregisterWorker, SendState, Rpc, Early, NoToken, Sound, Backed

LEMMA CommandSound ==
  ASSUME ExportInv, NEW name \in Commands, NEW in \in Inputs(name), NEW ch
  PROVE  LET u == CommandURI(name, in)
         IN /\ FromText(in.text, CommandTokenType(name), FALSE).ok
            /\ Sound(name, u, CommandRequest(name, u, in.lbid, ch))
<1>1. PICK tt : tt = CommandTokenType(name)
  OBVIOUS
<1>2. PICK u0 : u0 = FromText(in.text, tt, FALSE)
  OBVIOUS
<1>3. PICK u : u = CommandURI(name, in)
  OBVIOUS
<1>4. u = IF in.lbid = <<>> THEN u0 ELSE [u0 EXCEPT !.lbId = in.lbid]
  BY <1>1, <1>2, <1>3, Zenon DEF CommandURI
<1>5. CASE /\ name \in AdminCommands /\ in.text = AdminText
           /\ IF name \in {"free", "status"} THEN in.lbid \in LbIds ELSE in.lbid = <<>>
  <2>1. u0 = FromText(AdminText, "admin", FALSE)
    BY <1>1, <1>2, <1>5 DEF CommandTokenType
  <2>2. u0.ok /\ u0.tok = Only("admin", AdminToken) /\ Whole(u0)
    BY <2>1, AdminBlank DEF Blank
  <2>3. u.tok["admin"] = AdminToken
    BY <1>4, <2>2 DEF Only, TokenType, Whole
  <2>4. Sound(name, u, CommandRequest(name, u, in.lbid, ch))
    BY <1>5, <2>3, AdminSound
  <2>. QED
    BY <1>1, <1>2, <1>3, <2>2, <2>4, Zenon
<1>6. CASE /\ in.text = env.text /\ in.lbid = <<>>
           /\ \/ /\ name \in {"free", "status"} \cup InstanceCommands
                 /\ env.kind \in {"instance", "registered"}
              \/ name \in SessionCommands /\ env.kind \in {"registered", "session"}
  <2>1. u = u0 /\ tt \in TokenType
    BY <1>1, <1>4, <1>6 DEF CommandTokenType, TokenType
  <2>2. /\ Bears(u)
        /\ IF env.kind = "instance" THEN u.sid = <<>> ELSE Session(u.sid, u.lbId)
        /\ u.tok = Only(tt, IF env.kind = "session" THEN SessToken(u.sid) ELSE InstToken(u.lbId))
    BY <1>2, <1>6, <2>1 DEF ExportInv, EnvInv
  <2>3. u.lbId \in LbIds /\ u0.ok
    BY <2>1, <2>2 DEF Bears, Printable
  <2>4. ASSUME name \in {"free", "status"}
      PROVE  Sound(name, u, CommandRequest(name, u, in.lbid, ch))
    <3>1. u.tok["admin"] = InstToken(u.lbId)
      BY <1>1, <1>6, <2>2, <2>4 DEF CommandTokenType, Only, TokenType, AdminCommands, SessionCommands
    <3>. QED
      BY <1>6, <2>3, <2>4, <3>1, OwnSound
  <2>5. ASSUME name \in InstanceCommands
      PROVE  Sound(name, u, CommandRequest(name, u, in.lbid, ch))
    <3>1. tt = "instance" /\ env.kind # "session"
      BY <1>1, <1>6, <2>5 DEF CommandTokenType, InstanceCommands, AdminCommands, SessionCommands
    <3>2. Holds(u)
      BY <2>2, <2>3, <3>1 DEF Only, TokenType, Holds
    <3>3. CASE name = "register"
      BY <3>2, <3>3, RegisterSound DEF CommandRequest
    <3>4. CASE name = "addsenders" \/ name = "removesenders"
      BY <3>2, <3>4, SendersSound DEF CommandRequest
    <3>. QED
      BY <2>5, <3>3, <3>4 DEF InstanceCommands
  <2>6. ASSUME name \in SessionCommands
      PROVE  Sound(name, u, CommandRequest(name, u, in.lbid, ch))
    <3>1. tt = "session" /\ env.kind # "instance"
      BY <1>1, <1>6, <2>6 DEF CommandTokenType, InstanceCommands, AdminCommands, SessionCommands
    <3>2. HoldsSession(u)
      BY <2>2, <2>3, <3>1 DEF Only, TokenType, HoldsSession, Session
    <3>. QED
      BY <2>6, <3>2, SessionSound DEF CommandRequest, SessionCommands
  <2>7. Sound(name, u, CommandRequest(name, u, in.lbid, ch))
    BY <1>6, <2>4, <2>5, <2>6
  <2>. QED
    BY <1>1, <1>2, <1>3, <2>3, <2>7, Zenon
<1>. QED
  BY <1>5, <1>6, InputsAre

LEMMA LbadmCred ==
  ASSUME TypeInv, ExportInv, CredInv, LbadmNext
  PROVE  CredInv'
<1>. USE DEF TypeInv
<1>1. UNCHANGED <<sessions, worker, sender>>
  BY DEF LbadmNext, RunCommand, CommandFails, CommandSucceeds, ReserveSucceeds, RegisterSucceeds, server
<1>2. SessionsKept
  BY <1>1 DEF SessionsKept
<1>3. WorkerCred' /\ SenderCred'
  <2>1. PICK u : u = worker.uri
    OBVIOUS
  <2>2. Registered(u) => Registered(u)'
    BY <1>2, CredKept
  <2>. QED
    BY <1>1, <2>1, <2>2 DEF CredInv, WorkerCred, SenderCred, Holds, Registered, Recorded
<1>4. ASSUME NEW name \in Commands, RunCommand(name) PROVE RequestsBacked' /\ NotRefused'
  <2>1. PICK in \in Inputs(name), ch \in Choices :
           LET u0  == FromText(in.text, CommandTokenType(name), FALSE)
               u   == CommandURI(name, in)
               req == CommandRequest(name, u, in.lbid, ch)
           IN ~u0.ok \/ Try("lbadm", name, u, req)
    BY <1>4, CommandRuns, Zenon
  <2>2. PICK u : u = CommandURI(name, in)
    OBVIOUS
  <2>3. PICK req : req = CommandRequest(name, u, in.lbid, ch)
    OBVIOUS
  <2>4. FromText(in.text, CommandTokenType(name), FALSE).ok /\ Sound(name, u, req)
    BY <2>2, <2>3, CommandSound DEF CredInv
  <2>5. Try("lbadm", name, u, req)
    BY <2>1, <2>2, <2>3, <2>4, Zenon
  <2>. QED
    BY <1>1, <2>4, <2>5, TryBacked DEF CredInv, Clients
<1>5. ASSUME CommandFails \/ CommandSucceeds \/ ReserveSucceeds \/ RegisterSucceeds
      PROVE  RequestsBacked' /\ NotRefused'
  <2>1. Hangup("lbadm") /\ UNCHANGED refused
    BY <1>5 DEF CommandFails, CommandSucceeds, ReserveSucceeds, RegisterSucceeds
  <2>. QED
    BY <1>2, <2>1, AnswerBacked DEF CredInv, NotRefused, Clients
<1>. QED
  BY <1>3, <1>4, <1>5 DEF LbadmNext, CredInv

(* A receiver and a sender are started with what EJFAT_URI says. *)
LEMMA LaunchCred ==
  ASSUME ExportInv, env.kind \in {"instance", "registered"}
  PROVE  LET u == FromText(env.text, "instance", FALSE)
         IN u.ok /\ Holds(u) /\ u.tok["session"] = <<>>
<1>1. PICK u : u = FromText(env.text, "instance", FALSE)
  OBVIOUS
<1>2. Bears(u) /\ u.tok = Only("instance", InstToken(u.lbId))
  BY <1>1 DEF ExportInv, EnvInv, TokenType
<1>3. u.ok /\ Holds(u) /\ u.tok["session"] = <<>>
  BY <1>2 DEF Bears, Printable, Holds, Only, TokenType
<1>. QED
  BY <1>1, <1>3, Zenon

(* A receiver that keeps its URI keeps its credentials. *)
LEMMA WorkerKeepsCred ==
  ASSUME CredInv, UNCHANGED <<sessions, sender>>, worker'.uri = worker.uri, worker.pc \in Launched
  PROVE  WorkerCred' /\ SenderCred'
<1>. QED
  BY DEF CredInv, WorkerCred, SenderCred, Holds, Registered, Recorded

LEMMA LaunchWorkerCred ==
  ASSUME CredInv, ExportInv, NEW run \in WorkerRuns, LaunchWorker(run)
  PROVE  CredInv'
<1>1. PICK u : u = FromText(env.text, "instance", FALSE)
  OBVIOUS
<1>2. u.ok /\ Holds(u) /\ u.tok["session"] = <<>>
  BY <1>1, LaunchCred, Zenon DEF LaunchWorker
<1>3. \/ /\ \E code : worker' = Dead("exited", code)
         /\ UNCHANGED refused
      \/ /\ \E r : worker' = [WorkerOff EXCEPT !.pc = "register", !.uri = u, !.run = run, !.reas = r]
         /\ UNCHANGED refused
  BY <1>1, <1>2, Zenon DEF LaunchWorker
<1>4. UNCHANGED <<sessions, sender, rpc, refused>>
  BY <1>3 DEF LaunchWorker, server
<1>5. worker'.pc = "exited" \/ worker'.uri = u
  BY <1>3 DEF Dead, WorkerOff
<1>6. WorkerCred'
  BY <1>2, <1>5 DEF WorkerCred, Launched, Started, Holds
<1>. QED
  BY <1>4, <1>6 DEF CredInv, RequestsBacked, Backed, SenderCred, Holds, NotRefused

LEMMA WorkerAsksSound ==
  ASSUME TypeInv, RegisterInv, CredInv, CallRegister \/ CallDeregister
  PROVE  CredInv'
<1>. USE DEF TypeInv
<1>1. /\ UNCHANGED <<sessions, sender>> /\ worker'.uri = worker.uri /\ worker.pc \in Launched
      /\ Holds(worker.uri)
      /\ worker.uri.tok["session"] = <<>> \/ Registered(worker.uri)
  BY DEF CallRegister, CallDeregister, Goto, server, ToolsTyped, WorkerShape, Launched, Started, CredInv,
     WorkerCred
<1>2. WorkerCred' /\ SenderCred'
  BY <1>1, WorkerKeepsCred
<1>3. PICK u : u = worker.uri
  OBVIOUS
<1>4. CASE CallRegister
  <2>1. PICK req : req = RegisterSelf(worker.reas, u, <<"host">>)
    OBVIOUS
  <2>2. Sound("register", u, req)
    BY <1>1, <1>3, <2>1, RegisterSound DEF RegisterSelf
  <2>3. Try("worker", "register", u, req) \/ UNCHANGED <<rpc, refused>>
    BY <1>3, <1>4, <2>1, Zenon DEF CallRegister
  <2>4. CASE Try("worker", "register", u, req)
    BY <1>1, <1>2, <2>2, <2>4, TryBacked DEF CredInv, Clients
  <2>. QED
    BY <1>1, <1>2, <2>3, <2>4 DEF CredInv, RequestsBacked, Backed, NotRefused
<1>5. CASE CallDeregister
  <2>1. PICK req : req = DeregisterWorker(u)
    OBVIOUS
  <2>2. Sound("deregister", u, req) \/ req.op = "early"
    <3>1. CASE u.tok["session"] = <<>>
      BY <2>1, <3>1 DEF DeregisterWorker, Rpc, NoToken
    <3>2. CASE Registered(u)
      <4>1. HoldsSession(u)
        BY <1>1, <1>3, <3>2 DEF HoldsSession, Holds, Registered, Recorded
      <4>. QED
        BY <2>1, <4>1, SessionSound
    <3>. QED
      BY <1>1, <1>3, <3>1, <3>2
  <2>3. Try("worker", "deregister", u, req) \/ UNCHANGED <<rpc, refused>>
    BY <1>3, <1>5, <2>1, Zenon DEF CallDeregister
  <2>4. CASE Try("worker", "deregister", u, req)
    BY <1>1, <1>2, <2>2, <2>4, TryBacked DEF CredInv, Clients
  <2>. QED
    BY <1>1, <1>2, <2>3, <2>4 DEF CredInv, RequestsBacked, Backed, NotRefused
<1>. QED
  BY <1>4, <1>5

LEMMA RegisterReturnsCred ==
  ASSUME TypeInv, RegisterInv, CredInv, RegisterReturns
  PROVE  CredInv'
<1>. USE DEF TypeInv
<1>1. /\ UNCHANGED <<sessions, sender, refused>> /\ worker.pc \in Launched /\ worker.pc = "registering"
      /\ Hangup("worker") /\ SessionsKept /\ Holds(worker.uri) /\ IsURI(worker.uri) /\ RegisterCall
      /\ rpc["worker"].phase = "done"
  BY DEF RegisterReturns, Returned, server, Launched, Started, CredInv, WorkerCred, SessionsKept, RegisterInv
<1>2. RequestsBacked'
  BY <1>1, AnswerBacked DEF CredInv, Clients
<1>3. WorkerCred' /\ SenderCred'
  <2>1. CASE ~rpc["worker"].ok
    <3>1. worker'.uri = worker.uri
      BY <2>1 DEF RegisterReturns, ToolsTyped, WorkerShape
    <3>. QED
      BY <1>1, <3>1, WorkerKeepsCred
  <2>2. CASE rpc["worker"].ok
    <3>1. PICK s \in Sids : /\ rpc["worker"].rep = [token |-> SessToken(s), sid |-> s]
                           /\ Recorded(s, worker.uri)
      BY <1>1, <2>2 DEF RegisterCall
    <3>2. worker'.uri = FillSession(worker.uri, rpc["worker"].rep)
      BY <2>2 DEF RegisterReturns, ToolsTyped, WorkerShape
    <3>3. PICK u : u = worker.uri
      OBVIOUS
    <3>4. PICK v : v = FillSession(u, [token |-> SessToken(s), sid |-> s])
      OBVIOUS
    <3>5. v.sid = s /\ v.tok["session"] = SessToken(s) /\ v.lbId = u.lbId
      BY <1>1, <3>3, <3>4, FillSessionFills
    <3>6. v.tok["instance"] = u.tok["instance"]
      BY <1>1, <3>3, <3>4 DEF FillSession, SetToken, IsURI
    <3>7. Holds(v) /\ Registered(v)
      BY <1>1, <3>1, <3>3, <3>5, <3>6 DEF Holds, Registered, Recorded
    <3>8. worker'.uri = v
      BY <3>1, <3>2, <3>3, <3>4
    <3>. QED
      BY <1>1, <3>7, <3>8 DEF WorkerCred, SenderCred, CredInv, Holds, Registered, Recorded
  <2>. QED
    BY <2>1, <2>2
<1>. QED
  BY <1>1, <1>2, <1>3 DEF CredInv, NotRefused

LEMMA WorkerCredKept ==
  ASSUME TypeInv, RegisterInv, ExportInv, CredInv, WorkerNext
  PROVE  CredInv'
<1>. USE DEF TypeInv
<1>1. CASE \E run \in WorkerRuns : LaunchWorker(run)
  BY <1>1, LaunchWorkerCred
<1>2. CASE CallRegister \/ CallDeregister
  BY <1>2, WorkerAsksSound
<1>3. CASE RegisterReturns
  BY <1>3, RegisterReturnsCred
<1>4. CASE DeregisterReturns
  <2>1. /\ UNCHANGED <<sessions, sender, refused>> /\ worker'.uri = worker.uri
        /\ worker.pc \in Launched /\ Hangup("worker") /\ SessionsKept
    BY <1>4 DEF DeregisterReturns, Goto, server, ToolsTyped, WorkerShape, Launched, Started, SessionsKept
  <2>2. RequestsBacked'
    BY <2>1, AnswerBacked DEF CredInv, Clients
  <2>. QED
    BY <2>1, <2>2, WorkerKeepsCred DEF CredInv, NotRefused
<1>5. CASE \/ HostNameFails \/ OpenAndStart \/ OpenFails \/ ReadersEnd \/ StopThreads
           \/ InterruptWorker
  <2>1. /\ UNCHANGED <<sessions, sender, refused, rpc>> /\ worker'.uri = worker.uri
        /\ worker.pc \in Launched
    BY <1>5 DEF HostNameFails, OpenAndStart, OpenFails, ReadersEnd, StopThreads, InterruptWorker, Goto,
       server, ToolsTyped, WorkerShape, Launched, Started
  <2>. QED
    BY <2>1, WorkerKeepsCred DEF CredInv, NotRefused, RequestsBacked, Backed
<1>6. CASE WorkerJoins \/ KillWorker
  <2>1. UNCHANGED <<sessions, sender, refused, rpc>> /\ worker'.pc \notin Launched
    BY <1>6 DEF WorkerJoins, KillWorker, Dead, WorkerOff, server, Launched, Started
  <2>. QED
    BY <2>1 DEF CredInv, NotRefused, RequestsBacked, Backed, WorkerCred, SenderCred, Holds
<1>. QED
  BY <1>1, <1>2, <1>3, <1>4, <1>5, <1>6 DEF WorkerNext, WorkerSteps

LEMMA StateThreadCred ==
  ASSUME TypeInv, RegisterInv, CredInv, StateThreadNext
  PROVE  CredInv'
<1>. USE DEF TypeInv
<1>1. UNCHANGED <<sessions, worker, sender>> /\ SessionsKept
  BY DEF StateThreadNext, CallSendState, SendStateReturns, StateThreadEnds, server, SessionsKept
<1>2. CASE CallSendState
  <2>1. PICK u : u = worker.uri
    OBVIOUS
  <2>2. PICK req : req = SendState(u, 10)
    OBVIOUS
  <2>3. Holds(u) /\ Registered(u)
    BY <1>2, <2>1 DEF CallSendState, RegisterInv, CredInv, WorkerCred, Launched
  <2>4. HoldsSession(u)
    BY <2>3 DEF HoldsSession, Holds, Registered, Recorded
  <2>5. Sound("state", u, req)
    BY <2>2, <2>4, SessionSound
  <2>6. Try("state", "state", u, req)
    BY <1>2, <2>1, <2>2, Zenon DEF CallSendState
  <2>7. RequestsBacked' /\ NotRefused'
    BY <1>1, <2>5, <2>6, TryBacked DEF CredInv, Clients
  <2>. QED
    BY <1>1, <2>7 DEF CredInv, WorkerCred, SenderCred, Holds, Registered, Recorded
<1>3. CASE SendStateReturns
  <2>1. Hangup("state") /\ UNCHANGED refused
    BY <1>3 DEF SendStateReturns
  <2>2. RequestsBacked'
    BY <1>1, <2>1, AnswerBacked DEF CredInv, Clients
  <2>. QED
    BY <1>1, <2>1, <2>2, CredFrame DEF CredInv
<1>4. CASE StateThreadEnds
  <2>1. UNCHANGED <<rpc, refused>>
    BY <1>4 DEF StateThreadEnds
  <2>. QED
    BY <1>1, <2>1, CredFrame DEF CredInv
<1>. QED
  BY <1>2, <1>3, <1>4 DEF StateThreadNext

LEMMA SenderKeepsCred ==
  ASSUME CredInv, UNCHANGED <<sessions, worker>>,
         sender'.pc \in {"off", "exited"} \/
           (sender.pc \notin {"off", "exited"} /\ sender'.uri = sender.uri)
  PROVE  WorkerCred' /\ SenderCred'
  BY DEF CredInv, WorkerCred, SenderCred, Holds, Registered, Recorded

LEMMA LaunchSenderCred ==
  ASSUME CredInv, ExportInv, NEW run \in SenderRuns, LaunchSender(run)
  PROVE  CredInv'
<1>1. PICK u : u = FromText(env.text, "instance", FALSE)
  OBVIOUS
<1>2. u.ok /\ Holds(u)
  BY <1>1, LaunchCred, Zenon DEF LaunchSender
<1>3. /\ UNCHANGED refused
      /\ \/ \E code : sender' = SDead(code)
         \/ \E pc, f : sender' = [SenderOff EXCEPT !.pc = pc, !.uri = u, !.run = run, !.flags = f]
  BY <1>1, <1>2, Zenon DEF LaunchSender
<1>4. UNCHANGED <<sessions, worker, rpc>>
  BY DEF LaunchSender, server
<1>5. sender'.pc = "exited" \/ sender'.uri = u
  BY <1>3 DEF SDead, SenderOff
<1>6. SenderCred'
  BY <1>2, <1>5 DEF SenderCred, Holds
<1>. QED
  BY <1>3, <1>4, <1>6 DEF CredInv, RequestsBacked, Backed, WorkerCred, Holds, Registered, Recorded,
     NotRefused

LEMMA SenderAsksSound ==
  ASSUME TypeInv, CredInv, CallAddSenders \/ CallRemoveSenders
  PROVE  CredInv'
<1>. USE DEF TypeInv
<1>1. PICK u : u = sender.uri
  OBVIOUS
<1>2. /\ UNCHANGED <<sessions, worker>> /\ sender.pc \notin {"off", "exited"}
      /\ sender'.pc = "exited" \/ sender'.uri = sender.uri
  BY DEF CallAddSenders, CallRemoveSenders, SGoto, SDead, SenderOff, server, ToolsTyped, SenderShape
<1>3. Holds(u)
  BY <1>1, <1>2 DEF CredInv, SenderCred
<1>4. WorkerCred' /\ SenderCred'
  BY <1>2, SenderKeepsCred
<1>5. \/ UNCHANGED <<rpc, refused>>
      \/ \E op, req : Try("sender", op, u, req) /\ Sound(op, u, req)
  <2>1. CASE CallAddSenders
    <3>1. \/ Try("sender", "addsenders", u, AddSenderSelf(u, FALSE))
          \/ Try("sender", "addsenders", u, AddSenders(u, {sender.run.ip}))
      BY <1>1, <2>1 DEF CallAddSenders
    <3>2. CASE Try("sender", "addsenders", u, AddSenderSelf(u, FALSE))
      BY <1>3, <3>2, SendersSound, Zenon
    <3>3. CASE Try("sender", "addsenders", u, AddSenders(u, {sender.run.ip}))
      BY <1>3, <3>3, SendersSound, Zenon
    <3>. QED
      BY <3>1, <3>2, <3>3
  <2>2. CASE CallRemoveSenders
    <3>1. \/ UNCHANGED <<rpc, refused>>
          \/ Try("sender", "removesenders", u, RemoveSenderSelf(u, FALSE))
          \/ Try("sender", "removesenders", u, RemoveSenders(u, {sender.run.ip}))
      BY <1>1, <2>2 DEF CallRemoveSenders
    <3>2. CASE Try("sender", "removesenders", u, RemoveSenderSelf(u, FALSE))
      BY <1>3, <3>2, SendersSound, Zenon
    <3>3. CASE Try("sender", "removesenders", u, RemoveSenders(u, {sender.run.ip}))
      BY <1>3, <3>3, SendersSound, Zenon
    <3>. QED
      BY <3>1, <3>2, <3>3
  <2>. QED
    BY <2>1, <2>2
<1>6. CASE UNCHANGED <<rpc, refused>>
  BY <1>2, <1>4, <1>6 DEF CredInv, RequestsBacked, Backed, NotRefused
<1>7. CASE \E op, req : Try("sender", op, u, req) /\ Sound(op, u, req)
  BY <1>2, <1>4, <1>7, TryBacked DEF CredInv, Clients
<1>. QED
  BY <1>5, <1>6, <1>7

LEMMA SenderCredKept ==
  ASSUME TypeInv, ExportInv, CredInv, SenderNext
  PROVE  CredInv'
<1>. USE DEF TypeInv
<1>1. CASE \E run \in SenderRuns : LaunchSender(run)
  BY <1>1, LaunchSenderCred
<1>2. CASE CallAddSenders \/ CallRemoveSenders
  BY <1>2, SenderAsksSound
<1>3. CASE AddSendersReturns \/ RemoveSendersReturns
  <2>1. /\ UNCHANGED <<sessions, worker, refused>> /\ Hangup("sender") /\ SessionsKept
        /\ sender.pc \notin {"off", "exited"}
        /\ sender'.pc = "exited" \/ sender'.uri = sender.uri
    BY <1>3 DEF AddSendersReturns, RemoveSendersReturns, SGoto, SDead, SenderOff, server, ToolsTyped,
       SenderShape, SessionsKept
  <2>2. RequestsBacked'
    BY <2>1, AnswerBacked DEF CredInv, Clients
  <2>. QED
    BY <2>1, <2>2, SenderKeepsCred DEF CredInv, NotRefused
<1>4. CASE \/ BuildSegmenter \/ OpenSegmenter \/ OpenSegmenterFails \/ SendingEnds \/ StopSegmenter
           \/ SenderExits \/ InterruptSender \/ AllSent
  <2>1. /\ UNCHANGED <<sessions, worker, refused, rpc>>
        /\ sender.pc \notin {"off", "exited"}
        /\ sender'.pc = "exited" \/ sender'.uri = sender.uri
    BY <1>4 DEF BuildSegmenter, OpenSegmenter, OpenSegmenterFails, SendingEnds, StopSegmenter,
       SenderExits, InterruptSender, AllSent, SGoto, SDead, SenderOff, server, ToolsTyped, SenderShape
  <2>. QED
    BY <2>1, SenderKeepsCred DEF CredInv, NotRefused, RequestsBacked, Backed
<1>. QED
  BY <1>1, <1>2, <1>3, <1>4 DEF SenderNext, SenderSteps

LEMMA CredInductive == TypeInv /\ RegisterInv /\ ExportInv /\ CredInv /\ [Next]_vars => CredInv'
<1>. SUFFICES ASSUME TypeInv, RegisterInv, ExportInv, CredInv, [Next]_vars PROVE CredInv'
  OBVIOUS
<1>1. CASE ServerNext
  BY <1>1, ServerCred
<1>2. CASE LbadmNext
  BY <1>2, LbadmCred
<1>3. CASE WorkerNext
  BY <1>3, WorkerCredKept
<1>4. CASE StateThreadNext
  BY <1>4, StateThreadCred
<1>5. CASE SenderNext
  BY <1>5, SenderCredKept
<1>6. CASE UNCHANGED vars
  BY <1>6, CredFrame DEF vars, CredInv, SessionsKept
<1>. QED
  BY <1>1, <1>2, <1>3, <1>4, <1>5, <1>6 DEF Next

LEMMA InitCred == Init => CredInv
  BY DEF Init, CredInv, RequestsBacked, WorkerCred, SenderCred, NotRefused, Idle, WorkerOff, SenderOff,
     Launched, Started

(* Where every reply has an address for the sync messages, no tool is       *)
(* turned down for want of the credential its call needs: the token type    *)
(* lbadm chooses, what to_string prints and the parse keeps, and what the   *)
(* replies put in the URI always agree with what is asked for.              *)
(* The exception is the deregistration of a worker whose registration       *)
(* failed (shutDown of e2sar_perf and e2sar_ft).                            *)
THEOREM NotRefusedCorrect ==
  ASSUME RepliesHaveSync
  PROVE  Spec => []NotRefused
<1>1. Init => TypeInv /\ RegisterInv /\ ExportInv /\ CredInv
  BY InitTyped, InitExports, InitCred, InitRegister
<1>2. TypeInv /\ RegisterInv /\ ExportInv /\ CredInv /\ [Next]_vars
        => (TypeInv /\ RegisterInv /\ ExportInv /\ CredInv)'
  BY TypeInductive, RegisterInductive, ExportInductive, CredInductive
<1>3. CredInv => NotRefused
  BY DEF CredInv
<1>. QED
  BY <1>1, <1>2, <1>3, PTL DEF Spec
=============================================================================
