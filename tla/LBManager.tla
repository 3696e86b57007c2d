------------------------------ MODULE LBManager ------------------------------
(***************************************************************************)
(* LBManager (e2sarCP.cpp, e2sarCP.hpp), the control-plane client.  A      *)
(* method is an operator that gives the request it puts on the wire, or    *)
(* Early when it returns an error before the RPC; what a reply does to the *)
(* manager's URI is an operator of its own.  The RPC itself, which may be  *)
(* lost in either direction, belongs to the module that uses these.        *)
(***************************************************************************)
EXTENDS EjfatURI

DUAL_STACK == 0         \* IpFamily, the default of every reserveLB overload

\* A method's early returns: for its arguments, and for want of a token.
Early == [op |-> "early", held |-> TRUE]
NoToken == [op |-> "early", held |-> FALSE]

\* A method checks its token, then its arguments, then sends.
Rpc(op, u, tt, valid, lb, arg) ==
    IF u.tok[tt] = <<>> THEN NoToken
    ELSE IF ~valid THEN Early
    ELSE [op |-> op, token |-> u.tok[tt], lb |-> lb, sid |-> u.sid, arg |-> arg]

-----------------------------------------------------------------------------
(* Reservations *)

\* reserveLB(name, until, senders, ip_family)
ReserveUntil(u, name, until, senders, family) ==
    Rpc("Reserve", u, "admin", senders \subseteq Addr, <<>>,
        [name |-> name, until |-> until, family |-> family, senders |-> senders])

\* The name is stored before the arguments are checked and the RPC is made.
Named(u, name) == IF u.tok["admin"] = <<>> THEN u ELSE [u EXCEPT !.lbName = name]

\* reserveLB(name, duration, senders, ip_family): a zero duration is an
\* indefinite reservation; the address family is not passed on.
ReserveLB(u, name, duration, senders, family) ==
    ReserveUntil(u, name, duration, senders, DUAL_STACK)

\* freeLB(lbid), freeLB()
FreeLB(u, lbid) == Rpc("Free", u, "admin", lbid # <<>>, lbid, {})
FreeOwnLB(u) == IF u.lbId = <<>> THEN Early ELSE FreeLB(u, u.lbId)

\* getLBStatus(lbid): the URI's id when none is given.
OrOwn(u, lbid) == IF lbid # <<>> THEN lbid ELSE u.lbId
GetLBStatus(u, lbid) ==
    Rpc("Status", u, "admin", OrOwn(u, lbid) # <<>>, OrOwn(u, lbid), {})

Overview(u) == Rpc("Overview", u, "admin", TRUE, <<>>, {})
Version(u) == Rpc("Version", u, "admin", TRUE, <<>>, {})
Timeseries(u, path) == Rpc("Timeseries", u, "admin", path # <<>>, <<>>, {path})

\* One address of a reply: the URI it leaves, set being the URI that holds it.
\* One that does not parse returns an error and leaves the rest unread.
Place(w, a, set) ==
    IF ~w.ok \/ a = NoAddr THEN w
    ELSE IF a \in Addr THEN [ok |-> TRUE, uri |-> set]
    ELSE [ok |-> FALSE, uri |-> w.uri]

\* What the reply of reserveLB puts into the URI.
FillReservation(u, rep) ==
    LET u1 == IF rep.token = <<>> THEN u ELSE SetToken(u, "instance", rep.token)
        u2 == IF rep.lb = <<>> THEN u1 ELSE [u1 EXCEPT !.lbId = rep.lb]
        s0 == [ok |-> TRUE, uri |-> u2]
        s1 == Place(s0, rep.sync, SetSyncAddr(u2, rep.sync, rep.syncPort % 65536))
        s2 == Place(s1, rep.v4, SetDataAddr(s1.uri, rep.v4))
    IN Place(s2, rep.v6, SetDataAddr(s2.uri, rep.v6))

-----------------------------------------------------------------------------
(* Workers *)

\* Defect: the power of two must exceed the count.
GetPortRange_exceeds(count) ==
    IF count < 1 THEN 0 ELSE IF count >= 16384 THEN 14
    ELSE CHOOSE r \in 1 .. 14 : 2^r > count /\ 2^(r - 1) <= count

\* get_PortRange: the exponent of the least power of two that is enough.
GetPortRange(count) ==
    IF count < 2 THEN 0 ELSE IF count > 16384 THEN 14
    ELSE CHOOSE r \in 1 .. 14 : 2^r >= count /\ 2^(r - 1) < count

\* registerWorker: w is the record [name, addr, port, weight, minFactor,
\* maxFactor, sources, keepHeader] of its arguments.
RegisterWorker(u, w) ==
    Rpc("Register", u, "instance",
        u.lbId # <<>> /\ w.name # <<>> /\ w.port > 1024, u.lbId,
        [w EXCEPT !.sources = GetPortRange(w.sources)])

\* registerWorkerSelf: the first local address; keepHeader is not passed on.
RegisterWorkerSelf(u, w, v6) ==
    LET ips == DataplaneLocalAddresses(u, v6)
    IN IF ips = <<>> THEN Early
       ELSE RegisterWorker(u, [w EXCEPT !.addr = ips[1], !.keepHeader = FALSE])

\* Defect: the session's id is not kept.
FillSession_tokenOnly(u, rep) ==
    IF rep.token = <<>> THEN u ELSE SetToken(u, "session", rep.token)

FillSession(u, rep) ==
    LET u1 == IF rep.token = <<>> THEN u ELSE SetToken(u, "session", rep.token)
    IN IF rep.sid = <<>> THEN u1 ELSE [u1 EXCEPT !.sid = rep.sid]

\* deregisterWorker: the session stays in the URI.
DeregisterWorker(u) == Rpc("Deregister", u, "session", u.lbId # <<>>, u.lbId, {})

\* sendState and its overloads, fill in percent.
SendState(u, fill) ==
    Rpc("SendState", u, "session", u.lbId # <<>> /\ fill \in 0 .. 100, u.lbId, {fill})

-----------------------------------------------------------------------------
(* Senders and delegated tokens *)

\* Defect: the senders are not parsed.
AddSenders_unparsed(u, senders) ==
    Rpc("AddSenders", u, "instance", u.lbId # <<>>, u.lbId, senders)

AddSenders(u, senders) ==
    Rpc("AddSenders", u, "instance", u.lbId # <<>> /\ senders \subseteq Addr,
        u.lbId, senders)
RemoveSenders(u, senders) ==
    Rpc("RemoveSenders", u, "instance", u.lbId # <<>> /\ senders \subseteq Addr,
        u.lbId, senders)

Self(u, v6) == LET ips == DataplaneLocalAddresses(u, v6)
               IN {ips[i] : i \in DOMAIN ips}
AddSenderSelf(u, v6) ==
    IF Self(u, v6) = {} THEN Early ELSE AddSenders(u, Self(u, v6))
RemoveSenderSelf(u, v6) ==
    IF Self(u, v6) = {} THEN Early ELSE RemoveSenders(u, Self(u, v6))

\* createToken, and the three calls on a token selector.
CreateToken(u, name, permissions) ==
    Rpc("CreateToken", u, "admin", name # <<>> /\ permissions # {}, <<>>,
        [name |-> name, permissions |-> permissions])
ListTokenPermissions(u, target) == Rpc("TokenPermissions", u, "admin", TRUE, <<>>, target)
ListChildTokens(u, target) == Rpc("ChildTokens", u, "admin", TRUE, <<>>, target)
RevokeToken(u, target) == Rpc("Revoke", u, "admin", TRUE, <<>>, target)
=============================================================================
