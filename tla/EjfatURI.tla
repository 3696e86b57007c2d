------------------------------ MODULE EjfatURI ------------------------------
(***************************************************************************)
(* The EJFAT URI (e2sarUtil.cpp, e2sarUtil.hpp): the object every tool     *)
(* parses from its environment, fills from the control plane's replies and *)
(* prints for the next tool.                                               *)
(*                                                                         *)
(* A string that is carried but never looked into (a token, an LB id, a    *)
(* session id) is a sequence of opaque pieces, <<>> the empty string.  An  *)
(* address is a member of V4 or V6; any other value in the place of one is *)
(* text that does not parse.  A URI text is a record of its parts, its     *)
(* query a sequence of parameters [key, val, port].                        *)
(***************************************************************************)
EXTENDS Integers, Sequences

CONSTANTS
    V4, V6,     \* the addresses, by family
    Resolve,    \* host name -> the addresses the resolver returns, in order
    Route       \* data address -> local addresses of the interface towards it

Addr == V4 \cup V6
NoAddr == "none"
Unset == <<>>

ASSUME AddrAssumption == V4 \cap V6 = {} /\ NoAddr \notin Addr

TokenType == {"all", "admin", "instance", "session"}
DATAPLANE_PORT == 19522
NoPort == -1            \* a parameter written without ":port"
BadPort == -2           \* string_to_port's error
Indeterminate == -3     \* a member no constructor initialises

\* The ports that are read back as they were printed.
IsPort(n) == n \in Nat /\ 1024 <= n /\ n <= 65535

\* string_to_port: the value is cut to 16 bits before its range is checked.
StringToPort(n) ==
    LET port == n % 65536 IN IF port < 1024 THEN BadPort ELSE port

\* string_tuple_to_ip_and_port: whether it parses, and the port it yields.
TupleParses(p) ==
    p.val \in Addr /\ (p.port = NoPort \/ StringToPort(p.port) # BadPort)
TuplePort(p) == IF p.port = NoPort THEN 0 ELSE StringToPort(p.port)

\* The first address of the preferred family the resolver returns.
ResolveHost(h, preferV6) ==
    LET family == IF preferV6 THEN V6 ELSE V4
        hits   == IF h \in DOMAIN Resolve
                  THEN {i \in DOMAIN Resolve[h] : Resolve[h][i] \in family}
                  ELSE {}
    IN IF hits = {} THEN NoAddr
       ELSE Resolve[h][CHOOSE i \in hits : \A j \in hits : i <= j]

\* The constructor throws.
Throw == [ok |-> FALSE]

\* EjfatURI::EjfatURI(uri, tt, preferV6).  Parameters are read in order, so
\* the last of a kind stays; dataPort is written by a data parameter only.
Parse(text, tt, preferV6) ==
    LET q == text.query
        keyed(k) == {i \in DOMAIN q : q[i].key = k}
        data(family) == {i \in keyed("data") : q[i].val \in family}
        last(S) == CHOOSE i \in S : \A j \in S : j <= i
        val(S, none) == IF S = {} THEN none ELSE q[last(S)].val
        cp == IF text.host \in Addr THEN text.host
              ELSE ResolveHost(text.host, preferV6)
        unread == DOMAIN q \ keyed("sessionid")
    IN IF \/ StringToPort(text.port) = BadPort
          \/ cp = NoAddr
          \/ \E i \in unread : ~TupleParses(q[i])
          \/ unread # keyed("sync") \cup keyed("data")
       THEN Throw
       ELSE [ok |-> TRUE, tls |-> text.tls, cpAddr |-> cp,
             cpHost |-> IF text.host \in Addr THEN <<>> ELSE <<text.host>>,
             cpPort |-> StringToPort(text.port),
             tok |-> [t \in TokenType |-> IF t = tt THEN text.token ELSE <<>>],
             lbName |-> <<>>, lbId |-> text.path,
             sid |-> val(keyed("sessionid"), <<>>),
             sync |-> val(keyed("sync"), NoAddr),
             syncPort |-> IF keyed("sync") = {} THEN Indeterminate
                          ELSE TuplePort(q[last(keyed("sync"))]),
             v4 |-> val(data(V4), NoAddr), v6 |-> val(data(V6), NoAddr),
             dataPort |-> IF keyed("data") = {} THEN Indeterminate
                          ELSE LET p == TuplePort(q[last(keyed("data"))])
                               IN IF p = 0 THEN DATAPLANE_PORT ELSE p]

\* getFromEnv, getFromString, getFromFile: the exception becomes an error.
FromText(text, tt, preferV6) ==
    IF text = Unset THEN Throw ELSE Parse(text, tt, preferV6)

\* The control plane as it is printed: by its name, if it was given by one.
CpText(u) == IF u.cpHost = <<>> THEN u.cpAddr ELSE u.cpHost[1]

\* The printed URI with the given token: sync=, data= v4, data= v6 (without
\* their port), then &sessionid=, which no "?" precedes when no address does:
\* it then reads back as part of the path.
AsText(u, token) ==
    LET param(k, a, p) == IF a = NoAddr THEN <<>>
                          ELSE <<[key |-> k, val |-> a, port |-> p]>>
        addrs == param("sync", u.sync, u.syncPort)
                     \o param("data", u.v4, NoPort) \o param("data", u.v6, NoPort)
        sess == IF u.sid = <<>> THEN <<>>
                ELSE <<[key |-> "sessionid", val |-> u.sid, port |-> NoPort]>>
    IN [tls |-> u.tls, token |-> token, port |-> u.cpPort,
        host |-> CpText(u),
        path |-> IF addrs = <<>> /\ sess # <<>>
                 THEN u.lbId \o <<"&sessionid=">> \o u.sid ELSE u.lbId,
        query |-> IF addrs = <<>> THEN <<>> ELSE addrs \o sess]

\* EjfatURI::to_string(tt)
ToString(u, tt) == AsText(u, u.tok[tt])

SetToken(u, tt, t) == [u EXCEPT !.tok[tt] = t]
SetSyncAddr(u, a, p) == [u EXCEPT !.sync = a, !.syncPort = p]
\* set_dataAddr takes a port as well and drops it.
SetDataAddr(u, a) ==
    IF a \in V4 THEN [u EXCEPT !.v4 = a] ELSE [u EXCEPT !.v6 = a]

\* getDataplaneLocalAddresses: <<>> stands for the error too, which every
\* caller treats like an empty list.
DataplaneLocalAddresses(u, v6) ==
    LET a == IF v6 THEN u.v6 ELSE u.v4
    IN IF a = NoAddr \/ a \notin DOMAIN Route THEN <<>> ELSE Route[a]
=============================================================================
