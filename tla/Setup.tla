-------------------------------- MODULE Setup --------------------------------
(***************************************************************************)
(* What the tools do before any thread runs: the optimizations selected,   *)
(* the flags read from an INI file and the command line, and the           *)
(* constructors of Reassembler and Segmenter with their checks.            *)
(* (e2sarUtil.cpp, e2sarDPReassembler.cpp/.hpp, e2sarDPSegmenter.cpp/.hpp) *)
(* Fractions are given in tenths.                                          *)
(***************************************************************************)
EXTENDS LBManager, FiniteSets

-----------------------------------------------------------------------------
(* Optimizations *)

\* Optimizations::select: the named ones are added to those selected; an
\* unavailable or conflicting one leaves "none" alone selected and is an
\* error; otherwise "none" is toggled unless it is all there is.
Select(selected, opts, available) ==
    LET sel == selected \cup opts
        conflict == "sendmmsg" \in sel
                        /\ sel \cap {"liburing_send", "liburing_recv"} # {}
    IN IF ~(opts \subseteq available) \/ conflict
       THEN [ok |-> FALSE, selected |-> {"none"}]
       ELSE [ok |-> TRUE,
             selected |-> IF sel = {"none"} THEN sel
                          ELSE IF "none" \in sel THEN sel \ {"none"}
                          ELSE sel \cup {"none"}]

-----------------------------------------------------------------------------
(* Flags *)

ReassemblerFlags ==
    [useCP |-> TRUE, useHostAddress |-> FALSE, validateCert |-> TRUE,
     period_ms |-> 100, epoch_ms |-> 1000, setPoint |-> 0,
     Ki |-> 0, Kp |-> 0, Kd |-> 0, portRange |-> -1, withLBHeader |-> FALSE,
     eventTimeout_ms |-> 500, rcvSocketBufSize |-> 3145728,
     weight |-> 10, min_factor |-> 5, max_factor |-> 20, reportStats |-> FALSE]

SegmenterFlags ==
    [dpV6 |-> FALSE, connectedSocket |-> TRUE, useCP |-> TRUE,
     warmUpMs |-> 1000, syncPeriodMs |-> 1000, syncPeriods |-> 2, mtu |-> 1500,
     numSendSockets |-> 4, sndSocketBufSize |-> 3145728, rateGbps |-> -10,
     smooth |-> FALSE, multiPort |-> FALSE, ticksAsREEventNum |-> FALSE,
     lbHdrVersion |-> 2]

\* The fields that other, a function on some of them, overrides.
Override(flags, other) ==
    [f \in DOMAIN flags |-> IF f \in DOMAIN other THEN other[f] ELSE flags[f]]

\* ReassemblerFlags::getFromINI: weight, min_factor and max_factor are read
\* one after the other into Kd.
ReassemblerFromINI(ini) ==
    LET toKd == {k \in {"Kd", "weight", "min_factor", "max_factor"} : k \in DOMAIN ini}
        kd == IF "max_factor" \in toKd THEN ini["max_factor"]
              ELSE IF "min_factor" \in toKd THEN ini["min_factor"]
              ELSE IF "weight" \in toKd THEN ini["weight"]
              ELSE IF "Kd" \in toKd THEN ini["Kd"] ELSE ReassemblerFlags.Kd
        plain == [k \in DOMAIN ini \ {"weight", "min_factor", "max_factor"} |-> ini[k]]
    IN [Override(ReassemblerFlags, plain) EXCEPT !.Kd = kd]

\* SegmenterFlags::getFromINI: warmUpMS is read as a bool, so that anything
\* but 0 is 1, a missing or unreadable value too.
SegmenterFromINI(ini) ==
    [Override(SegmenterFlags, ini) EXCEPT
        !.warmUpMs = IF "warmUpMs" \in DOMAIN ini /\ ini["warmUpMs"] = 0 THEN 0 ELSE 1]

\* main of the tools: an INI file overridden by the options given, or the
\* defaults overridden by all options; the option withcp also decides
\* whether receivers expect the LB header.
ReceiveFlags(hasIni, ini, opts) ==
    LET o == IF "useCP" \in DOMAIN opts
             THEN [k \in DOMAIN opts \cup {"withLBHeader"} |->
                      IF k = "withLBHeader" THEN ~opts["useCP"] ELSE opts[k]]
             ELSE opts
    IN Override(IF hasIni THEN ReassemblerFromINI(ini) ELSE ReassemblerFlags, o)
SendFlags(hasIni, ini, opts) ==
    Override(IF hasIni THEN SegmenterFromINI(ini) ELSE SegmenterFlags, opts)

-----------------------------------------------------------------------------
(* Reassembler *)

\* portRange and numRecvPorts as the constructors initialise them.
PortRange(flags, threads) ==
    IF flags.portRange # -1 THEN flags.portRange ELSE GetPortRange(threads)
NumRecvPorts(range) == IF range > 0 THEN 2^range ELSE 1

\* sanityChecks
ReassemblerSane(u, flags, port, threads) ==
    LET range == PortRange(flags, threads)
    IN /\ threads <= 128
       /\ range <= 14
       /\ flags.eventTimeout_ms <= 10000
       /\ port >= 1024
       /\ u.v4 # NoAddr \/ u.v6 # NoAddr

\* assignPortsToThreads: the ports dealt round the threads; with no thread
\* its loop never ends.
AssignPorts(port, count, threads) ==
    [j \in 1 .. threads |->
        {port + i : i \in {k \in 0 .. count - 1 : k % threads = j - 1}}]

\* The four constructors: the address is given or, for NoAddr, that of the
\* interface towards the data address; with cores the affinity is set.
Reassembler(u, flags, ip, port, threads, dpV6, affinityOk) ==
    LET self == DataplaneLocalAddresses(u, dpV6)
        addr == IF ip # NoAddr THEN ip ELSE IF self = <<>> THEN NoAddr ELSE self[1]
        range == PortRange(flags, threads)
    IN IF addr = NoAddr \/ ~ReassemblerSane(u, flags, port, threads) \/ ~affinityOk
       THEN Throw
       ELSE [ok |-> TRUE, uri |-> u, useCP |-> flags.useCP, addr |-> addr,
             port |-> port, numRecvPorts |-> NumRecvPorts(range),
             threadsToPorts |-> AssignPorts(port, NumRecvPorts(range), threads),
             weight |-> flags.weight, min_factor |-> flags.min_factor,
             max_factor |-> flags.max_factor]

\* registerWorker's request; keepHeader keeps its default.
RegisterSelf(r, u, name) ==
    RegisterWorker(u, [name |-> name, addr |-> r.addr, port |-> r.port,
                       weight |-> r.weight, minFactor |-> r.min_factor,
                       maxFactor |-> r.max_factor, sources |-> r.numRecvPorts,
                       keepHeader |-> FALSE])

\* What RecvThreadState::_open binds: a port is written in 16 bits.
BoundPorts(r) ==
    {p % 65536 : p \in UNION {r.threadsToPorts[j] : j \in DOMAIN r.threadsToPorts}}

-----------------------------------------------------------------------------
(* Segmenter *)

HeaderLength(v6) == (IF v6 THEN 40 ELSE 20) + 8 + 16 + 20

\* The constructor: the MTU of the interface (0 when it reports none) bounds
\* the one asked for, or stands in for it.
SegmenterMTU(flags, ifMTU) ==
    IF flags.mtu = 0 THEN ifMTU
    ELSE IF ifMTU > 0 /\ flags.mtu > ifMTU THEN 0 ELSE flags.mtu

SegmenterSane(u, flags, mtu) ==
    /\ flags.numSendSockets <= 128
    /\ flags.syncPeriodMs <= 10000
    /\ mtu <= 9000
    /\ flags.useCP => u.sync # NoAddr
    /\ u.v4 # NoAddr \/ u.v6 # NoAddr
    /\ mtu > HeaderLength(flags.dpV6)

SegmenterBuilds(u, flags, ifMTU, uringOk, affinityOk) ==
    LET mtu == SegmenterMTU(flags, ifMTU)
    IN /\ flags.lbHdrVersion \in 2 .. 3
       /\ (IF flags.dpV6 THEN u.v6 ELSE u.v4) # NoAddr
       /\ mtu # 0
       /\ uringOk
       /\ SegmenterSane(u, flags, mtu)
       /\ affinityOk

\* SendThreadState::_open: where the sockets send to.
Destinations(u, flags) ==
    {[addr |-> IF flags.dpV6 THEN u.v6 ELSE u.v4,
      port |-> (u.dataPort + (IF flags.multiPort THEN i ELSE 0)) % 65536] :
        i \in 0 .. flags.numSendSockets - 1}
=============================================================================
