--------------------------- MODULE MCControlPlane ---------------------------
(* One LB, two sessions (one for the receiver, one for lbadm), and command  *)
(* lines that reach every branch of the set-up.                             *)
EXTENDS ControlPlane

MCV4 == {"10.0.0.1", "10.0.0.2", "10.0.0.3"}
MCV6 == {"fd00::1"}
MCResolve == [h \in {"ejfat-lb"} |-> <<"fd00::1", "10.0.0.1">>]
MCRoute == [a \in MCV4 \cup MCV6 |-> IF a = "fd00::1" THEN <<>> ELSE <<"10.0.0.3">>]

MCAdminText == [tls |-> TRUE, token |-> <<"admin">>, port |-> 18008, host |-> "ejfat-lb",
                path |-> <<>>, query |-> <<>>]
MCLbIds == {<<"36">>}
MCSids == {<<"s1">>, <<"s2">>}
MCServerAddrs ==
    {[sync |-> "10.0.0.1", syncPort |-> 19010, v4 |-> "10.0.0.2", v6 |-> v6] :
        v6 \in {"fd00::1", "unreadable"}}
\* A reply that holds no address at all.
MCBareAddrs == {[sync |-> NoAddr, syncPort |-> Indeterminate, v4 |-> NoAddr, v6 |-> NoAddr]}
MCChoices ==
    {[senders |-> {"10.0.0.3"}, duration |-> 60, self |-> FALSE, keep |-> FALSE],
     [senders |-> {"unreadable"}, duration |-> 60, self |-> TRUE, keep |-> FALSE],
     [senders |-> {}, duration |-> 60, self |-> TRUE, keep |-> TRUE]}
MCLbadmWorker == [name |-> <<"n">>, addr |-> "10.0.0.3", port |-> 20000, weight |-> 10,
                  minFactor |-> 5, maxFactor |-> 20, sources |-> 3, keepHeader |-> FALSE]

NoINI == [f \in {} |-> 0]
WRun == [hasIni |-> FALSE, ini |-> NoINI, opts |-> [useCP |-> TRUE], optims |-> {},
         available |-> {"none", "sendmmsg"}, ip |-> NoAddr, port |-> 19522, threads |-> 3,
         affinityOk |-> TRUE]
MCWorkerRuns ==
    {WRun,
     [WRun EXCEPT !.hasIni = TRUE, !.ip = "10.0.0.3",
         !.ini = [useCP |-> TRUE, Kd |-> 1, weight |-> 15], !.opts = NoINI],
     [WRun EXCEPT !.opts = [useCP |-> FALSE]],
     [WRun EXCEPT !.port = 1000],
     [WRun EXCEPT !.optims = {"liburing_recv"}]}

SRun == [tool |-> "perf", hasIni |-> FALSE, ini |-> NoINI, opts |-> [useCP |-> TRUE],
         optims |-> {}, available |-> {"none", "sendmmsg"}, ip |-> NoAddr, ifMTU |-> 9000,
         affinityOk |-> TRUE]
MCSenderRuns ==
    {SRun,
     [SRun EXCEPT !.hasIni = TRUE, !.ini = [useCP |-> TRUE, multiPort |-> TRUE], !.opts = NoINI],
     [SRun EXCEPT !.tool = "ft", !.ip = "10.0.0.3"],
     [SRun EXCEPT !.opts = [useCP |-> TRUE, mtu |-> 9000], !.ifMTU = 1500],
     [SRun EXCEPT !.opts = [useCP |-> FALSE]],
     [SRun EXCEPT !.optims = {"sendmmsg", "liburing_send"}]}

\* What the theorems are about: the command lines fit, and MCServerAddrs is as
\* RepliesHaveSync asks.
ASSUME RunsFit == WorkersFit /\ SendersFit /\ \A a \in MCServerAddrs : a.sync # NoAddr
=============================================================================
