---------------------------- MODULE ControlPlane ----------------------------
(***************************************************************************)
(* The tools at work against one control plane: the operator's lbadm       *)
(* commands, a receiving process (e2sar_perf -r, e2sar_ft -r) with its     *)
(* state thread, and a sending process (e2sar_perf -s, e2sar_ft -s), joined *)
(* by the text of EJFAT_URI in the shell and by RPCs that may be lost on   *)
(* the way out or back.  (lbadm.cpp, e2sar_perf.cpp, e2sar_ft.cpp, with    *)
(* e2sarCP.cpp, e2sarUtil.cpp and the set-up of e2sarDPReassembler.cpp and *)
(* e2sarDPSegmenter.cpp in the modules extended.)                          *)
(***************************************************************************)
EXTENDS Setup

CONSTANTS
    AdminText,      \* the administrator's EJFAT_URI
    LbIds, Sids,    \* the ids the control plane can give
    ServerAddrs,    \* what a reservation's reply may hold as its addresses
    Choices,        \* options given to lbadm: [senders, duration, self, keep],
                    \* senders {} for no -a, the duration 0 for an indefinite
                    \* reservation
    LbadmWorker,    \* the worker record lbadm is given
    WorkerRuns,     \* the command lines of the receiving process
    SenderRuns,     \* the command lines of the sending process
    MaxTools,       \* bound: processes started besides lbadm
    MaxRegistered,  \* bound: workers registered with lbadm
    Beside          \* bound: the commands that run beside another tool

VARIABLES
    lbs, sessions, live,    \* the control plane (external)
    env,        \* EJFAT_URI: its text, and which command printed it
    cmd,        \* the lbadm process
    worker,     \* the receiving process
    states,     \* its send-state thread
    sender,     \* the sending process
    rpc,        \* the RPC each client waits for
    refused,    \* history: calls turned down for want of a credential
    faults      \* history: the tools a call of whose was lost

server == <<lbs, sessions, live>>
vars == <<lbs, sessions, live, env, cmd, worker, states, sender, rpc, refused, faults>>

Clients == {"lbadm", "worker", "state", "sender"}

AdminToken == <<"admin">>
ChildToken == <<"child">>
InstToken(l) == <<"inst">> \o l
SessToken(s) == <<"sess">> \o s

\* The addresses a sender run admits: the one given, or its own.
SenderAddrs(run, u) == IF run.ip = NoAddr THEN Self(u, FALSE) ELSE {run.ip}

ASSUME CPAssumption ==
    /\ AdminText.token = AdminToken
    /\ <<>> \notin LbIds \cup Sids \cup {InstToken(l) : l \in LbIds} \cup {SessToken(s) : s \in Sids}

\* The control plane does not give one token twice.
ASSUME TokensApart ==
    LET ids == LbIds \cup {<<>>}
    IN /\ \A l, m \in ids : InstToken(l) = InstToken(m) => l = m
       /\ \A s, t \in Sids : SessToken(s) = SessToken(t) => s = t
       /\ \A l \in ids, s \in Sids : InstToken(l) # SessToken(s)
       /\ AdminToken \notin {InstToken(l) : l \in ids} \cup {SessToken(s) : s \in Sids}

\* The administrator's URI parses, and has no addresses of an LB yet.
ASSUME AdminTextAssumption ==
    /\ IsPort(AdminText.port) /\ AdminText.query = <<>>
    /\ FromText(AdminText, "admin", FALSE).ok

\* A reply has the addresses in their places, each of which may be absent or
\* text that does not parse; a sync port comes with a sync address only.
ASSUME RepliesAssumption ==
    \A a \in ServerAddrs :
        /\ a = [sync |-> a.sync, syncPort |-> a.syncPort, v4 |-> a.v4, v6 |-> a.v6]
        /\ a.v4 \notin V6 /\ a.v6 \notin V4
        /\ IF a.sync = NoAddr THEN a.syncPort = Indeterminate ELSE IsPort(a.syncPort)

\* Every reply has an address for the sync messages, as the replies of a
\* working LB do: a URI with no address at all loses its session id.
RepliesHaveSync == \A a \in ServerAddrs : a.sync # NoAddr

-----------------------------------------------------------------------------
(* RPCs *)

Idle == [phase |-> "idle"]
NoReply == [token |-> <<>>]

\* A call goes out, or returns an error before it does; it is a refusal if
\* that was for want of a token or an LB id.
Try(c, op, u, req) ==
    IF req.op = "early"
    THEN /\ refused' = IF req = NoToken \/ (op # "reserve" /\ u.lbId = <<>>)
                       THEN refused \cup {[by |-> c, op |-> op, held |-> FALSE]} ELSE refused
         /\ UNCHANGED rpc
    ELSE /\ rpc' = [rpc EXCEPT ![c] = [phase |-> "sent", req |-> req]]
         /\ UNCHANGED refused

Reply(c, rep) ==
    rpc' = [rpc EXCEPT ![c] = [phase |-> "done", req |-> rpc[c].req, ok |-> TRUE, rep |-> rep]]
Fail(c) ==
    rpc' = [rpc EXCEPT ![c] = [phase |-> "done", req |-> rpc[c].req, ok |-> FALSE, rep |-> NoReply]]

Returned(c) == rpc[c].phase = "done"
Hangup(c) == rpc' = [rpc EXCEPT ![c] = Idle]

\* The network loses the request, or the reply.
Lose(c) ==
    /\ rpc[c].phase = "sent" \/ (rpc[c].phase = "done" /\ rpc[c].ok)
    /\ faults' = faults \cup ({c} \cap {"worker", "sender"})
    /\ Fail(c)
    /\ UNCHANGED <<server, env, cmd, worker, states, sender, refused>>

-----------------------------------------------------------------------------
(* The control plane: external, as the client uses it *)

NoSession == [state |-> "none", lb |-> <<>>, by |-> "none", w |-> <<>>]
Open(s) == sessions[s].state \in {"new", "ready"}

\* Whether a token entitles its holder to a request.
Covers(r) ==
    LET own == r.sid \in Sids /\ sessions[r.sid].lb = r.lb
    IN \/ r.token = AdminToken
       \/ r.op \in {"Overview", "Version"}
       \/ /\ r.op \in {"Free", "Status", "Register", "AddSenders", "RemoveSenders"}
          /\ r.lb \in LbIds /\ r.token = InstToken(r.lb)
       \/ /\ r.op \in {"Deregister", "SendState"}
          /\ own
          /\ r.token \in {InstToken(r.lb), SessToken(r.sid)}

\* Whether what it asks for exists.
Able(r) ==
    /\ r.op = "Reserve" => \E l \in LbIds : lbs[l].state = "free"
    /\ r.lb # <<>> => r.lb \in LbIds /\ lbs[r.lb].state = "reserved"
    /\ r.op = "Register" => NoSession \in {sessions[s] : s \in Sids}
    /\ r.op \in {"Deregister", "SendState"} => r.sid \in Sids /\ Open(r.sid)

Granted(c) ==
    /\ rpc[c].phase = "sent"
    /\ rpc[c].req.token \in live /\ Covers(rpc[c].req) /\ Able(rpc[c].req)
Asked(c, ops) == Granted(c) /\ rpc[c].req.op \in ops

SessionsOf(l) == {s \in Sids : sessions[s].lb = l}
Close(S) == sessions' = [s \in Sids |-> IF s \in S THEN [sessions[s] EXCEPT !.state = "closed"]
                                        ELSE sessions[s]]

Refuse(c) ==
    /\ rpc[c].phase = "sent" /\ ~Granted(c)
    /\ refused' = IF rpc[c].req.token \in live /\ ~Covers(rpc[c].req)
                  THEN refused \cup {[by |-> c, op |-> rpc[c].req.op, held |-> TRUE]} ELSE refused
    /\ Fail(c)
    /\ UNCHANGED <<server, env, cmd, worker, states, sender, faults>>

ServeReserve(c) == \E l \in LbIds, a \in ServerAddrs :
    /\ Asked(c, {"Reserve"})
    /\ lbs[l].state = "free"
    /\ lbs' = [lbs EXCEPT ![l] = [state |-> "reserved", until |-> rpc[c].req.arg.until,
                                  admitted |-> rpc[c].req.arg.senders,
                                  byLbadm |-> rpc[c].req.arg.senders, addrs |-> a]]
    /\ live' = live \cup {InstToken(l)}
    /\ Reply(c, [token |-> InstToken(l), lb |-> l, sync |-> a.sync, syncPort |-> a.syncPort,
                 v4 |-> a.v4, v6 |-> a.v6])
    /\ UNCHANGED <<sessions, env, cmd, worker, states, sender, refused, faults>>

\* A reservation ends, and with it all that was derived from it.
Release(l) ==
    /\ lbs' = [lbs EXCEPT ![l].state = "gone", ![l].admitted = {}]
    /\ Close(SessionsOf(l))
    /\ live' = live \ ({InstToken(l)} \cup {SessToken(s) : s \in SessionsOf(l)})

ServeFree(c) ==
    /\ Asked(c, {"Free"})
    /\ Release(rpc[c].req.lb)
    /\ Reply(c, NoReply)
    /\ UNCHANGED <<env, cmd, worker, states, sender, refused, faults>>

ReservationEnds(l) ==
    /\ lbs[l].state = "reserved" /\ lbs[l].until # 0
    /\ Release(l)
    /\ UNCHANGED <<env, cmd, worker, states, sender, rpc, refused, faults>>

ServeRegister(c) == \E s \in Sids :
    /\ Asked(c, {"Register"})
    /\ s = CHOOSE t \in Sids : sessions[t].state = "none"
    /\ sessions' = [sessions EXCEPT ![s] =
                      [state |-> "new", lb |-> rpc[c].req.lb, by |-> c, w |-> rpc[c].req.arg]]
    /\ live' = live \cup {SessToken(s)}
    /\ Reply(c, [token |-> SessToken(s), sid |-> s])
    /\ UNCHANGED <<lbs, env, cmd, worker, states, sender, refused, faults>>

EndSession(s) == Close({s}) /\ live' = live \ {SessToken(s)}

ServeDeregister(c) ==
    /\ Asked(c, {"Deregister"})
    /\ EndSession(rpc[c].req.sid)
    /\ Reply(c, NoReply)
    /\ UNCHANGED <<lbs, env, cmd, worker, states, sender, refused, faults>>

\* A worker that sends no state within 10 s of its registration.
SessionExpires(s) ==
    /\ sessions[s].state = "new"
    /\ EndSession(s)
    /\ UNCHANGED <<lbs, env, cmd, worker, states, sender, rpc, refused, faults>>

ServeState(c) ==
    /\ Asked(c, {"SendState"})
    /\ sessions' = [sessions EXCEPT ![rpc[c].req.sid].state = "ready"]
    /\ Reply(c, NoReply)
    /\ UNCHANGED <<lbs, live, env, cmd, worker, states, sender, refused, faults>>

\* byLbadm is a history: the addresses lbadm was the last to put on or take
\* off.
ServeSenders(c) ==
    /\ Asked(c, {"AddSenders", "RemoveSenders"})
    /\ LET r == rpc[c].req
       IN lbs' = [lbs EXCEPT
                    ![r.lb].admitted = IF r.op = "AddSenders" THEN @ \cup r.arg ELSE @ \ r.arg,
                    ![r.lb].byLbadm = IF c = "lbadm" THEN @ \cup r.arg ELSE @ \ r.arg]
    /\ Reply(c, NoReply)
    /\ UNCHANGED <<sessions, live, env, cmd, worker, states, sender, refused, faults>>

\* Nothing here depends on what these read or change: no tool uses a token
\* that createtoken makes.
ServeQuery(c) ==
    /\ Asked(c, {"Status", "Overview", "Version", "Timeseries",
                 "CreateToken", "TokenPermissions", "ChildTokens", "Revoke"})
    /\ Reply(c, NoReply)
    /\ UNCHANGED <<server, env, cmd, worker, states, sender, refused, faults>>

Serve(c) ==
    \/ ServeReserve(c) \/ ServeFree(c) \/ ServeRegister(c) \/ ServeDeregister(c)
    \/ ServeState(c) \/ ServeSenders(c) \/ ServeQuery(c)
    \/ Refuse(c) \/ Lose(c)

-----------------------------------------------------------------------------
(* lbadm: one command, one process *)

NoURI == Throw
NoCommand == [name |-> "none", uri |-> NoURI]

AdminCommands == {"reserve", "free", "status", "overview", "version", "timeseries",
                  "createtoken", "listtokenpermissions", "listchildtokens", "revoketoken"}
InstanceCommands == {"register", "addsenders", "removesenders"}
SessionCommands == {"deregister", "state"}
Commands == AdminCommands \cup InstanceCommands \cup SessionCommands

\* Defect: the session commands read an instance token.
CommandTokenType_instance(name) == IF name \in AdminCommands THEN "admin" ELSE "instance"

\* Which token the URI is taken to hold.
CommandTokenType(name) ==
    IF name \in AdminCommands THEN "admin"
    ELSE IF name \in InstanceCommands THEN "instance" ELSE "session"

\* What a command is run with: the administrator's URI (-u), with --lbid
\* where the command is about one LB, or what an earlier command exported.
Inputs(name) ==
    LET own == {[text |-> env.text, lbid |-> <<>>]}
        admin(ids) == {[text |-> AdminText, lbid |-> l] : l \in ids}
        isSet == env.kind \in {"instance", "registered"}
    IN CASE name \in {"free", "status"} ->
                admin({l \in LbIds : lbs[l].state # "free"}) \cup (IF isSet THEN own ELSE {})
         [] name \in AdminCommands \ {"free", "status"} -> admin({<<>>})
         [] name \in InstanceCommands ->
                IF isSet THEN own ELSE {}
         [] OTHER -> IF env.kind \in {"registered", "session"} THEN own ELSE {}

\* The helper each command calls, down to its request.
CommandRequest(name, u, lbid, ch) ==
    LET w == [LbadmWorker EXCEPT !.keepHeader = ch.keep]
    IN CASE name = "reserve" ->
                ReserveLB(u, "lb", ch.duration, ch.senders, DUAL_STACK)
         [] name = "free" -> IF lbid # <<>> THEN FreeLB(u, lbid) ELSE FreeOwnLB(u)
         [] name = "status" -> GetLBStatus(u, lbid)
         [] name = "overview" -> Overview(u)
         [] name = "version" -> Version(u)
         [] name = "timeseries" -> Timeseries(u, <<"/lb">>)
         [] name = "createtoken" -> CreateToken(u, <<"name">>, {"LOAD_BALANCER:READ"})
         [] name = "listtokenpermissions" -> ListTokenPermissions(u, ChildToken)
         [] name = "listchildtokens" -> ListChildTokens(u, ChildToken)
         [] name = "revoketoken" -> RevokeToken(u, ChildToken)
         [] name = "register" -> IF ch.self THEN RegisterWorkerSelf(u, w, ch.keep)
                                 ELSE RegisterWorker(u, w)
         [] name = "addsenders" -> IF ch.senders = {} THEN AddSenderSelf(u, FALSE)
                                   ELSE AddSenders(u, ch.senders)
         [] name = "removesenders" -> IF ch.senders = {} THEN RemoveSenderSelf(u, FALSE)
                                      ELSE RemoveSenders(u, ch.senders)
         [] name = "deregister" -> DeregisterWorker(u)
         [] name = "state" -> SendState(u, 10)

NoTool == {worker.pc, sender.pc} = {"off"}
MayLaunch == (NoTool \/ MaxTools > 1) /\ cmd.name \in Beside \cup {"none"}

\* main, up to the RPC; a URI that does not parse ends it with -1.
RunCommand(name) == \E in \in Inputs(name), ch \in Choices :
    /\ cmd = NoCommand
    /\ name = "register" =>
         Cardinality({s \in Sids : sessions[s].by = "lbadm"}) < MaxRegistered
    /\ name \in Beside \/ NoTool
    /\ LET tt  == CommandTokenType(name)
           u0  == FromText(in.text, tt, FALSE)
           u   == IF in.lbid = <<>> THEN u0 ELSE [u0 EXCEPT !.lbId = in.lbid]
           req == CommandRequest(name, u, in.lbid, ch)
       IN IF ~u0.ok
          THEN /\ refused' = refused \cup {[by |-> "lbadm", op |-> "parse", held |-> TRUE]}
               /\ UNCHANGED <<cmd, rpc>>
          ELSE /\ Try("lbadm", name, u, req)
               /\ cmd' = IF req.op = "early" THEN cmd ELSE
                         [name |-> name, uri |-> IF name = "reserve" THEN Named(u, <<"lb">>) ELSE u]
    /\ UNCHANGED <<server, env, worker, states, sender, faults>>

CommandFails ==
    /\ cmd # NoCommand /\ Returned("lbadm")
    /\ \/ ~rpc["lbadm"].ok
       \/ /\ rpc["lbadm"].ok /\ cmd.name = "reserve"
          /\ ~FillReservation(cmd.uri, rpc["lbadm"].rep).ok
    /\ cmd' = NoCommand
    /\ Hangup("lbadm")
    /\ UNCHANGED <<server, env, worker, states, sender, refused, faults>>

CommandSucceeds ==
    /\ cmd.name \in Commands \ {"reserve", "register"}
    /\ Returned("lbadm") /\ rpc["lbadm"].ok
    /\ cmd' = NoCommand
    /\ Hangup("lbadm")
    /\ UNCHANGED <<server, env, worker, states, sender, refused, faults>>

\* The URI a reservation prints, and the shell exports.
ReserveSucceeds ==
    /\ cmd.name = "reserve" /\ Returned("lbadm") /\ rpc["lbadm"].ok
    /\ LET fill == FillReservation(cmd.uri, rpc["lbadm"].rep)
       IN /\ fill.ok
          /\ env' = [kind |-> "instance", text |-> ToString(fill.uri, "instance")]
    /\ cmd' = NoCommand
    /\ Hangup("lbadm")
    /\ UNCHANGED <<server, worker, states, sender, refused, faults>>

\* The URI a registration prints: with the instance token for --export, with
\* the session token for a reader.
RegisterSucceeds == \E export \in BOOLEAN :
    /\ cmd.name = "register" /\ Returned("lbadm") /\ rpc["lbadm"].ok
    /\ LET u == FillSession(cmd.uri, rpc["lbadm"].rep)
       IN env' = IF export THEN [kind |-> "registered", text |-> ToString(u, "instance")]
                 ELSE [kind |-> "session", text |-> ToString(u, "session")]
    /\ cmd' = NoCommand
    /\ Hangup("lbadm")
    /\ UNCHANGED <<server, worker, states, sender, refused, faults>>

-----------------------------------------------------------------------------
(* The receiving process *)

WorkerOff == [pc |-> "off", uri |-> NoURI, run |-> <<>>, reas |-> NoURI, registered |-> FALSE,
              interrupted |-> FALSE, threadsStop |-> FALSE, exit |-> "none"]

Goto(pc) == worker' = [worker EXCEPT !.pc = pc]
Dead(pc, code) == [WorkerOff EXCEPT !.pc = pc, !.exit = code]

\* main up to the constructor.  When that throws, shutDown finds no
\* reassembler and exits with 0 before main's exit(-1).
LaunchWorker(run) ==
    /\ worker.pc = "off" /\ MayLaunch
    /\ env.kind \in {"instance", "registered"}
    /\ LET u == FromText(env.text, "instance", FALSE)
           flags == ReceiveFlags(run.hasIni, run.ini, run.opts)
           r == Reassembler(u, flags, run.ip, run.port, run.threads, FALSE, run.affinityOk)
       IN IF ~Select({"none"}, run.optims, run.available).ok \/ ~u.ok
          THEN /\ worker' = Dead("exited", "-1")
               /\ refused' = IF u.ok THEN refused
                             ELSE refused \cup {[by |-> "worker", op |-> "parse", held |-> TRUE]}
          ELSE /\ worker' = IF r.ok THEN [WorkerOff EXCEPT !.pc = "register", !.uri = u,
                                                          !.run = run, !.reas = r]
                            ELSE Dead("exited", "0")
               /\ UNCHANGED refused
    /\ UNCHANGED <<server, env, cmd, states, sender, rpc, faults>>

\* Ctrl-C, or the duration asked for, ends the dequeue threads.  Nothing else
\* reads the flag: an earlier Ctrl-C is one as soon as they run.
InterruptWorker ==
    /\ worker.pc = "running" /\ ~worker.interrupted
    /\ worker' = [worker EXCEPT !.interrupted = TRUE]
    /\ UNCHANGED <<server, env, cmd, states, sender, rpc, refused, faults>>

\* prepareToReceive: the host name, then registerWorker, then openAndStart.
HostNameFails ==
    /\ worker.pc = "register"
    /\ Goto("shutdown")
    /\ UNCHANGED <<server, env, cmd, states, sender, rpc, refused, faults>>

\* Defect: the registration is not remembered.
CallRegister_forgets ==
    /\ worker.pc = "register"
    /\ LET req == RegisterSelf(worker.reas, worker.uri, <<"host">>)
       IN IF worker.reas.useCP
          THEN /\ Try("worker", "register", worker.uri, req)
               /\ Goto(IF req.op = "early" THEN "shutdown" ELSE "registering")
          ELSE /\ Goto("open")
               /\ UNCHANGED <<rpc, refused>>
    /\ UNCHANGED <<server, env, cmd, states, sender, faults>>

CallRegister ==
    /\ worker.pc = "register"
    /\ LET req == RegisterSelf(worker.reas, worker.uri, <<"host">>)
       IN IF worker.reas.useCP
          THEN /\ Try("worker", "register", worker.uri, req)
               /\ worker' = [worker EXCEPT !.registered = TRUE,
                                !.pc = IF req.op = "early" THEN "shutdown" ELSE "registering"]
          ELSE /\ Goto("open")
               /\ UNCHANGED <<rpc, refused>>
    /\ UNCHANGED <<server, env, cmd, states, sender, faults>>

\* Defect: the error of registerWorker is not looked at.
RegisterReturns_anyway ==
    /\ worker.pc = "registering" /\ Returned("worker")
    /\ worker' = [worker EXCEPT !.pc = "open",
                                !.uri = IF rpc["worker"].ok
                                        THEN FillSession(worker.uri, rpc["worker"].rep) ELSE @]
    /\ Hangup("worker")
    /\ UNCHANGED <<server, env, cmd, states, sender, refused, faults>>

RegisterReturns ==
    /\ worker.pc = "registering" /\ Returned("worker")
    /\ worker' = IF rpc["worker"].ok
                 THEN [worker EXCEPT !.pc = "open",
                                     !.uri = FillSession(worker.uri, rpc["worker"].rep)]
                 ELSE [worker EXCEPT !.pc = "shutdown"]
    /\ Hangup("worker")
    /\ UNCHANGED <<server, env, cmd, states, sender, refused, faults>>

\* openAndStart
OpenFails ==
    /\ worker.pc = "open"
    /\ Goto("shutdown")
    /\ UNCHANGED <<server, env, cmd, states, sender, rpc, refused, faults>>

OpenAndStart ==
    /\ worker.pc = "open"
    /\ Goto("running")
    /\ states' = IF worker.reas.useCP THEN "loop" ELSE "none"
    /\ UNCHANGED <<server, env, cmd, sender, rpc, refused, faults>>

ReadersEnd ==
    /\ worker.pc = "running" /\ worker.interrupted
    /\ Goto("shutdown")
    /\ UNCHANGED <<server, env, cmd, states, sender, rpc, refused, faults>>

\* shutDown: deregisterWorker, stopThreads, exit(0).
CallDeregister ==
    /\ worker.pc = "shutdown"
    /\ LET req == DeregisterWorker(worker.uri)
       IN IF worker.registered
          THEN /\ Try("worker", "deregister", worker.uri, req)
               /\ worker' = [worker EXCEPT !.registered = FALSE,
                                !.pc = IF req.op = "early" THEN "stop" ELSE "deregistering"]
          ELSE /\ Goto("stop")
               /\ UNCHANGED <<rpc, refused>>
    /\ UNCHANGED <<server, env, cmd, states, sender, faults>>

DeregisterReturns ==
    /\ worker.pc = "deregistering" /\ Returned("worker")
    /\ Goto("stop")
    /\ Hangup("worker")
    /\ UNCHANGED <<server, env, cmd, states, sender, refused, faults>>

\* Defect: the stop flag is not set.
StopThreads_noFlag ==
    /\ worker.pc = "stop"
    /\ Goto("join")
    /\ UNCHANGED <<server, env, cmd, states, sender, rpc, refused, faults>>

StopThreads ==
    /\ worker.pc = "stop"
    /\ worker' = [worker EXCEPT !.pc = "join", !.threadsStop = TRUE]
    /\ UNCHANGED <<server, env, cmd, states, sender, rpc, refused, faults>>

WorkerJoins ==
    /\ worker.pc = "join" /\ states \in {"none", "ended"}
    /\ worker' = Dead("exited", "0")
    /\ UNCHANGED <<server, env, cmd, states, sender, rpc, refused, faults>>

\* The process is killed: its threads are gone and no reply reaches it.
KillWorker ==
    /\ worker.pc \notin {"off", "exited", "killed"}
    /\ worker' = Dead("killed", "signal")
    /\ states' = "ended"
    /\ UNCHANGED <<server, env, cmd, sender, rpc, refused, faults>>

\* The send-state thread: an error is counted and the loop goes on.
CallSendState ==
    /\ states = "loop" /\ ~worker.threadsStop
    /\ LET req == SendState(worker.uri, 10)
       IN /\ Try("state", "state", worker.uri, req)
          /\ states' = IF req.op = "early" THEN "loop" ELSE "sending"
    /\ UNCHANGED <<server, env, cmd, worker, sender, faults>>

SendStateReturns ==
    /\ states = "sending" /\ Returned("state")
    /\ states' = "loop"
    /\ Hangup("state")
    /\ UNCHANGED <<server, env, cmd, worker, sender, refused, faults>>

StateThreadEnds ==
    /\ states = "loop" /\ worker.threadsStop
    /\ states' = "ended"
    /\ UNCHANGED <<server, env, cmd, worker, sender, rpc, refused, faults>>

-----------------------------------------------------------------------------
(* The sending process *)

SenderOff == [pc |-> "off", uri |-> NoURI, run |-> <<>>, flags |-> SegmenterFlags, seg |-> "none",
              sent |-> FALSE, interrupted |-> FALSE, exit |-> "none"]

SDead(code) == [SenderOff EXCEPT !.pc = "exited", !.exit = code]
SGoto(pc) == sender' = [sender EXCEPT !.pc = pc]

LaunchSender(run) ==
    /\ sender.pc = "off" /\ MayLaunch
    /\ env.kind \in {"instance", "registered"}
    /\ LET u == FromText(env.text, "instance", FALSE)
           flags == SendFlags(run.hasIni, run.ini, run.opts)
       IN IF ~Select({"none"}, run.optims, run.available).ok \/ ~u.ok
          THEN /\ sender' = SDead("-1")
               /\ refused' = IF u.ok THEN refused
                             ELSE refused \cup {[by |-> "sender", op |-> "parse", held |-> TRUE]}
          ELSE /\ sender' = [SenderOff EXCEPT !.pc = IF flags.useCP THEN "add" ELSE "build",
                                              !.uri = u, !.run = run, !.flags = flags]
               /\ UNCHANGED refused
    /\ UNCHANGED <<server, env, cmd, worker, states, rpc, faults>>

InterruptSender ==
    /\ sender.pc = "sending" /\ ~sender.interrupted
    /\ sender' = [sender EXCEPT !.interrupted = TRUE]
    /\ UNCHANGED <<server, env, cmd, worker, states, rpc, refused, faults>>

CallAddSenders ==
    /\ sender.pc = "add"
    /\ LET req == IF sender.run.ip = NoAddr THEN AddSenderSelf(sender.uri, FALSE)
                  ELSE AddSenders(sender.uri, {sender.run.ip})
       IN /\ Try("sender", "addsenders", sender.uri, req)
          /\ sender' = IF req.op = "early" THEN SDead("-1")
                       ELSE [sender EXCEPT !.pc = "adding"]
    /\ UNCHANGED <<server, env, cmd, worker, states, faults>>

AddSendersReturns ==
    /\ sender.pc = "adding" /\ Returned("sender")
    /\ sender' = IF rpc["sender"].ok THEN [sender EXCEPT !.pc = "build"]
                 ELSE SDead("-1")
    /\ Hangup("sender")
    /\ UNCHANGED <<server, env, cmd, worker, states, refused, faults>>

\* The constructor; when it throws, shutDown finds no segmenter, leaves the
\* sender's address where it is and exits with 0.  (The MTU check throws a
\* type main does not catch: the process aborts, to the same effect on the LB.)
BuildSegmenter ==
    /\ sender.pc = "build"
    /\ sender' = IF SegmenterBuilds(sender.uri, sender.flags, sender.run.ifMTU, TRUE,
                                    sender.run.affinityOk)
                 THEN [sender EXCEPT !.pc = "open", !.seg = "built"]
                 ELSE SDead("0")
    /\ UNCHANGED <<server, env, cmd, worker, states, rpc, refused, faults>>

OpenSegmenter ==
    /\ sender.pc = "open"
    /\ sender' = [sender EXCEPT !.pc = "sending", !.seg = "open"]
    /\ UNCHANGED <<server, env, cmd, worker, states, rpc, refused, faults>>

\* e2sar_perf shuts down in order, e2sar_ft returns -1 at once.
OpenSegmenterFails ==
    /\ sender.pc = "open"
    /\ sender' = IF sender.run.tool = "perf" THEN [sender EXCEPT !.pc = "stop"]
                 ELSE SDead("-1")
    /\ UNCHANGED <<server, env, cmd, worker, states, rpc, refused, faults>>

\* All that was asked for is sent, or a send error is counted.
AllSent ==
    /\ sender.pc = "sending" /\ ~sender.sent
    /\ sender' = [sender EXCEPT !.sent = TRUE]
    /\ UNCHANGED <<server, env, cmd, worker, states, rpc, refused, faults>>

\* Defect: the sender is removed before the segmenter is stopped.
SendingEnds_removesFirst ==
    /\ sender.pc = "sending"
    /\ IF sender.run.tool = "perf"
       THEN (sender.sent \/ sender.interrupted) /\ SGoto("remove")
       ELSE sender' = [sender EXCEPT !.pc = "remove", !.seg = "stopped"]
    /\ UNCHANGED <<server, env, cmd, worker, states, rpc, refused, faults>>

\* sendEvents leaves its loops once all is sent or Ctrl-C is pressed; the
\* segmenter's threads go on.  traversePaths stops them.
SendingEnds ==
    /\ sender.pc = "sending"
    /\ IF sender.run.tool = "perf"
       THEN /\ sender.sent \/ sender.interrupted
            /\ SGoto("stop")
       ELSE sender' = [sender EXCEPT !.pc = "remove", !.seg = "stopped"]
    /\ UNCHANGED <<server, env, cmd, worker, states, rpc, refused, faults>>

\* shutDown of e2sar_perf: the segmenter's destructor sends what is left
\* before the sender is removed.
StopSegmenter ==
    /\ sender.pc = "stop"
    /\ sender' = [sender EXCEPT !.pc = "remove", !.seg = "stopped"]
    /\ UNCHANGED <<server, env, cmd, worker, states, rpc, refused, faults>>

CallRemoveSenders ==
    /\ sender.pc = "remove"
    /\ LET req == IF sender.run.ip = NoAddr THEN RemoveSenderSelf(sender.uri, FALSE)
                  ELSE RemoveSenders(sender.uri, {sender.run.ip})
       IN IF sender.flags.useCP
          THEN /\ Try("sender", "removesenders", sender.uri, req)
               /\ SGoto(IF req.op = "early" THEN "end" ELSE "removing")
          ELSE /\ SGoto("end")
               /\ UNCHANGED <<rpc, refused>>
    /\ UNCHANGED <<server, env, cmd, worker, states, faults>>

RemoveSendersReturns ==
    /\ sender.pc = "removing" /\ Returned("sender")
    /\ SGoto("end")
    /\ Hangup("sender")
    /\ UNCHANGED <<server, env, cmd, worker, states, refused, faults>>

SenderExits ==
    /\ sender.pc = "end"
    /\ sender' = [sender EXCEPT !.pc = "exited", !.exit = "0", !.sent = FALSE, !.interrupted = FALSE]
    /\ UNCHANGED <<server, env, cmd, worker, states, rpc, refused, faults>>

-----------------------------------------------------------------------------
Init ==
    /\ lbs = [l \in LbIds |-> [state |-> "free", until |-> 0, admitted |-> {},
                              byLbadm |-> {}, addrs |-> NoReply]]
    /\ sessions = [s \in Sids |-> NoSession]
    /\ live = {AdminToken}
    /\ env = [kind |-> "admin", text |-> AdminText]
    /\ cmd = NoCommand
    /\ worker = WorkerOff
    /\ states = "none"
    /\ sender = SenderOff
    /\ rpc = [c \in Clients |-> Idle]
    /\ refused = {}
    /\ faults = {}

ServerNext ==
    \/ \E c \in Clients : Serve(c)
    \/ \E l \in LbIds : ReservationEnds(l)
    \/ \E s \in Sids : SessionExpires(s)

LbadmNext ==
    \/ \E name \in Commands : RunCommand(name)
    \/ CommandFails \/ CommandSucceeds \/ ReserveSucceeds \/ RegisterSucceeds

WorkerSteps ==
    \/ CallRegister \/ RegisterReturns \/ HostNameFails \/ OpenAndStart \/ OpenFails
    \/ ReadersEnd \/ CallDeregister \/ DeregisterReturns \/ StopThreads \/ WorkerJoins
WorkerNext ==
    \/ \E run \in WorkerRuns : LaunchWorker(run)
    \/ WorkerSteps \/ InterruptWorker \/ KillWorker

StateThreadNext == CallSendState \/ SendStateReturns \/ StateThreadEnds

SenderSteps ==
    \/ CallAddSenders \/ AddSendersReturns \/ BuildSegmenter \/ OpenSegmenter
    \/ OpenSegmenterFails \/ SendingEnds \/ StopSegmenter \/ CallRemoveSenders
    \/ RemoveSendersReturns \/ SenderExits
SenderNext ==
    \/ \E run \in SenderRuns : LaunchSender(run)
    \/ SenderSteps \/ InterruptSender \/ AllSent

Next == ServerNext \/ LbadmNext \/ WorkerNext \/ StateThreadNext \/ SenderNext

\* The tools run on, and every RPC of theirs ends, answered or broken off.
Fairness ==
    /\ WF_vars(WorkerSteps) /\ WF_vars(StateThreadNext) /\ WF_vars(SenderSteps)
    /\ \A c \in Clients \ {"lbadm"} : WF_vars(Serve(c))

Spec == Init /\ [][Next]_vars /\ Fairness

-----------------------------------------------------------------------------
(* Properties *)

\* The state of each process and of the control plane keeps its shape; in
\* particular only addresses get on an LB's list of senders.
TypeOK ==
    /\ \A l \in LbIds : /\ lbs[l].state \in {"free", "reserved", "gone"}
                        /\ lbs[l].admitted \subseteq Addr
    /\ \A s \in Sids : /\ sessions[s].state \in {"none", "new", "ready", "closed"}
                       /\ sessions[s].lb \in LbIds \cup {<<>>}
    /\ env.kind \in {"admin", "instance", "registered", "session"}
    /\ cmd.name \in Commands \cup {"none"}
    /\ worker.pc \in {"off", "register", "registering", "open", "running", "shutdown",
                      "deregistering", "stop", "join", "exited", "killed"}
    /\ states \in {"none", "loop", "sending", "ended"}
    /\ sender.pc \in {"off", "add", "adding", "build", "open", "sending", "stop",
                      "remove", "removing", "end", "exited"}
    /\ \A c \in Clients : rpc[c].phase \in {"idle", "sent", "done"}

\* A tool that is started with the URI the command before it printed holds
\* the credential its calls need: no call is turned down because the token
\* is of another kind, is for another LB or session, or was lost on the way
\* (lbadm.cpp's choice of token type, EjfatURI's printing and parsing, the
\* replies' handling).  The exception is the deregistration a receiver
\* attempts when its own registration has failed (registeredWorker).
NotRefused ==
    \A r \in refused : r.by = "worker" /\ r.op = "deregister" /\ ~r.held

\* EJFAT_URI says what the control plane holds: it reads back with the LB's
\* id, its addresses, the token that was given for it and, once a worker is
\* registered, that worker's session.
ExportedAgrees ==
    env.kind # "admin" =>
        LET tt == IF env.kind = "session" THEN "session" ELSE "instance"
            u  == FromText(env.text, tt, FALSE)
        IN /\ u.ok
           /\ u.lbId \in LbIds /\ lbs[u.lbId].state # "free"
           /\ CpText(u) = AdminText.host /\ u.cpPort = AdminText.port
           /\ [sync |-> u.sync, syncPort |-> u.syncPort, v4 |-> u.v4, v6 |-> u.v6] = lbs[u.lbId].addrs
           /\ IF env.kind = "instance" THEN u.sid = <<>>
              ELSE u.sid \in Sids /\ sessions[u.sid].lb = u.lbId /\ sessions[u.sid].by = "lbadm"
           /\ u.tok[tt] = IF env.kind = "session" THEN SessToken(u.sid) ELSE InstToken(u.lbId)

\* The send-state thread runs only in a worker that is registered: its URI
\* has the session's id and token, and the session records this worker.  (The
\* race the note in prepareToReceive warns of, e2sar_perf.cpp and
\* e2sar_ft.cpp.)
StateAfterRegister ==
    states \in {"loop", "sending"} =>
        \E s \in Sids : /\ worker.uri.sid = s /\ worker.uri.tok["session"] = SessToken(s)
                        /\ sessions[s].state # "none" /\ sessions[s].by = "worker"
                        /\ sessions[s].lb = worker.uri.lbId

Gone(u) == lbs[u.lbId].state # "reserved"

\* While the segmenter's threads may still emit packets, the LB admits their
\* source address (shutDown's note that the threads stop before the sender is
\* removed, e2sar_perf.cpp), unless the reservation itself is over or the
\* last to change that very address was lbadm: its removesenders takes off
\* the host's own address when it is given none.
SenderAllowedWhileSending ==
    sender.seg = "open" /\ sender.flags.useCP =>
        \/ Gone(sender.uri)
        \/ LET lb == lbs[sender.uri.lbId]
           IN SenderAddrs(sender.run, sender.uri) \subseteq lb.admitted \cup lb.byLbadm

\* A tool that ends leaves nothing of its own with the control plane: no open
\* session of a worker, and no admitted address of a sender that sent, but
\* for one lbadm was the last to admit.  (A killed process, or one whose calls
\* the network failed, may.)
CleanExit ==
    /\ worker.pc = "exited" /\ "worker" \notin faults =>
        \A s \in Sids : sessions[s].by = "worker" => ~Open(s)
    /\ sender.pc = "exited" /\ sender.seg = "stopped" /\ "sender" \notin faults
            /\ sender.flags.useCP =>
        \/ Gone(sender.uri)
        \/ LET lb == lbs[sender.uri.lbId]
           IN SenderAddrs(sender.run, sender.uri) \cap (lb.admitted \ lb.byLbadm) = {}

\* Command lines the ports of which fit: a receiver has a thread, and its
\* ports end at 65535 (no code checks either); a sender sends over IPv4.
WorkersFit ==
    \A run \in WorkerRuns :
        LET flags == ReceiveFlags(run.hasIni, run.ini, run.opts)
            range == PortRange(flags, run.threads)
        IN /\ run.threads \in Nat \ {0} /\ run.port \in Nat /\ flags.portRange \in Int
           /\ range <= 14 => run.port + NumRecvPorts(range) <= 65536
SendersFit ==
    \A run \in SenderRuns :
        LET flags == SendFlags(run.hasIni, run.ini, run.opts)
        IN ~flags.dpV6 /\ flags.numSendSockets \in Int

\* The ports a worker announced are the ports it listens on, each on one
\* thread: the control plane spreads events over port .. port + 2^sources - 1.
\* And the sockets of a sender send to the LB that was reserved, at the data
\* plane's ports, though the printed URI does not name one.
EndpointsAgree ==
    /\ worker.pc = "running" /\ worker.reas.useCP =>
        LET w == sessions[worker.uri.sid].w
            ports == worker.reas.threadsToPorts
        IN /\ w.addr = worker.reas.addr
           /\ BoundPorts(worker.reas) = w.port .. w.port + 2^w.sources - 1
           /\ \A i, j \in DOMAIN ports : i # j => ports[i] \cap ports[j] = {}
    /\ sender.seg = "open" =>
        \A d \in Destinations(sender.uri, sender.flags) :
            /\ d.addr = lbs[sender.uri.lbId].addrs.v4
            /\ d.port \in DATAPLANE_PORT .. DATAPLANE_PORT + sender.flags.numSendSockets - 1

\* A tool asked to stop does.
ToolsExit ==
    /\ worker.interrupted ~> worker.pc \in {"exited", "killed"}
    /\ sender.interrupted ~> sender.pc = "exited"

\* The weight in the INI file is the weight the control plane schedules by
\* ("schedule weight parameters", reassembler_config.ini).
WeightHonoured ==
    \A s \in Sids :
        sessions[s].by = "worker" /\ worker.run.hasIni /\ "weight" \in DOMAIN worker.run.ini
            => sessions[s].w.weight = worker.run.ini["weight"]
=============================================================================
