-------------------------- MODULE ControlPlaneProofs --------------------------
(***************************************************************************)
(* Proofs about ControlPlane, for any addresses, routes, ids, command      *)
(* lines and options, and any number of processes and workers.             *)
(***************************************************************************)
EXTENDS ControlPlane, TLAPS

(* The records keep their fields, and every client has its slot for an RPC. *)
WorkerShape ==
  worker = [pc |-> worker.pc, uri |-> worker.uri, run |-> worker.run,
            reas |-> worker.reas, registered |-> worker.registered,
            interrupted |-> worker.interrupted,
            threadsStop |-> worker.threadsStop, exit |-> worker.exit]
SessionShape ==
  /\ DOMAIN sessions = Sids
  /\ \A s \in Sids : sessions[s] = [state |-> sessions[s].state, lb |-> sessions[s].lb,
                                    by |-> sessions[s].by, w |-> sessions[s].w]
RpcShape == rpc = [c \in Clients |-> rpc[c]]

(* A URI with the fields that a registration reads and writes. *)
IsURI(u) == {"tok", "sid", "lbId"} \subseteq DOMAIN u /\ "session" \in DOMAIN u.tok

LEMMA ParsedIsURI ==
  ASSUME NEW text, NEW tt, NEW p, FromText(text, tt, p).ok
  PROVE  IsURI(FromText(text, tt, p))
  BY DEF FromText, Parse, Throw, IsURI, TokenType

LEMMA FillSessionFills ==
  ASSUME NEW u, IsURI(u), NEW s \in Sids
  PROVE  LET v == FillSession(u, [token |-> SessToken(s), sid |-> s])
         IN IsURI(v) /\ v.sid = s /\ v.tok["session"] = SessToken(s) /\ v.lbId = u.lbId
  <1>1. SessToken(s) # <<>> /\ s # <<>>
    BY CPAssumption
  <1>. QED
    BY <1>1 DEF FillSession, SetToken, IsURI

(* Once given out, a session stays its worker's, as announced, and its LB's. *)
SessionsKept ==
  \A s \in Sids : sessions[s].state # "none" =>
     /\ sessions'[s].state # "none"
     /\ sessions'[s].by = sessions[s].by
     /\ sessions'[s].lb = sessions[s].lb
     /\ sessions'[s].w = sessions[s].w

LEMMA CloseKeeps ==
  ASSUME NEW S, SessionShape, Close(S)
  PROVE  SessionShape' /\ SessionsKept
  BY DEF SessionShape, Close, SessionsKept

LEMMA ServerKeepsSessions ==
  ASSUME SessionShape, ServerNext
  PROVE  SessionShape' /\ SessionsKept
<1>1. ASSUME NEW c \in Clients, ServeReserve(c) PROVE SessionShape' /\ SessionsKept
  BY <1>1 DEF ServeReserve, SessionShape, SessionsKept
<1>2. ASSUME NEW c \in Clients, ServeFree(c) PROVE SessionShape' /\ SessionsKept
  BY <1>2, CloseKeeps DEF ServeFree, Release
<1>3. ASSUME NEW c \in Clients, ServeRegister(c) PROVE SessionShape' /\ SessionsKept
  <2>1. PICK s \in Sids : /\ s = CHOOSE t \in Sids : sessions[t].state = "none"
                         /\ sessions' = [sessions EXCEPT ![s] =
                              [state |-> "new", lb |-> rpc[c].req.lb, by |-> c,
                               w |-> rpc[c].req.arg]]
    BY <1>3 DEF ServeRegister
  <2>2. \E t \in Sids : sessions[t].state = "none"
    BY <1>3 DEF ServeRegister, Asked, Granted, Able, NoSession
  <2>3. sessions[s].state = "none"
    BY <2>1, <2>2
  <2>. QED
    BY <2>1, <2>3 DEF SessionShape, SessionsKept
<1>4. ASSUME NEW c \in Clients, ServeDeregister(c) PROVE SessionShape' /\ SessionsKept
  BY <1>4, CloseKeeps DEF ServeDeregister, EndSession
<1>5. ASSUME NEW c \in Clients, ServeState(c) PROVE SessionShape' /\ SessionsKept
  BY <1>5 DEF ServeState, Asked, Granted, Able, SessionShape, SessionsKept
<1>6. ASSUME NEW c \in Clients, ServeSenders(c) PROVE SessionShape' /\ SessionsKept
  BY <1>6 DEF ServeSenders, SessionShape, SessionsKept
<1>7. ASSUME NEW c \in Clients, ServeQuery(c) \/ Refuse(c) \/ Lose(c)
      PROVE  SessionShape' /\ SessionsKept
  BY <1>7 DEF ServeQuery, Refuse, Lose, server, SessionShape, SessionsKept
<1>8. ASSUME NEW l \in LbIds, ReservationEnds(l) PROVE SessionShape' /\ SessionsKept
  BY <1>8, CloseKeeps DEF ReservationEnds, Release
<1>9. ASSUME NEW s \in Sids, SessionExpires(s) PROVE SessionShape' /\ SessionsKept
  BY <1>9, CloseKeeps DEF SessionExpires, EndSession
<1>. QED
  BY <1>1, <1>2, <1>3, <1>4, <1>5, <1>6, <1>7, <1>8, <1>9 DEF ServerNext, Serve

(* What a client other than c does to the RPCs does not concern c. *)
LEMMA OtherCalls ==
  ASSUME NEW c \in Clients, NEW d \in Clients, d # c, RpcShape,
         NEW op, NEW u, NEW req,
         Try(d, op, u, req) \/ Hangup(d) \/ Fail(d) \/ (\E rep : Reply(d, rep))
  PROVE  RpcShape' /\ rpc'[c] = rpc[c]
  BY DEF RpcShape, Try, Hangup, Fail, Reply, Idle

-----------------------------------------------------------------------------
(* The send-state thread runs only in a registered worker *)

Started == {"running", "shutdown", "deregistering", "stop", "join"}
Launched == {"register", "registering", "open"} \cup Started

Recorded(s, u) ==
  sessions[s].state # "none" /\ sessions[s].by = "worker" /\ sessions[s].lb = u.lbId

Registered(u) ==
  \E s \in Sids : u.sid = s /\ u.tok["session"] = SessToken(s) /\ Recorded(s, u)

(* What the call that registers a worker asks for, and what it brings. *)
RegisterCall ==
  LET r == rpc["worker"]
  IN /\ r.phase = "sent" => r.req.op = "Register" /\ r.req.lb = worker.uri.lbId
     /\ r.phase = "done" /\ r.ok =>
          \E s \in Sids : r.rep = [token |-> SessToken(s), sid |-> s] /\ Recorded(s, worker.uri)

(* StateAfterRegister is not inductive: the session must have been recorded *)
(* by the call, and kept in the URI, before the thread is started.          *)
RegisterInv ==
  /\ WorkerShape /\ SessionShape /\ RpcShape
  /\ worker.pc \in Launched => IsURI(worker.uri)
  /\ worker.pc = "registering" => RegisterCall
  /\ worker.pc = "open" /\ worker.reas.useCP => Registered(worker.uri)
  /\ states \in {"loop", "sending"} => worker.pc \in Started /\ Registered(worker.uri)

LEMMA RegisterFrame ==
  ASSUME RegisterInv, SessionShape', RpcShape', SessionsKept,
         UNCHANGED <<worker, states>>,
         worker.pc = "registering" => RegisterCall'
  PROVE  RegisterInv'
<1>1. ASSUME Registered(worker.uri) PROVE Registered(worker.uri)'
  BY <1>1 DEF Registered, Recorded, SessionsKept
<1>. QED
  BY <1>1 DEF RegisterInv, WorkerShape

LEMMA RegisterCallKept ==
  ASSUME RegisterCall, SessionsKept, UNCHANGED worker, rpc'["worker"] = rpc["worker"]
  PROVE  RegisterCall'
  BY DEF RegisterCall, Recorded, SessionsKept

LEMMA ServerRegisterCall ==
  ASSUME RegisterInv, ServerNext
  PROVE  RpcShape' /\ UNCHANGED <<worker, states>> /\ (worker.pc = "registering" => RegisterCall')
<1>0. SessionsKept
  BY ServerKeepsSessions DEF RegisterInv
<1>1. ASSUME NEW c \in Clients, Serve(c)
      PROVE  RpcShape' /\ UNCHANGED <<worker, states>> /\ (c # "worker" => rpc'["worker"] = rpc["worker"])
  BY <1>1 DEF Serve, ServeReserve, ServeFree, ServeRegister, ServeDeregister, ServeState,
       ServeSenders, ServeQuery, Refuse, Lose, server, Reply, Fail, RegisterInv, RpcShape, Clients
<1>2. ASSUME Serve("worker"), worker.pc = "registering" PROVE RegisterCall'
  <2>1. CASE ServeRegister("worker")
    <3>1. PICK s \in Sids : sessions' = [sessions EXCEPT ![s] =
                              [state |-> "new", lb |-> rpc["worker"].req.lb, by |-> "worker",
                               w |-> rpc["worker"].req.arg]]
                         /\ Reply("worker", [token |-> SessToken(s), sid |-> s])
      BY <2>1 DEF ServeRegister
    <3>2. rpc["worker"].req.lb = worker.uri.lbId
      BY <1>2, <2>1 DEF ServeRegister, Asked, Granted, RegisterInv, RegisterCall
    <3>. QED
      BY <3>1, <3>2, <1>1, <1>2 DEF RegisterInv, SessionShape, RpcShape, Clients, Reply,
           RegisterCall, Recorded
  <2>2. CASE Refuse("worker") \/ Lose("worker")
    BY <2>2 DEF Refuse, Lose, Fail, RegisterInv, RpcShape, Clients, RegisterCall
  <2>3. CASE \/ ServeReserve("worker") \/ ServeFree("worker") \/ ServeDeregister("worker")
             \/ ServeState("worker") \/ ServeSenders("worker") \/ ServeQuery("worker")
    BY <1>2, <2>3 DEF ServeReserve, ServeFree, ServeDeregister, ServeState, ServeSenders,
         ServeQuery, Asked, Granted, RegisterInv, RegisterCall
  <2>. QED
    BY <1>2, <2>1, <2>2, <2>3 DEF Serve
<1>3. ASSUME \/ \E l \in LbIds : ReservationEnds(l)
             \/ \E s \in Sids : SessionExpires(s)
      PROVE  UNCHANGED <<rpc, worker, states>>
  BY <1>3 DEF ReservationEnds, SessionExpires
<1>. QED
  BY <1>0, <1>1, <1>2, <1>3, RegisterCallKept DEF ServerNext, RegisterInv, RpcShape, Clients

(* lbadm and the sending process call for themselves. *)
LEMMA OthersKeepWorker ==
  ASSUME RpcShape, LbadmNext \/ SenderNext
  PROVE  /\ RpcShape' /\ rpc'["worker"] = rpc["worker"] /\ rpc'["state"] = rpc["state"]
         /\ UNCHANGED <<worker, states, sessions>>
<1>1. ASSUME NEW name \in Commands, RunCommand(name)
      PROVE  RpcShape' /\ rpc'["worker"] = rpc["worker"] /\ rpc'["state"] = rpc["state"]
             /\ UNCHANGED <<worker, states, sessions>>
  BY <1>1 DEF RunCommand, Try, server, RpcShape, Clients
<1>2. ASSUME CommandFails \/ CommandSucceeds \/ ReserveSucceeds \/ RegisterSucceeds
      PROVE  RpcShape' /\ rpc'["worker"] = rpc["worker"] /\ rpc'["state"] = rpc["state"]
             /\ UNCHANGED <<worker, states, sessions>>
  BY <1>2 DEF CommandFails, CommandSucceeds, ReserveSucceeds, RegisterSucceeds, Hangup, server,
       RpcShape, Clients
<1>3. ASSUME CallAddSenders \/ CallRemoveSenders
      PROVE  RpcShape' /\ rpc'["worker"] = rpc["worker"] /\ rpc'["state"] = rpc["state"]
             /\ UNCHANGED <<worker, states, sessions>>
  BY <1>3 DEF CallAddSenders, CallRemoveSenders, Try, server, RpcShape, Clients
<1>4. ASSUME AddSendersReturns \/ RemoveSendersReturns
      PROVE  RpcShape' /\ rpc'["worker"] = rpc["worker"] /\ rpc'["state"] = rpc["state"]
             /\ UNCHANGED <<worker, states, sessions>>
  BY <1>4 DEF AddSendersReturns, RemoveSendersReturns, Hangup, server, RpcShape, Clients
<1>5. ASSUME \/ \E run \in SenderRuns : LaunchSender(run)
             \/ BuildSegmenter \/ OpenSegmenter \/ OpenSegmenterFails \/ SendingEnds
             \/ StopSegmenter \/ SenderExits \/ InterruptSender \/ AllSent
      PROVE  UNCHANGED <<rpc, worker, states, sessions>>
  BY <1>5 DEF LaunchSender, BuildSegmenter, OpenSegmenter, OpenSegmenterFails, SendingEnds,
       StopSegmenter, SenderExits, InterruptSender, AllSent, server
<1>. QED
  BY <1>1, <1>2, <1>3, <1>4, <1>5 DEF LbadmNext, SenderNext, SenderSteps, RpcShape, Clients

LEMMA LaunchRegister ==
  ASSUME RegisterInv, NEW run \in WorkerRuns, LaunchWorker(run)
  PROVE  RegisterInv'
<1>. DEFINE u == FromText(env.text, "instance", FALSE)
<1>1. UNCHANGED <<rpc, sessions, states>> /\ worker.pc = "off"
  BY DEF LaunchWorker, server
<1>2. \/ \E code : worker' = Dead("exited", code)
      \/ u.ok /\ \E r : worker' = [WorkerOff EXCEPT !.pc = "register", !.uri = u,
                                                !.run = run, !.reas = r]
  BY Zenon DEF LaunchWorker
<1>3. WorkerShape' /\ (worker'.pc = "exited" \/ (worker'.pc = "register" /\ IsURI(worker'.uri)))
  <2>1. u.ok => IsURI(u)
    BY ParsedIsURI
  <2>. HIDE DEF u
  <2>. QED
    BY <1>2, <2>1 DEF WorkerShape, Dead, WorkerOff
<1>. QED
  BY <1>1, <1>3 DEF RegisterInv, Launched, Started, RpcShape, SessionShape

LEMMA CallRegisterStep ==
  ASSUME RegisterInv, CallRegister
  PROVE  RegisterInv'
<1>. DEFINE req == RegisterSelf(worker.reas, worker.uri, <<"host">>)
<1>1. req.op # "early" => req.op = "Register" /\ req.lb = worker.uri.lbId
  BY DEF RegisterSelf, RegisterWorker, Rpc, Early, NoToken
<1>2. /\ UNCHANGED <<sessions, states>> /\ WorkerShape' /\ worker'.uri = worker.uri
      /\ worker'.reas = worker.reas /\ RpcShape'
  BY DEF CallRegister, Goto, server, Try, RegisterInv, WorkerShape, RpcShape, Clients
<1>3. states \notin {"loop", "sending"} /\ IsURI(worker.uri)
  BY DEF CallRegister, RegisterInv, Started, Launched
<1>4. \/ worker'.pc = "open" /\ ~worker.reas.useCP
      \/ worker'.pc = "shutdown"
      \/ /\ worker'.pc = "registering" /\ req.op # "early"
         /\ rpc'["worker"] = [phase |-> "sent", req |-> req]
  BY DEF CallRegister, Goto, Try, RegisterInv, WorkerShape, RpcShape, Clients
<1>5. worker'.pc = "registering" => RegisterCall'
  <2>. HIDE DEF req
  <2>. QED
    BY <1>1, <1>2, <1>4 DEF RegisterCall
<1>. HIDE DEF req
<1>. QED
  BY <1>2, <1>3, <1>4, <1>5 DEF RegisterInv, SessionShape

LEMMA RegisterReturnsStep ==
  ASSUME RegisterInv, RegisterReturns
  PROVE  RegisterInv'
<1>1. /\ UNCHANGED <<sessions, states>> /\ RpcShape' /\ WorkerShape'
      /\ worker'.reas = worker.reas
  BY DEF RegisterReturns, Hangup, server, RegisterInv, RpcShape, WorkerShape, Clients
<1>2. RegisterCall /\ states \notin {"loop", "sending"} /\ IsURI(worker.uri)
      /\ worker.pc = "registering"
  BY DEF RegisterReturns, RegisterInv, Started, Launched
<1>3. CASE rpc["worker"].ok
  <2>1. PICK s \in Sids : /\ rpc["worker"].rep = [token |-> SessToken(s), sid |-> s]
                         /\ Recorded(s, worker.uri)
    BY <1>2, <1>3 DEF RegisterReturns, Returned, RegisterCall
  <2>2. worker'.pc = "open" /\ worker'.uri = FillSession(worker.uri, rpc["worker"].rep)
    BY <1>3 DEF RegisterReturns, RegisterInv, WorkerShape
  <2>3. IsURI(worker'.uri) /\ Registered(worker.uri)'
    BY <1>1, <1>2, <2>1, <2>2, FillSessionFills DEF Registered, Recorded
  <2>. QED
    BY <1>1, <1>2, <2>2, <2>3 DEF RegisterInv, SessionShape, Started
<1>4. CASE ~rpc["worker"].ok
  <2>1. worker'.pc = "shutdown" /\ worker'.uri = worker.uri
    BY <1>4 DEF RegisterReturns, RegisterInv, WorkerShape
  <2>. QED
    BY <1>1, <1>2, <2>1 DEF RegisterInv, SessionShape
<1>. QED
  BY <1>3, <1>4

(* The steps of the receiver that leave its URI alone. *)
LEMMA WorkerMovesOn ==
  ASSUME RegisterInv, RpcShape', UNCHANGED sessions, WorkerShape',
         worker'.uri = worker.uri, worker.pc \in Launched,
         worker'.pc # "registering", worker'.pc # "open",
         states' \in {"loop", "sending"} =>
            /\ worker'.pc \in Started
            /\ states \in {"loop", "sending"} \/ (worker.pc = "open" /\ worker.reas.useCP)
  PROVE  RegisterInv'
  BY DEF RegisterInv, Registered, Recorded, SessionShape

LEMMA WorkerStepRegister ==
  ASSUME RegisterInv, WorkerSteps \/ InterruptWorker \/ KillWorker
  PROVE  RegisterInv'
<1>. USE DEF Launched, Started
<1>1. CASE CallRegister
  BY <1>1, CallRegisterStep
<1>2. CASE RegisterReturns
  BY <1>2, RegisterReturnsStep
<1>3. CASE HostNameFails \/ OpenFails \/ OpenAndStart
  <2>1. /\ RpcShape' /\ UNCHANGED sessions /\ WorkerShape' /\ worker'.uri = worker.uri
        /\ worker.pc \in {"register", "open"} /\ worker'.pc \in {"shutdown", "running"}
        /\ \/ UNCHANGED states
           \/ states' = "none"
           \/ worker.pc = "open" /\ worker.reas.useCP
    BY <1>3 DEF HostNameFails, OpenFails, OpenAndStart, Goto, server, RegisterInv, WorkerShape, RpcShape
  <2>. QED
    BY <2>1, WorkerMovesOn
<1>4. CASE ReadersEnd \/ StopThreads \/ InterruptWorker
  <2>1. /\ RpcShape' /\ UNCHANGED <<sessions, states>> /\ WorkerShape'
        /\ worker'.uri = worker.uri
        /\ worker.pc \in {"running", "stop"} /\ worker'.pc \in {"running", "shutdown", "join"}
    BY <1>4 DEF ReadersEnd, StopThreads, InterruptWorker, Goto, server, RegisterInv, WorkerShape,
         RpcShape
  <2>. QED
    BY <2>1, WorkerMovesOn
<1>5. CASE CallDeregister
  <2>1. /\ RpcShape' /\ UNCHANGED <<sessions, states>> /\ WorkerShape'
        /\ worker'.uri = worker.uri /\ worker.pc = "shutdown"
        /\ worker'.pc \in {"stop", "deregistering"}
    BY <1>5 DEF CallDeregister, Goto, Try, server, RegisterInv, WorkerShape, RpcShape, Clients
  <2>. QED
    BY <2>1, WorkerMovesOn
<1>6. CASE DeregisterReturns
  <2>1. /\ RpcShape' /\ UNCHANGED <<sessions, states>> /\ WorkerShape'
        /\ worker'.uri = worker.uri /\ worker.pc = "deregistering" /\ worker'.pc = "stop"
    BY <1>6 DEF DeregisterReturns, Hangup, Goto, server, RegisterInv, WorkerShape, RpcShape, Clients
  <2>. QED
    BY <2>1, WorkerMovesOn
<1>7. CASE WorkerJoins \/ KillWorker
  BY <1>7 DEF WorkerJoins, KillWorker, Dead, WorkerOff, server, RegisterInv, WorkerShape,
       SessionShape, RpcShape
<1>. QED
  BY <1>1, <1>2, <1>3, <1>4, <1>5, <1>6, <1>7 DEF WorkerSteps

LEMMA StateThreadRegister ==
  ASSUME RegisterInv, StateThreadNext
  PROVE  RegisterInv'
<1>1. /\ RpcShape' /\ rpc'["worker"] = rpc["worker"] /\ UNCHANGED <<worker, sessions>>
      /\ states' \in {"loop", "sending"} => states \in {"loop", "sending"}
  BY DEF StateThreadNext, CallSendState, SendStateReturns, StateThreadEnds, Try, Hangup, server,
       RegisterInv, RpcShape, Clients
<1>2. Registered(worker.uri) => Registered(worker.uri)'
  BY <1>1 DEF Registered, Recorded
<1>3. RegisterCall => RegisterCall'
  BY <1>1 DEF RegisterCall, Recorded
<1>. QED
  BY <1>1, <1>2, <1>3 DEF RegisterInv, WorkerShape, SessionShape

LEMMA RegisterInductive == RegisterInv /\ [Next]_vars => RegisterInv'
<1>. SUFFICES ASSUME RegisterInv, [Next]_vars PROVE RegisterInv'
  OBVIOUS
<1>1. CASE ServerNext
  BY <1>1, ServerKeepsSessions, ServerRegisterCall, RegisterFrame DEF RegisterInv
<1>2. CASE LbadmNext \/ SenderNext
  <2>1. /\ RpcShape' /\ rpc'["worker"] = rpc["worker"]
        /\ UNCHANGED <<worker, states, sessions>>
    BY <1>2, OthersKeepWorker DEF RegisterInv
  <2>2. SessionShape' /\ SessionsKept
    BY <2>1 DEF RegisterInv, SessionShape, SessionsKept
  <2>. QED
    BY <2>1, <2>2, RegisterFrame, RegisterCallKept DEF RegisterInv
<1>3. CASE \E run \in WorkerRuns : LaunchWorker(run)
  BY <1>3, LaunchRegister
<1>4. CASE WorkerSteps \/ InterruptWorker \/ KillWorker
  BY <1>4, WorkerStepRegister
<1>5. CASE StateThreadNext
  BY <1>5, StateThreadRegister
<1>6. CASE UNCHANGED vars
  BY <1>6 DEF vars, RegisterInv, WorkerShape, SessionShape, RpcShape, RegisterCall, Registered,
       Recorded
<1>. QED
  BY <1>1, <1>2, <1>3, <1>4, <1>5, <1>6 DEF Next, WorkerNext

LEMMA InitRegister == Init => RegisterInv
  BY DEF Init, RegisterInv, WorkerShape, WorkerOff, SessionShape, NoSession, RpcShape,
       Launched, Started

(* The send-state thread runs only in a worker that is registered: in no     *)
(* interleaving of expiries, lost calls, kills and other tools' commands does *)
(* openAndStart() start it before registerWorker() has succeeded.            *)
THEOREM StateThreadRegistered == Spec => []StateAfterRegister
<1>1. Init => RegisterInv
  BY InitRegister
<1>2. RegisterInv => StateAfterRegister
  BY DEF RegisterInv, Registered, Recorded, StateAfterRegister
<1>. QED
  BY <1>1, <1>2, RegisterInductive, PTL DEF Spec

-----------------------------------------------------------------------------
(* Types *)

SenderShape ==
  sender = [pc |-> sender.pc, uri |-> sender.uri, run |-> sender.run, flags |-> sender.flags,
            seg |-> sender.seg, sent |-> sender.sent, interrupted |-> sender.interrupted,
            exit |-> sender.exit]
LbShape ==
  /\ DOMAIN lbs = LbIds
  /\ \A l \in LbIds : lbs[l] = [state |-> lbs[l].state, until |-> lbs[l].until,
                              admitted |-> lbs[l].admitted, byLbadm |-> lbs[l].byLbadm,
                              addrs |-> lbs[l].addrs]

(* Only addresses are asked to be admitted. *)
RequestTyped(req) ==
  /\ req.op = "Reserve" => req.arg.senders \subseteq Addr
  /\ req.op = "AddSenders" => req.arg \subseteq Addr
RpcTyped ==
  /\ RpcShape
  /\ \A c \in Clients : /\ rpc[c].phase \in {"idle", "sent", "done"}
                        /\ rpc[c].phase = "sent" => RequestTyped(rpc[c].req)

LEMMA TryTyped ==
  ASSUME RpcTyped, NEW c \in Clients, NEW op, NEW u, NEW req, Try(c, op, u, req), RequestTyped(req)
  PROVE  RpcTyped'
  BY DEF RpcTyped, RpcShape, Try

LEMMA AnswerTyped ==
  ASSUME RpcTyped, NEW c \in Clients, Hangup(c) \/ Fail(c) \/ (\E rep : Reply(c, rep))
  PROVE  RpcTyped'
  BY DEF RpcTyped, RpcShape, Hangup, Fail, Reply, Idle

LEMMA CallsTyped ==
  ASSUME NEW u, NEW x, NEW y, NEW z, NEW w
  PROVE  /\ RequestTyped(RegisterSelf(x, u, y))
         /\ RequestTyped(DeregisterWorker(u))
         /\ RequestTyped(SendState(u, x))
         /\ RequestTyped(AddSenders(u, x)) /\ RequestTyped(AddSenderSelf(u, x))
         /\ RequestTyped(RemoveSenders(u, x)) /\ RequestTyped(RemoveSenderSelf(u, x))
         /\ RequestTyped(ReserveLB(u, x, y, z, w))
  BY DEF RequestTyped, RegisterSelf, RegisterWorker, DeregisterWorker, SendState, AddSenders,
       AddSenderSelf, RemoveSenders, RemoveSenderSelf, ReserveLB, ReserveUntil, Rpc, Early, NoToken

LEMMA CommandTyped ==
  ASSUME NEW name \in Commands, NEW u, NEW lbid, NEW ch
  PROVE  RequestTyped(CommandRequest(name, u, lbid, ch))
<1>. DEFINE req == CommandRequest(name, u, lbid, ch)
<1>1. CASE name \in {"reserve", "addsenders", "removesenders", "deregister", "state"}
  BY <1>1, CallsTyped DEF CommandRequest
<1>2. CASE name = "register"
  BY <1>2 DEF CommandRequest, RegisterWorkerSelf, RegisterWorker, Rpc, Early, NoToken, RequestTyped
<1>3. CASE name \in {"free", "status", "overview", "version", "timeseries"}
  BY <1>3 DEF CommandRequest, FreeLB, FreeOwnLB, GetLBStatus, Overview, Version, Timeseries, Rpc,
       Early, NoToken, RequestTyped
<1>4. CASE name \in {"createtoken", "listtokenpermissions", "listchildtokens", "revoketoken"}
  BY <1>4 DEF CommandRequest, CreateToken, ListTokenPermissions, ListChildTokens, RevokeToken,
       Rpc, Early, NoToken, RequestTyped
<1>. QED
  BY <1>1, <1>2, <1>3, <1>4 DEF Commands, AdminCommands, InstanceCommands, SessionCommands

(* A process that a step leaves alone keeps its type. *)
ToolsTyped ==
  /\ env.kind \in {"admin", "instance", "registered", "session"}
  /\ cmd.name \in Commands \cup {"none"}
  /\ worker.pc \in {"off", "register", "registering", "open", "running", "shutdown",
                    "deregistering", "stop", "join", "exited", "killed"}
  /\ states \in {"none", "loop", "sending", "ended"}
  /\ sender.pc \in {"off", "add", "adding", "build", "open", "sending", "stop",
                    "remove", "removing", "end", "exited"}
  /\ WorkerShape /\ SenderShape
LbsTyped ==
  /\ LbShape
  /\ \A l \in LbIds : lbs[l].state \in {"free", "reserved", "gone"} /\ lbs[l].admitted \subseteq Addr
SessionsTyped ==
  /\ SessionShape
  /\ \A s \in Sids : /\ sessions[s].state \in {"none", "new", "ready", "closed"}
                    /\ sessions[s].lb \in LbIds \cup {<<>>}

(* TypeOK is not inductive: what is admitted is what was asked for. *)
TypeInv == ToolsTyped /\ LbsTyped /\ SessionsTyped /\ RpcTyped

LEMMA ReleaseTyped ==
  ASSUME NEW l, LbsTyped, SessionsTyped, Release(l)
  PROVE  LbsTyped' /\ SessionsTyped'
<1>1. LbsTyped'
  <2>1. /\ DOMAIN lbs' = LbIds
        /\ \A k \in LbIds : IF k = l THEN lbs'[k] = [lbs[k] EXCEPT !.state = "gone", !.admitted = {}]
                           ELSE lbs'[k] = lbs[k]
    BY DEF Release, LbsTyped, LbShape
  <2>2. \A k \in LbIds : k = l => lbs'[k] = [state |-> "gone", until |-> lbs[k].until,
                                          admitted |-> {}, byLbadm |-> lbs[k].byLbadm,
                                          addrs |-> lbs[k].addrs]
    BY <2>1 DEF LbsTyped, LbShape
  <2>. QED
    BY <2>1, <2>2 DEF LbsTyped, LbShape
<1>2. SessionsTyped'
  BY DEF Release, Close, SessionsTyped, SessionShape
<1>. QED
  BY <1>1, <1>2

LEMMA EndSessionTyped ==
  ASSUME NEW s \in Sids, SessionsTyped, EndSession(s)
  PROVE  SessionsTyped'
  BY DEF EndSession, Close, SessionsTyped, SessionShape

LEMMA ServerTyped ==
  ASSUME TypeInv, ServerNext
  PROVE  TypeInv'
<1>0. SUFFICES LbsTyped' /\ SessionsTyped' /\ RpcTyped'
  <2>1. UNCHANGED <<env, cmd, worker, states, sender>>
    BY DEF ServerNext, Serve, ServeReserve, ServeFree, ServeRegister, ServeDeregister, ServeState,
         ServeSenders, ServeQuery, Refuse, Lose, ReservationEnds, SessionExpires
  <2>. QED
    BY <2>1 DEF TypeInv, ToolsTyped, WorkerShape, SenderShape
<1>. USE DEF TypeInv
<1>1. ASSUME NEW c \in Clients, ServeReserve(c)
      PROVE  LbsTyped' /\ SessionsTyped' /\ RpcTyped'
  <2>1. rpc[c].req.arg.senders \subseteq Addr
    BY <1>1 DEF ServeReserve, Asked, Granted, RpcTyped, RequestTyped
  <2>2. LbsTyped' /\ UNCHANGED sessions
    BY <1>1, <2>1 DEF ServeReserve, LbsTyped, LbShape
  <2>3. RpcTyped'
    BY <1>1, AnswerTyped DEF ServeReserve
  <2>. QED
    BY <2>2, <2>3 DEF SessionsTyped, SessionShape
<1>2. ASSUME NEW c \in Clients, ServeFree(c)
      PROVE  LbsTyped' /\ SessionsTyped' /\ RpcTyped'
  BY <1>2, ReleaseTyped, AnswerTyped DEF ServeFree
<1>3. ASSUME NEW c \in Clients, ServeRegister(c)
      PROVE  LbsTyped' /\ SessionsTyped' /\ RpcTyped'
  <2>1. rpc[c].req.lb \in LbIds \cup {<<>>}
    BY <1>3 DEF ServeRegister, Asked, Granted, Able
  <2>2. SessionsTyped' /\ UNCHANGED lbs
    BY <1>3, <2>1 DEF ServeRegister, SessionsTyped, SessionShape
  <2>3. RpcTyped'
    BY <1>3, AnswerTyped DEF ServeRegister
  <2>. QED
    BY <2>2, <2>3 DEF LbsTyped, LbShape
<1>4. ASSUME NEW c \in Clients, ServeDeregister(c)
      PROVE  LbsTyped' /\ SessionsTyped' /\ RpcTyped'
  <2>1. rpc[c].req.sid \in Sids /\ UNCHANGED lbs
    BY <1>4 DEF ServeDeregister, Asked, Granted, Able
  <2>. QED
    BY <1>4, <2>1, EndSessionTyped, AnswerTyped DEF ServeDeregister, LbsTyped, LbShape
<1>5. ASSUME NEW c \in Clients, ServeState(c)
      PROVE  LbsTyped' /\ SessionsTyped' /\ RpcTyped'
  <2>1. RpcTyped' /\ UNCHANGED lbs
    BY <1>5, AnswerTyped DEF ServeState
  <2>. QED
    BY <1>5, <2>1 DEF ServeState, SessionsTyped, SessionShape, LbsTyped, LbShape
<1>6. ASSUME NEW c \in Clients, ServeSenders(c)
      PROVE  LbsTyped' /\ SessionsTyped' /\ RpcTyped'
  <2>1. RpcTyped' /\ UNCHANGED sessions
    BY <1>6, AnswerTyped DEF ServeSenders
  <2>2. rpc[c].req.op = "AddSenders" => rpc[c].req.arg \subseteq Addr
    BY <1>6 DEF ServeSenders, Asked, Granted, RpcTyped, RequestTyped
  <2>3. LbsTyped'
    <3>. DEFINE r == rpc[c].req
                A == IF r.op = "AddSenders" THEN lbs[r.lb].admitted \cup r.arg
                     ELSE lbs[r.lb].admitted \ r.arg
                B == IF c = "lbadm" THEN lbs[r.lb].byLbadm \cup r.arg
                     ELSE lbs[r.lb].byLbadm \ r.arg
    <3>1. lbs' = [lbs EXCEPT ![r.lb].admitted = A, ![r.lb].byLbadm = B]
      BY <1>6 DEF ServeSenders
    <3>2. r.lb \in LbIds => A \subseteq Addr
      BY <2>2 DEF LbsTyped
    <3>. HIDE DEF r, A, B
    <3>3. /\ DOMAIN lbs' = LbIds
          /\ \A k \in LbIds :
                lbs'[k] = IF k = r.lb THEN [lbs[k] EXCEPT !.admitted = A, !.byLbadm = B] ELSE lbs[k]
      BY <3>1 DEF LbsTyped, LbShape
    <3>4. \A k \in LbIds : k = r.lb => lbs'[k] = [state |-> lbs[k].state, until |-> lbs[k].until,
                                              admitted |-> A, byLbadm |-> B,
                                              addrs |-> lbs[k].addrs]
      BY <3>3 DEF LbsTyped, LbShape
    <3>. QED
      BY <3>2, <3>3, <3>4 DEF LbsTyped, LbShape
  <2>. QED
    BY <2>1, <2>3 DEF SessionsTyped, SessionShape
<1>7. ASSUME NEW c \in Clients, ServeQuery(c) \/ Refuse(c) \/ Lose(c)
      PROVE  LbsTyped' /\ SessionsTyped' /\ RpcTyped'
  <2>1. RpcTyped' /\ UNCHANGED <<lbs, sessions>>
    BY <1>7, AnswerTyped DEF ServeQuery, Refuse, Lose, server
  <2>. QED
    BY <2>1 DEF SessionsTyped, SessionShape, LbsTyped, LbShape
<1>8. ASSUME NEW l \in LbIds, ReservationEnds(l)
      PROVE  LbsTyped' /\ SessionsTyped' /\ RpcTyped'
  BY <1>8, ReleaseTyped DEF ReservationEnds, RpcTyped, RpcShape
<1>9. ASSUME NEW s \in Sids, SessionExpires(s)
      PROVE  LbsTyped' /\ SessionsTyped' /\ RpcTyped'
  BY <1>9, EndSessionTyped DEF SessionExpires, RpcTyped, RpcShape, LbsTyped, LbShape
<1>. QED
  BY <1>1, <1>2, <1>3, <1>4, <1>5, <1>6, <1>7, <1>8, <1>9 DEF ServerNext, Serve

LEMMA LbadmTyped ==
  ASSUME TypeInv, LbadmNext
  PROVE  TypeInv'
<1>1. UNCHANGED <<lbs, sessions, worker, states, sender>>
  BY DEF LbadmNext, RunCommand, CommandFails, CommandSucceeds, ReserveSucceeds, RegisterSucceeds,
       server
<1>2. RpcTyped'
  <2>1. ASSUME NEW name \in Commands, RunCommand(name) PROVE RpcTyped'
    <3>1. CASE UNCHANGED rpc
      BY <3>1 DEF TypeInv, RpcTyped, RpcShape
    <3>2. CASE ~UNCHANGED rpc
      <4>1. PICK u, lbid, ch : Try("lbadm", name, u, CommandRequest(name, u, lbid, ch))
        BY <2>1, <3>2 DEF RunCommand
      <4>. QED
        BY <4>1, CommandTyped, TryTyped DEF TypeInv, Clients
    <3>. QED
      BY <3>1, <3>2
  <2>2. ASSUME CommandFails \/ CommandSucceeds \/ ReserveSucceeds \/ RegisterSucceeds
        PROVE  RpcTyped'
    BY <2>2, AnswerTyped DEF TypeInv, CommandFails, CommandSucceeds, ReserveSucceeds,
         RegisterSucceeds, Clients
  <2>. QED
    BY <2>1, <2>2 DEF LbadmNext
<1>3. cmd'.name \in Commands \cup {"none"}
  <2>1. ASSUME NEW name \in Commands, RunCommand(name) PROVE cmd'.name \in Commands \cup {"none"}
    <3>1. cmd' = cmd \/ \E u : cmd' = [name |-> name, uri |-> u]
      BY <2>1, Zenon DEF RunCommand
    <3>. QED
      BY <3>1 DEF TypeInv, ToolsTyped
  <2>2. CASE CommandFails \/ CommandSucceeds \/ ReserveSucceeds \/ RegisterSucceeds
    BY <2>2 DEF CommandFails, CommandSucceeds, ReserveSucceeds, RegisterSucceeds, NoCommand
  <2>. QED
    BY <2>1, <2>2 DEF LbadmNext
<1>4. env'.kind \in {"admin", "instance", "registered", "session"}
  <2>1. CASE UNCHANGED env
    BY <2>1 DEF TypeInv, ToolsTyped
  <2>2. CASE ReserveSucceeds
    <3>1. \E t : env' = [kind |-> "instance", text |-> t]
      BY <2>2 DEF ReserveSucceeds
    <3>. QED
      BY <3>1
  <2>3. CASE RegisterSucceeds
    <3>1. \E t : env' \in {[kind |-> "registered", text |-> t], [kind |-> "session", text |-> t]}
      BY <2>3 DEF RegisterSucceeds
    <3>. QED
      BY <3>1
  <2>. QED
    BY <2>1, <2>2, <2>3 DEF LbadmNext, RunCommand, CommandFails, CommandSucceeds
<1>. QED
  BY <1>1, <1>2, <1>3, <1>4 DEF TypeInv, ToolsTyped, WorkerShape, SenderShape, LbsTyped, LbShape,
     SessionsTyped, SessionShape

LEMMA WorkerTyped ==
  ASSUME TypeInv, WorkerNext \/ StateThreadNext
  PROVE  TypeInv'
<1>1. UNCHANGED <<lbs, sessions, env, cmd, sender>>
  BY DEF WorkerNext, WorkerSteps, StateThreadNext, LaunchWorker, InterruptWorker, KillWorker,
       HostNameFails, CallRegister, RegisterReturns, OpenFails, OpenAndStart, ReadersEnd,
       CallDeregister, DeregisterReturns, StopThreads, WorkerJoins, CallSendState,
       SendStateReturns, StateThreadEnds, server
<1>2. RpcTyped'
  <2>1. CASE UNCHANGED rpc
    BY <2>1 DEF TypeInv, RpcTyped, RpcShape
  <2>2. CASE RegisterReturns \/ DeregisterReturns \/ SendStateReturns
    BY <2>2, AnswerTyped DEF TypeInv, RegisterReturns, DeregisterReturns, SendStateReturns, Clients
  <2>3. CASE CallRegister
    BY <2>1, <2>3, CallsTyped, TryTyped DEF TypeInv, CallRegister, Clients
  <2>4. CASE CallDeregister
    BY <2>1, <2>4, CallsTyped, TryTyped DEF TypeInv, CallDeregister, Clients
  <2>5. CASE CallSendState
    BY <2>5, CallsTyped, TryTyped DEF TypeInv, CallSendState, Clients
  <2>. QED
    BY <2>1, <2>2, <2>3, <2>4, <2>5 DEF WorkerNext, WorkerSteps, StateThreadNext, LaunchWorker,
       InterruptWorker, KillWorker, HostNameFails, OpenFails, OpenAndStart, ReadersEnd, StopThreads,
       WorkerJoins, StateThreadEnds
<1>. DEFINE Pcs == {"off", "register", "registering", "open", "running", "shutdown",
                    "deregistering", "stop", "join", "exited", "killed"}
<1>3. WorkerShape' /\ worker'.pc \in Pcs
  <2>1. CASE UNCHANGED worker
    BY <2>1 DEF TypeInv, ToolsTyped, WorkerShape
  <2>2. ASSUME NEW run \in WorkerRuns, LaunchWorker(run) PROVE WorkerShape' /\ worker'.pc \in Pcs
    <3>1. \/ \E code : worker' = Dead("exited", code)
          \/ \E u, r : worker' = [WorkerOff EXCEPT !.pc = "register", !.uri = u,
                                                !.run = run, !.reas = r]
      BY <2>2, Zenon DEF LaunchWorker
    <3>. QED
      BY <3>1 DEF Dead, WorkerOff, WorkerShape
  <2>3. CASE CallRegister \/ CallDeregister
    BY <2>3 DEF CallRegister, CallDeregister, Goto, TypeInv, ToolsTyped, WorkerShape
  <2>4. CASE RegisterReturns \/ DeregisterReturns
    BY <2>4 DEF RegisterReturns, DeregisterReturns, Goto, TypeInv, ToolsTyped, WorkerShape
  <2>5. CASE HostNameFails \/ OpenFails \/ OpenAndStart \/ ReadersEnd
    BY <2>5 DEF HostNameFails, OpenFails, OpenAndStart, ReadersEnd, Goto, TypeInv, ToolsTyped,
         WorkerShape
  <2>6. CASE StopThreads \/ InterruptWorker
    BY <2>6 DEF StopThreads, InterruptWorker, TypeInv, ToolsTyped, WorkerShape
  <2>7. CASE WorkerJoins \/ KillWorker
    BY <2>7 DEF WorkerJoins, KillWorker, Dead, WorkerOff, WorkerShape
  <2>. QED
    BY <2>1, <2>2, <2>3, <2>4, <2>5, <2>6, <2>7 DEF WorkerNext, WorkerSteps, StateThreadNext,
       CallSendState, SendStateReturns, StateThreadEnds
<1>4. states' \in {"none", "loop", "sending", "ended"}
  BY DEF TypeInv, ToolsTyped, WorkerNext, WorkerSteps, StateThreadNext, LaunchWorker,
       InterruptWorker, KillWorker, HostNameFails, CallRegister, RegisterReturns, OpenFails,
       OpenAndStart, ReadersEnd, CallDeregister, DeregisterReturns, StopThreads, WorkerJoins,
       CallSendState, SendStateReturns, StateThreadEnds
<1>. QED
  BY <1>1, <1>2, <1>3, <1>4 DEF TypeInv, ToolsTyped, SenderShape, LbsTyped, LbShape,
     SessionsTyped, SessionShape

LEMMA SenderTyped ==
  ASSUME TypeInv, SenderNext
  PROVE  TypeInv'
<1>1. UNCHANGED <<lbs, sessions, env, cmd, worker, states>>
  BY DEF SenderNext, SenderSteps, LaunchSender, InterruptSender, AllSent, CallAddSenders,
       AddSendersReturns, BuildSegmenter, OpenSegmenter, OpenSegmenterFails, SendingEnds,
       StopSegmenter, CallRemoveSenders, RemoveSendersReturns, SenderExits, server
<1>2. RpcTyped'
  <2>1. CASE UNCHANGED rpc
    BY <2>1 DEF TypeInv, RpcTyped, RpcShape
  <2>2. CASE AddSendersReturns \/ RemoveSendersReturns
    BY <2>2, AnswerTyped DEF TypeInv, AddSendersReturns, RemoveSendersReturns, Clients
  <2>3. CASE CallAddSenders
    BY <2>3, CallsTyped, TryTyped DEF TypeInv, CallAddSenders, Clients
  <2>4. CASE CallRemoveSenders
    BY <2>1, <2>4, CallsTyped, TryTyped DEF TypeInv, CallRemoveSenders, Clients
  <2>. QED
    BY <2>1, <2>2, <2>3, <2>4 DEF SenderNext, SenderSteps, LaunchSender, InterruptSender, AllSent,
       BuildSegmenter, OpenSegmenter, OpenSegmenterFails, SendingEnds, StopSegmenter, SenderExits
<1>. DEFINE Pcs == {"off", "add", "adding", "build", "open", "sending", "stop", "remove",
                    "removing", "end", "exited"}
<1>3. SenderShape' /\ sender'.pc \in Pcs
  <2>1. ASSUME NEW run \in SenderRuns, LaunchSender(run) PROVE SenderShape' /\ sender'.pc \in Pcs
    <3>1. \/ \E code : sender' = SDead(code)
          \/ \E u, flags : sender' = [SenderOff EXCEPT !.pc = IF flags.useCP THEN "add" ELSE "build",
                                                   !.uri = u, !.run = run, !.flags = flags]
      BY <2>1, Zenon DEF LaunchSender
    <3>2. \/ \E code : sender' = SDead(code)
          \/ \E pc \in {"add", "build"} : \E u, flags :
               sender' = [SenderOff EXCEPT !.pc = pc, !.uri = u, !.run = run, !.flags = flags]
      BY <3>1
    <3>. QED
      BY <3>2 DEF SenderShape, SDead, SenderOff
  <2>. USE DEF SDead, SenderOff, SGoto
  <2>2. CASE CallAddSenders \/ AddSendersReturns \/ BuildSegmenter
    BY <2>2 DEF CallAddSenders, AddSendersReturns, BuildSegmenter, TypeInv, ToolsTyped, SenderShape
  <2>3. CASE OpenSegmenter \/ OpenSegmenterFails \/ SendingEnds \/ StopSegmenter
    BY <2>3 DEF OpenSegmenter, OpenSegmenterFails, SendingEnds, StopSegmenter, TypeInv, ToolsTyped,
       SenderShape
  <2>4. CASE CallRemoveSenders \/ RemoveSendersReturns \/ SenderExits
    BY <2>4 DEF CallRemoveSenders, RemoveSendersReturns, SenderExits, TypeInv, ToolsTyped,
       SenderShape
  <2>5. CASE InterruptSender \/ AllSent
    BY <2>5 DEF InterruptSender, AllSent, TypeInv, ToolsTyped, SenderShape
  <2>. QED
    BY <2>1, <2>2, <2>3, <2>4, <2>5 DEF SenderNext, SenderSteps
<1>. QED
  BY <1>1, <1>2, <1>3 DEF TypeInv, ToolsTyped, WorkerShape, LbsTyped, LbShape, SessionsTyped,
     SessionShape

LEMMA TypeInductive == TypeInv /\ [Next]_vars => TypeInv'
<1>1. TypeInv /\ UNCHANGED vars => TypeInv'
  BY DEF vars, TypeInv, ToolsTyped, WorkerShape, SenderShape, LbsTyped, LbShape, SessionsTyped,
     SessionShape, RpcTyped, RpcShape
<1>. QED
  BY <1>1, ServerTyped, LbadmTyped, WorkerTyped, SenderTyped DEF Next

LEMMA InitTyped == Init => TypeInv
<1>1. Init => ToolsTyped
  BY DEF Init, ToolsTyped, WorkerShape, WorkerOff, SenderShape, SenderOff, NoCommand
<1>2. Init => LbsTyped
  <2>1. ASSUME Init
        PROVE  /\ DOMAIN lbs = LbIds
               /\ \A l \in LbIds : lbs[l] = [state |-> "free", until |-> 0, admitted |-> {},
                                           byLbadm |-> {}, addrs |-> NoReply]
    BY <2>1 DEF Init
  <2>. QED
    BY <2>1 DEF LbsTyped, LbShape
<1>3. Init => SessionsTyped /\ RpcTyped
  BY DEF Init, SessionsTyped, SessionShape, NoSession, RpcTyped, RpcShape, Idle
<1>. QED
  BY <1>1, <1>2, <1>3 DEF TypeInv

(* The control plane's records and the tools' states keep their types; in    *)
(* particular nothing but addresses is ever admitted as a sender.            *)
THEOREM TypeCorrect == Spec => []TypeOK
<1>1. TypeInv => TypeOK
  BY DEF TypeInv, ToolsTyped, LbsTyped, SessionsTyped, RpcTyped, TypeOK
<1>. QED
  BY InitTyped, <1>1, TypeInductive, PTL DEF Spec

-----------------------------------------------------------------------------
(* A sender that may still emit packets is admitted *)

Own == SenderAddrs(sender.run, sender.uri)

(* The LB has the addresses on its list, but for those lbadm was the last to *)
(* change, or is over for good.                                              *)
Admits(l, A) ==
  /\ l \in LbIds
  /\ \/ lbs[l].state = "gone"
     \/ lbs[l].state = "reserved" /\ A \subseteq lbs[l].admitted \cup lbs[l].byLbadm

(* What the call that admits the sender asks for, and what it brings. *)
AddCall ==
  LET r == rpc["sender"]
  IN /\ r.phase = "sent" => /\ r.req.op = "AddSenders" /\ r.req.arg = Own
                            /\ r.req.lb = sender.uri.lbId /\ r.req.lb # <<>>
     /\ r.phase = "done" /\ r.ok => Admits(sender.uri.lbId, Own)

(* Nobody but lbadm and the sender admits or removes an address: the sender *)
(* admits its own first of all, and removes it once its segmenter is stopped. *)
SendersCall(c, req) ==
  /\ req.op = "RemoveSenders" =>
        \/ c = "lbadm"
        \/ c = "sender" /\ sender.pc = "removing"
  /\ req.op = "AddSenders" =>
        \/ c = "lbadm"
        \/ c = "sender" /\ sender.pc = "adding"
SendersCalls == \A c \in Clients : rpc[c].phase = "sent" => SendersCall(c, rpc[c].req)

AllowInv ==
  /\ sender.seg = "open" => sender.pc \in {"sending", "stop"}
  /\ sender.pc \in {"build", "open", "sending", "stop"} /\ sender.flags.useCP =>
        Admits(sender.uri.lbId, Own)
  /\ sender.pc = "adding" => AddCall
  /\ SendersCalls

LEMMA ReleaseAdmits ==
  ASSUME LbsTyped, NEW l, NEW A, Admits(l, A), NEW k, Release(k)
  PROVE  Admits(l, A)'
<1>1. /\ k # l => lbs'[l] = lbs[l]
      /\ k = l => lbs'[l] = [lbs[l] EXCEPT !.state = "gone", !.admitted = {}]
  BY DEF Release, Admits, LbsTyped, LbShape
<1>2. k = l => lbs'[l] = [state |-> "gone", until |-> lbs[l].until, admitted |-> {},
                          byLbadm |-> lbs[l].byLbadm, addrs |-> lbs[l].addrs]
  BY <1>1 DEF Admits, LbsTyped, LbShape
<1>. QED
  BY <1>1, <1>2 DEF Admits

LEMMA SendersServed ==
  ASSUME LbsTyped, NEW c \in Clients, ServeSenders(c)
  PROVE  LET r == rpc[c].req
         IN \A l \in LbIds :
              /\ lbs'[l].state = lbs[l].state
              /\ l # r.lb => lbs'[l].admitted = lbs[l].admitted /\ lbs'[l].byLbadm = lbs[l].byLbadm
              /\ l = r.lb =>
                   /\ lbs'[l].admitted = IF r.op = "AddSenders" THEN lbs[l].admitted \cup r.arg
                                         ELSE lbs[l].admitted \ r.arg
                   /\ lbs'[l].byLbadm = IF c = "lbadm" THEN lbs[l].byLbadm \cup r.arg
                                        ELSE lbs[l].byLbadm \ r.arg
<1>. DEFINE r == rpc[c].req
            A == IF r.op = "AddSenders" THEN lbs[r.lb].admitted \cup r.arg
                 ELSE lbs[r.lb].admitted \ r.arg
            B == IF c = "lbadm" THEN lbs[r.lb].byLbadm \cup r.arg
                 ELSE lbs[r.lb].byLbadm \ r.arg
<1>1. lbs' = [lbs EXCEPT ![r.lb].admitted = A, ![r.lb].byLbadm = B]
  BY DEF ServeSenders
<1>2. ASSUME NEW l \in LbIds
      PROVE  /\ lbs'[l].state = lbs[l].state
             /\ l # r.lb => lbs'[l].admitted = lbs[l].admitted /\ lbs'[l].byLbadm = lbs[l].byLbadm
             /\ l = r.lb => lbs'[l].admitted = A /\ lbs'[l].byLbadm = B
  <2>. HIDE DEF r, A, B
  <2>1. lbs'[l] = IF l = r.lb THEN [lbs[l] EXCEPT !.admitted = A, !.byLbadm = B] ELSE lbs[l]
    BY <1>1 DEF LbsTyped, LbShape
  <2>2. lbs[l] = [state |-> lbs[l].state, until |-> lbs[l].until, admitted |-> lbs[l].admitted,
                  byLbadm |-> lbs[l].byLbadm, addrs |-> lbs[l].addrs]
    BY DEF LbsTyped, LbShape
  <2>. QED
    BY <2>1, <2>2
<1>. QED
  BY <1>2

LEMMA AdmitsKept ==
  ASSUME TypeInv, SendersCalls, ServerNext, sender.pc # "removing",
         NEW l, NEW A, Admits(l, A)
  PROVE  Admits(l, A)'
<1>. USE DEF TypeInv
<1>1. ASSUME NEW c \in Clients, ServeReserve(c) PROVE Admits(l, A)'
  BY <1>1 DEF ServeReserve, Admits, LbsTyped, LbShape
<1>2. ASSUME NEW c \in Clients, ServeFree(c) PROVE Admits(l, A)'
  BY <1>2, ReleaseAdmits DEF ServeFree
<1>3. ASSUME NEW k \in LbIds, ReservationEnds(k) PROVE Admits(l, A)'
  BY <1>3, ReleaseAdmits DEF ReservationEnds
<1>4. ASSUME NEW c \in Clients, ServeSenders(c) PROVE Admits(l, A)'
  <2>1. rpc[c].req.op = "RemoveSenders" => c = "lbadm"
    BY <1>4 DEF ServeSenders, Asked, Granted, SendersCalls, SendersCall
  <2>2. rpc[c].req.op \in {"AddSenders", "RemoveSenders"}
    BY <1>4 DEF ServeSenders, Asked
  <2>3. /\ lbs'[l].state = lbs[l].state
        /\ lbs[l].admitted \cup lbs[l].byLbadm \subseteq lbs'[l].admitted \cup lbs'[l].byLbadm
    <3>. DEFINE r == rpc[c].req
                M == lbs[l].admitted
                B == lbs[l].byLbadm
                MM == lbs'[l].admitted
                BB == lbs'[l].byLbadm
    <3>1. /\ l # r.lb => MM = M /\ BB = B
          /\ l = r.lb => /\ MM = IF r.op = "AddSenders" THEN M \cup r.arg ELSE M \ r.arg
                         /\ BB = IF c = "lbadm" THEN B \cup r.arg ELSE B \ r.arg
          /\ lbs'[l].state = lbs[l].state
      BY <1>4, SendersServed DEF Admits
    <3>2. c = "lbadm" \/ r.op = "AddSenders"
      BY <2>1, <2>2
    <3>. HIDE DEF r, M, B, MM, BB
    <3>3. M \cup B \subseteq MM \cup BB
      BY <3>1, <3>2
    <3>. QED
      BY <3>1, <3>3 DEF M, B, MM, BB
  <2>. QED
    BY <2>3 DEF Admits
<1>5. ASSUME NEW c \in Clients,
             \/ ServeRegister(c) \/ ServeDeregister(c) \/ ServeState(c) \/ ServeQuery(c)
             \/ Refuse(c) \/ Lose(c)
      PROVE  Admits(l, A)'
  BY <1>5 DEF ServeRegister, ServeDeregister, ServeState, ServeQuery, Refuse, Lose, server, Admits
<1>6. ASSUME NEW s \in Sids, SessionExpires(s) PROVE Admits(l, A)'
  BY <1>6 DEF SessionExpires, Admits
<1>. QED
  BY <1>1, <1>2, <1>3, <1>4, <1>5, <1>6 DEF ServerNext, Serve

(* A call that keeps to that, and an answer, leave these calls as they are. *)
LEMMA TryCalls ==
  ASSUME RpcTyped, SendersCalls, NEW c \in Clients, NEW op, NEW u, NEW req,
         Try(c, op, u, req), SendersCall(c, req), UNCHANGED sender
  PROVE  SendersCalls'
  BY DEF RpcTyped, RpcShape, SendersCalls, SendersCall, Try

LEMMA AnswerCalls ==
  ASSUME RpcTyped, SendersCalls, NEW c \in Clients, UNCHANGED sender,
         Hangup(c) \/ Fail(c) \/ (\E rep : Reply(c, rep))
  PROVE  SendersCalls'
  BY DEF RpcTyped, RpcShape, SendersCalls, SendersCall, Hangup, Fail, Reply, Idle

LEMMA WorkerCalls ==
  ASSUME TypeInv, SendersCalls, WorkerNext \/ StateThreadNext
  PROVE  SendersCalls' /\ UNCHANGED <<lbs, sender>> /\ rpc'["sender"] = rpc["sender"]
<1>. USE DEF TypeInv
<1>1. UNCHANGED <<lbs, sender>>
  BY DEF WorkerNext, WorkerSteps, StateThreadNext, LaunchWorker, InterruptWorker, KillWorker,
       HostNameFails, CallRegister, RegisterReturns, OpenFails, OpenAndStart, ReadersEnd,
       CallDeregister, DeregisterReturns, StopThreads, WorkerJoins, CallSendState,
       SendStateReturns, StateThreadEnds, server
<1>2. CASE UNCHANGED rpc
  BY <1>1, <1>2 DEF SendersCalls, SendersCall
<1>3. CASE RegisterReturns \/ DeregisterReturns \/ SendStateReturns
  <2>1. Hangup("worker") \/ Hangup("state")
    BY <1>3 DEF RegisterReturns, DeregisterReturns, SendStateReturns
  <2>. QED
    BY <1>1, <2>1, AnswerCalls, OtherCalls DEF Clients, RpcTyped
<1>4. CASE ~UNCHANGED rpc /\ (CallRegister \/ CallDeregister \/ CallSendState)
  <2>1. PICK c \in {"worker", "state"} : \E op, u, req :
           /\ Try(c, op, u, req)
           /\ \/ req = RegisterSelf(worker.reas, worker.uri, <<"host">>)
              \/ req = DeregisterWorker(worker.uri)
              \/ req = SendState(worker.uri, 10)
    BY <1>4 DEF CallRegister, CallDeregister, CallSendState
  <2>2. \E op, u, req : Try(c, op, u, req) /\ SendersCall(c, req)
    BY <2>1 DEF SendersCall, RegisterSelf, RegisterWorker, DeregisterWorker, SendState, Rpc, Early,
         NoToken
  <2>. QED
    BY <1>1, <2>2, TryCalls, OtherCalls DEF Clients, RpcTyped
<1>. QED
  BY <1>1, <1>2, <1>3, <1>4 DEF WorkerNext, WorkerSteps, StateThreadNext, LaunchWorker,
     InterruptWorker, KillWorker, HostNameFails, OpenFails, OpenAndStart, ReadersEnd, StopThreads,
     WorkerJoins, StateThreadEnds

LEMMA LbadmCalls ==
  ASSUME TypeInv, SendersCalls, LbadmNext
  PROVE  SendersCalls' /\ UNCHANGED <<lbs, sender>> /\ rpc'["sender"] = rpc["sender"]
<1>. USE DEF TypeInv
<1>1. UNCHANGED <<lbs, sender>>
  BY DEF LbadmNext, RunCommand, CommandFails, CommandSucceeds, ReserveSucceeds, RegisterSucceeds,
       server
<1>2. CASE UNCHANGED rpc
  BY <1>1, <1>2 DEF SendersCalls, SendersCall
<1>3. ASSUME NEW name \in Commands, RunCommand(name), ~UNCHANGED rpc
      PROVE  SendersCalls' /\ rpc'["sender"] = rpc["sender"]
  <2>1. PICK op, u, req : Try("lbadm", op, u, req)
    BY <1>3 DEF RunCommand
  <2>2. SendersCall("lbadm", req)
    BY DEF SendersCall
  <2>. QED
    BY <1>1, <2>1, <2>2, TryCalls, OtherCalls DEF Clients, RpcTyped
<1>4. ASSUME CommandFails \/ CommandSucceeds \/ ReserveSucceeds \/ RegisterSucceeds
      PROVE  SendersCalls' /\ rpc'["sender"] = rpc["sender"]
  <2>1. Hangup("lbadm")
    BY <1>4 DEF CommandFails, CommandSucceeds, ReserveSucceeds, RegisterSucceeds
  <2>. QED
    BY <1>1, <2>1, AnswerCalls, OtherCalls DEF Clients, RpcTyped
<1>. QED
  BY <1>1, <1>2, <1>3, <1>4 DEF LbadmNext

LEMMA AllowFrame ==
  ASSUME AllowInv, SendersCalls', UNCHANGED <<lbs, sender>>, rpc'["sender"] = rpc["sender"]
  PROVE  AllowInv'
  BY DEF AllowInv, Admits, Own, AddCall

LEMMA AdditionServed ==
  ASSUME TypeInv, AddCall, ServeSenders("sender"), UNCHANGED sender
  PROVE  AddCall'
<1>. DEFINE r == rpc["sender"].req
<1>1. /\ r.op = "AddSenders" /\ r.arg = Own /\ r.lb = sender.uri.lbId
      /\ r.lb \in LbIds /\ lbs[r.lb].state = "reserved"
  BY DEF ServeSenders, Asked, Granted, Able, AddCall
<1>2. /\ lbs'[r.lb].state = lbs[r.lb].state
      /\ lbs'[r.lb].admitted = lbs[r.lb].admitted \cup r.arg
  BY <1>1, SendersServed DEF TypeInv, Clients
<1>3. Admits(sender.uri.lbId, Own)'
  <2>. HIDE DEF r
  <2>. QED
    BY <1>1, <1>2 DEF Admits, Own
<1>4. rpc'["sender"].phase = "done"
  BY DEF ServeSenders, Reply, TypeInv, RpcTyped, RpcShape, Clients
<1>. QED
  BY <1>3, <1>4 DEF AddCall

LEMMA ServerAllows ==
  ASSUME TypeInv, AllowInv, ServerNext
  PROVE  AllowInv'
<1>1. UNCHANGED sender
  BY DEF ServerNext, Serve, ServeReserve, ServeFree, ServeRegister, ServeDeregister, ServeState,
       ServeSenders, ServeQuery, Refuse, Lose, ReservationEnds, SessionExpires
<1>2. ASSUME NEW c \in Clients, Serve(c) PROVE Fail(c) \/ (\E rep : Reply(c, rep))
  BY <1>2 DEF Serve, ServeReserve, ServeFree, ServeRegister, ServeDeregister, ServeState,
       ServeSenders, ServeQuery, Refuse, Lose
<1>3. ASSUME ~(\E c \in Clients : Serve(c)) PROVE UNCHANGED rpc
  BY <1>3 DEF ServerNext, ReservationEnds, SessionExpires
<1>4. SendersCalls'
  <2>1. CASE \E c \in Clients : Serve(c)
    BY <1>1, <1>2, <2>1, AnswerCalls DEF AllowInv, TypeInv
  <2>2. CASE UNCHANGED rpc
    BY <1>1, <2>2 DEF AllowInv, SendersCalls, SendersCall
  <2>. QED
    BY <1>3, <2>1, <2>2
<1>5. ASSUME Admits(sender.uri.lbId, Own), sender.pc # "removing"
      PROVE  Admits(sender.uri.lbId, Own)'
  BY <1>1, <1>5, AdmitsKept DEF AllowInv, Own
<1>6. ASSUME sender.pc = "adding" PROVE AddCall'
  <2>1. AddCall
    BY <1>6 DEF AllowInv
  <2>2. CASE rpc'["sender"] = rpc["sender"]
    BY <1>1, <1>5, <1>6, <2>1, <2>2 DEF AddCall, Own
  <2>3. CASE ServeSenders("sender")
    BY <1>1, <2>1, <2>3, AdditionServed
  <2>4. CASE Refuse("sender") \/ Lose("sender")
    BY <2>4 DEF Refuse, Lose, Fail, AddCall, TypeInv, RpcTyped, RpcShape, Clients
  <2>5. CASE \/ ServeReserve("sender") \/ ServeFree("sender") \/ ServeRegister("sender")
             \/ ServeDeregister("sender") \/ ServeState("sender") \/ ServeQuery("sender")
    BY <2>1, <2>5 DEF AddCall, ServeReserve, ServeFree, ServeRegister, ServeDeregister,
       ServeState, ServeQuery, Asked, Granted
  <2>6. ASSUME NEW c \in Clients, Serve(c), c # "sender" PROVE rpc'["sender"] = rpc["sender"]
    BY <1>2, <2>6, OtherCalls DEF TypeInv, RpcTyped, Clients
  <2>. QED
    BY <1>3, <2>2, <2>3, <2>4, <2>5, <2>6 DEF Serve
<1>. QED
  BY <1>1, <1>4, <1>5, <1>6 DEF AllowInv, Own

(* The sender's own steps. *)
LEMMA CallAddAllows ==
  ASSUME TypeInv, AllowInv, CallAddSenders
  PROVE  AllowInv'
<1>. DEFINE req == IF sender.run.ip = NoAddr THEN AddSenderSelf(sender.uri, FALSE)
                   ELSE AddSenders(sender.uri, {sender.run.ip})
<1>1. req.op # "early" => /\ req.op = "AddSenders" /\ req.arg = Own
                          /\ req.lb = sender.uri.lbId /\ req.lb # <<>>
  BY DEF AddSenderSelf, AddSenders, Rpc, Early, NoToken, Own, SenderAddrs
<1>2. /\ UNCHANGED lbs /\ Try("sender", "addsenders", sender.uri, req) /\ sender.pc = "add"
      /\ IF req.op = "early" THEN sender' = SDead("-1")
         ELSE sender' = [sender EXCEPT !.pc = "adding"]
  BY DEF CallAddSenders, server
<1>. HIDE DEF req
<1>3. CASE req.op = "early"
  <2>1. UNCHANGED rpc /\ sender'.pc = "exited" /\ sender'.seg = "none"
    BY <1>2, <1>3 DEF Try, SDead, SenderOff
  <2>. QED
    BY <1>2, <2>1 DEF AllowInv, SendersCalls, SendersCall
<1>4. CASE req.op # "early"
  <2>1. /\ rpc' = [rpc EXCEPT !["sender"] = [phase |-> "sent", req |-> req]]
        /\ sender'.pc = "adding" /\ sender'.uri = sender.uri /\ sender'.run = sender.run
        /\ sender'.seg = sender.seg
    BY <1>2, <1>4 DEF Try, TypeInv, ToolsTyped, SenderShape
  <2>2. AddCall'
    BY <1>1, <1>4, <2>1 DEF AddCall, Own, TypeInv, RpcTyped, RpcShape, Clients
  <2>3. SendersCalls'
    BY <1>1, <1>2, <1>4, <2>1 DEF AllowInv, SendersCalls, SendersCall, TypeInv, RpcTyped, RpcShape, Clients
  <2>. QED
    BY <1>2, <2>1, <2>2, <2>3 DEF AllowInv
<1>. QED
  BY <1>3, <1>4

LEMMA AddReturnsAllows ==
  ASSUME TypeInv, AllowInv, AddSendersReturns
  PROVE  AllowInv'
<1>1. /\ UNCHANGED lbs /\ sender.pc = "adding" /\ AddCall /\ sender.seg # "open"
      /\ rpc["sender"].phase = "done" /\ rpc' = [rpc EXCEPT !["sender"] = Idle]
  BY DEF AddSendersReturns, Returned, Hangup, server, AllowInv
<1>2. SendersCalls'
  BY <1>1 DEF AllowInv, SendersCalls, SendersCall, TypeInv, RpcTyped, RpcShape, Clients, Idle
<1>3. CASE rpc["sender"].ok
  <2>1. /\ sender'.pc = "build" /\ sender'.uri = sender.uri /\ sender'.run = sender.run
        /\ sender'.seg = sender.seg
    BY <1>3 DEF AddSendersReturns, TypeInv, ToolsTyped, SenderShape
  <2>. QED
    BY <1>1, <1>2, <1>3, <2>1 DEF AllowInv, AddCall, Admits, Own
<1>4. CASE ~rpc["sender"].ok
  <2>1. sender'.pc = "exited" /\ sender'.seg = "none"
    BY <1>4 DEF AddSendersReturns, SDead, SenderOff
  <2>. QED
    BY <1>2, <2>1 DEF AllowInv
<1>. QED
  BY <1>3, <1>4

LEMMA CallRemoveAllows ==
  ASSUME TypeInv, AllowInv, CallRemoveSenders
  PROVE  AllowInv'
<1>1. /\ sender.pc = "remove" /\ sender.seg # "open" /\ sender'.seg = sender.seg
      /\ sender'.pc \in {"removing", "end"}
  BY DEF CallRemoveSenders, SGoto, AllowInv, TypeInv, ToolsTyped, SenderShape
<1>. DEFINE req == IF sender.run.ip = NoAddr THEN RemoveSenderSelf(sender.uri, FALSE)
                   ELSE RemoveSenders(sender.uri, {sender.run.ip})
<1>4. req.op # "early" => req.op = "RemoveSenders"
  BY DEF RemoveSenderSelf, RemoveSenders, Rpc, Early, NoToken
<1>2. \/ UNCHANGED rpc
      \/ /\ sender'.pc = "removing" /\ req.op # "early"
         /\ rpc' = [rpc EXCEPT !["sender"] = [phase |-> "sent", req |-> req]]
  BY DEF CallRemoveSenders, SGoto, Try, TypeInv, ToolsTyped, SenderShape
<1>. HIDE DEF req
<1>3. SendersCalls'
  BY <1>1, <1>2, <1>4 DEF AllowInv, SendersCalls, SendersCall, TypeInv, RpcTyped, RpcShape, Clients
<1>. QED
  BY <1>1, <1>3 DEF AllowInv

LEMMA SenderAllows ==
  ASSUME TypeInv, AllowInv, SenderNext
  PROVE  AllowInv'
<1>1. CASE CallAddSenders
  BY <1>1, CallAddAllows
<1>2. CASE AddSendersReturns
  BY <1>2, AddReturnsAllows
<1>3. CASE CallRemoveSenders
  BY <1>3, CallRemoveAllows
<1>4. CASE RemoveSendersReturns
  <2>1. /\ sender'.pc = "end" /\ sender'.seg = sender.seg /\ sender.pc = "removing"
        /\ rpc' = [rpc EXCEPT !["sender"] = Idle]
    BY <1>4 DEF RemoveSendersReturns, SGoto, Hangup, TypeInv, ToolsTyped, SenderShape
  <2>2. SendersCalls'
    BY <2>1 DEF AllowInv, SendersCalls, SendersCall, TypeInv, RpcTyped, RpcShape, Clients, Idle
  <2>. QED
    BY <2>1, <2>2 DEF AllowInv
<1>5. ASSUME \/ \E run \in SenderRuns : LaunchSender(run)
             \/ BuildSegmenter \/ OpenSegmenter \/ OpenSegmenterFails \/ SendingEnds
             \/ StopSegmenter \/ SenderExits \/ InterruptSender \/ AllSent
      PROVE  AllowInv'
  <2>1. UNCHANGED <<lbs, rpc>> /\ sender.pc \notin {"adding", "removing"}
    BY <1>5 DEF LaunchSender, BuildSegmenter, OpenSegmenter, OpenSegmenterFails, SendingEnds,
       StopSegmenter, SenderExits, InterruptSender, AllSent, server
  <2>2. SendersCalls'
    BY <2>1 DEF AllowInv, SendersCalls, SendersCall
  <2>3. ASSUME NEW run \in SenderRuns, LaunchSender(run) PROVE AllowInv'
    <3>1. CASE \E code : sender' = SDead(code)
      BY <2>2, <3>1 DEF AllowInv, SDead, SenderOff
    <3>2. ASSUME NEW u, NEW flags,
                 sender' = [SenderOff EXCEPT !.pc = IF flags.useCP THEN "add" ELSE "build",
                                             !.uri = u, !.run = run, !.flags = flags]
          PROVE  AllowInv'
      <4>1. /\ sender'.seg = "none" /\ sender'.run = run /\ sender'.flags = flags
            /\ sender'.pc = IF flags.useCP THEN "add" ELSE "build"
        BY <3>2 DEF SenderOff
      <4>2. CASE flags.useCP
        BY <2>2, <4>1, <4>2 DEF AllowInv
      <4>3. CASE ~flags.useCP
        <5>1. sender'.pc = "build" /\ ~sender'.flags.useCP
          BY <4>1, <4>3, Zenon
        <5>. QED
          BY <2>2, <4>1, <5>1 DEF AllowInv
      <4>. QED
        BY <4>2, <4>3
    <3>. QED
      BY <2>3, <3>1, <3>2, Zenon DEF LaunchSender
  <2>4. CASE BuildSegmenter
    <3>1. /\ sender'.seg # "open"
          /\ \/ sender'.pc = "exited"
             \/ /\ sender.pc = "build" /\ sender'.pc = "open" /\ sender'.uri = sender.uri
                /\ sender'.run = sender.run /\ sender'.flags = sender.flags
      BY <2>4 DEF BuildSegmenter, SDead, SenderOff, TypeInv, ToolsTyped, SenderShape
    <3>. QED
      BY <2>1, <2>2, <3>1 DEF AllowInv, Admits, Own
  <2>5. CASE OpenSegmenter
    <3>1. /\ sender.pc = "open" /\ sender'.pc = "sending" /\ sender'.uri = sender.uri
          /\ sender'.run = sender.run /\ sender'.flags = sender.flags
      BY <2>5 DEF OpenSegmenter, TypeInv, ToolsTyped, SenderShape
    <3>. QED
      BY <2>1, <2>2, <3>1 DEF AllowInv, Admits, Own
  <2>6. CASE OpenSegmenterFails \/ SendingEnds \/ InterruptSender \/ AllSent
    <3>1. \/ sender'.pc = "exited" /\ sender'.seg # "open"
          \/ sender'.pc = "remove" /\ sender'.seg # "open"
          \/ /\ sender.pc \in {"open", "sending"} /\ sender'.pc \in {"sending", "stop"}
             /\ sender'.uri = sender.uri /\ sender'.run = sender.run /\ sender'.flags = sender.flags
      BY <2>6 DEF OpenSegmenterFails, SendingEnds, InterruptSender, AllSent, SGoto, SDead, SenderOff,
         TypeInv, ToolsTyped, SenderShape
    <3>. QED
      BY <2>1, <2>2, <3>1 DEF AllowInv, Admits, Own
  <2>7. CASE StopSegmenter \/ SenderExits
    <3>1. sender'.seg # "open" /\ sender'.pc \in {"remove", "exited"}
      BY <2>7 DEF StopSegmenter, SenderExits, TypeInv, ToolsTyped, SenderShape, AllowInv
    <3>. QED
      BY <2>2, <3>1 DEF AllowInv
  <2>. QED
    BY <1>5, <2>3, <2>4, <2>5, <2>6, <2>7
<1>. QED
  BY <1>1, <1>2, <1>3, <1>4, <1>5 DEF SenderNext, SenderSteps

LEMMA AllowInductive == TypeInv /\ AllowInv /\ [Next]_vars => AllowInv'
<1>1. ASSUME AllowInv, UNCHANGED vars PROVE AllowInv'
  <2>1. SendersCalls'
    BY <1>1 DEF vars, AllowInv, SendersCalls, SendersCall
  <2>. QED
    BY <1>1, <2>1, AllowFrame DEF vars
<1>2. ASSUME TypeInv, AllowInv, WorkerNext \/ StateThreadNext \/ LbadmNext PROVE AllowInv'
  BY <1>2, WorkerCalls, LbadmCalls, AllowFrame DEF AllowInv
<1>. QED
  BY <1>1, <1>2, ServerAllows, SenderAllows DEF Next

(* While the segmenter's threads may still emit packets, the LB admits the  *)
(* sender's addresses, unless the reservation is over or the last to change *)
(* the missing address was lbadm: the tool adds itself before they start    *)
(* and removes itself only after they are stopped, and no other client's    *)
(* call touches the list.                                                   *)
THEOREM SenderAdmitted == Spec => []SenderAllowedWhileSending
<1>1. Init => TypeInv /\ AllowInv
  <2>1. Init => AllowInv
    BY DEF Init, AllowInv, SenderOff, SendersCalls, Idle, Clients
  <2>. QED
    BY <2>1, InitTyped
<1>2. AllowInv => SenderAllowedWhileSending
  BY DEF AllowInv, Admits, Own, SenderAllowedWhileSending, Gone
<1>. QED
  BY <1>1, <1>2, TypeInductive, AllowInductive, PTL DEF Spec

-----------------------------------------------------------------------------
(* A worker that exits leaves no session open *)

Mine(s) == sessions[s].by = "worker" /\ Open(s)

(* Where an open session of the worker is on its way from the call that *)
(* made it to the call that ends it.                                     *)
Brought(s) ==
  /\ worker.pc = "registering"
  /\ rpc["worker"].phase = "done" /\ rpc["worker"].ok
  /\ rpc["worker"].rep = [token |-> SessToken(s), sid |-> s]
  /\ worker.uri.lbId = sessions[s].lb
Held(s) ==
  /\ worker.pc \in {"open", "running", "shutdown"} /\ worker.registered
  /\ worker.uri.sid = s /\ worker.uri.tok["session"] = SessToken(s)
  /\ worker.uri.lbId = sessions[s].lb
Ending(s) ==
  /\ worker.pc = "deregistering" /\ rpc["worker"].phase = "sent"
  /\ rpc["worker"].req.op = "Deregister" /\ rpc["worker"].req.token = SessToken(s)
  /\ rpc["worker"].req.lb = sessions[s].lb /\ rpc["worker"].req.sid = s

Traced(s) ==
  "worker" \in faults \/ worker.pc = "killed" \/ Brought(s) \/ Held(s) \/ Ending(s)

(* The control plane would grant the call that ends it. *)
Endable(s) ==
  /\ SessToken(s) \in live
  /\ sessions[s].lb \in LbIds /\ lbs[sessions[s].lb].state = "reserved"

RegisterSent ==
  rpc["worker"].phase = "sent" /\ rpc["worker"].req.op = "Register" =>
     worker.pc \in {"registering", "killed"} /\ rpc["worker"].req.lb # <<>>
RegisterNoted == worker.pc = "registering" => worker.registered

LeaveInv ==
  /\ \A s \in Sids : Mine(s) => Traced(s) /\ Endable(s)
  /\ RegisterSent /\ RegisterNoted

LEMMA ReleaseEndable ==
  ASSUME LbsTyped, SessionShape, NEW k \in LbIds \cup {<<>>}, Release(k),
         NEW s \in Sids, Mine(s)'
  PROVE  Mine(s) /\ sessions'[s] = sessions[s] /\ (Endable(s) => Endable(s)')
<1>1. s \notin SessionsOf(k) /\ sessions'[s] = sessions[s] /\ Mine(s)
  <2>1. sessions'[s] = IF s \in SessionsOf(k) THEN [sessions[s] EXCEPT !.state = "closed"]
                       ELSE sessions[s]
    BY DEF Release, Close
  <2>2. s \in SessionsOf(k) => sessions'[s].state = "closed"
    BY <2>1 DEF SessionShape
  <2>. QED
    BY <2>1, <2>2 DEF Mine, Open
<1>2. ASSUME Endable(s) PROVE Endable(s)'
  <2>1. sessions[s].lb # k
    BY <1>1 DEF SessionsOf
  <2>2. lbs'[sessions[s].lb] = lbs[sessions[s].lb]
    BY <1>2, <2>1 DEF Release, LbsTyped, LbShape, Endable
  <2>3. SessToken(s) \in live'
    <3>1. live' = live \ ({InstToken(k)} \cup {SessToken(t) : t \in SessionsOf(k)})
      BY DEF Release
    <3>2. SessToken(s) # InstToken(k)
      BY TokensApart
    <3>3. \A t \in SessionsOf(k) : SessToken(t) # SessToken(s)
      BY <1>1, TokensApart DEF SessionsOf
    <3>. QED
      BY <1>2, <3>1, <3>2, <3>3 DEF Endable
  <2>. QED
    BY <1>1, <1>2, <2>2, <2>3 DEF Endable
<1>. QED
  BY <1>1, <1>2

LEMMA EndEndable ==
  ASSUME SessionShape, NEW t \in Sids, EndSession(t), UNCHANGED lbs, NEW s \in Sids, Mine(s)'
  PROVE  s # t /\ Mine(s) /\ sessions'[s] = sessions[s] /\ (Endable(s) => Endable(s)')
<1>1. sessions'[s] = IF s = t THEN [sessions[s] EXCEPT !.state = "closed"] ELSE sessions[s]
  BY DEF EndSession, Close
<1>2. s # t
  BY <1>1 DEF SessionShape, Mine, Open
<1>3. SessToken(s) \in live => SessToken(s) \in live'
  BY <1>2, TokensApart DEF EndSession
<1>. QED
  BY <1>1, <1>2, <1>3 DEF Mine, Open, Endable

(* What a step of the control plane does to an open session of the worker *)
(* it does not make.                                                      *)
LEMMA ServerEndable ==
  ASSUME TypeInv, ServerNext, NEW s \in Sids, Mine(s)', Mine(s), Endable(s)
  PROVE  sessions'[s].lb = sessions[s].lb /\ Endable(s)'
<1>. USE DEF TypeInv, SessionsTyped, LbsTyped
<1>1. ASSUME NEW c \in Clients, ServeReserve(c)
      PROVE  sessions'[s].lb = sessions[s].lb /\ Endable(s)'
  BY <1>1 DEF ServeReserve, Endable, LbShape
<1>2. ASSUME NEW c \in Clients, ServeFree(c)
      PROVE  sessions'[s].lb = sessions[s].lb /\ Endable(s)'
  <2>1. rpc[c].req.lb \in LbIds \cup {<<>>}
    BY <1>2 DEF ServeFree, Asked, Granted, Able
  <2>. QED
    BY <1>2, <2>1, ReleaseEndable DEF ServeFree
<1>3. ASSUME NEW c \in Clients, ServeRegister(c)
      PROVE  sessions'[s].lb = sessions[s].lb /\ Endable(s)'
  <2>1. SessionsKept /\ UNCHANGED lbs /\ live \subseteq live'
    BY <1>3, ServerKeepsSessions DEF ServeRegister
  <2>. QED
    BY <2>1 DEF SessionsKept, Endable, Mine, Open
<1>4. ASSUME NEW c \in Clients, ServeDeregister(c)
      PROVE  sessions'[s].lb = sessions[s].lb /\ Endable(s)'
  <2>1. rpc[c].req.sid \in Sids /\ UNCHANGED lbs
    BY <1>4 DEF ServeDeregister, Asked, Granted, Able
  <2>. QED
    BY <1>4, <2>1, EndEndable DEF ServeDeregister
<1>5. ASSUME NEW c \in Clients, ServeState(c)
      PROVE  sessions'[s].lb = sessions[s].lb /\ Endable(s)'
  <2>1. SessionsKept /\ UNCHANGED <<lbs, live>>
    BY <1>5, ServerKeepsSessions DEF ServeState
  <2>. QED
    BY <2>1 DEF SessionsKept, Endable, Mine, Open
<1>6. ASSUME NEW c \in Clients, ServeSenders(c)
      PROVE  sessions'[s].lb = sessions[s].lb /\ Endable(s)'
  <2>1. UNCHANGED <<sessions, live>>
    BY <1>6 DEF ServeSenders
  <2>. QED
    BY <1>6, <2>1, SendersServed DEF Endable
<1>7. ASSUME NEW c \in Clients, ServeQuery(c) \/ Refuse(c) \/ Lose(c)
      PROVE  sessions'[s].lb = sessions[s].lb /\ Endable(s)'
  BY <1>7 DEF ServeQuery, Refuse, Lose, server, Endable
<1>8. ASSUME NEW l \in LbIds, ReservationEnds(l)
      PROVE  sessions'[s].lb = sessions[s].lb /\ Endable(s)'
  BY <1>8, ReleaseEndable DEF ReservationEnds
<1>9. ASSUME NEW t \in Sids, SessionExpires(t)
      PROVE  sessions'[s].lb = sessions[s].lb /\ Endable(s)'
  BY <1>9, EndEndable DEF SessionExpires
<1>. QED
  BY <1>1, <1>2, <1>3, <1>4, <1>5, <1>6, <1>7, <1>8, <1>9 DEF ServerNext, Serve

(* An open session was open before, or the worker's registration made it. *)
LEMMA ServerOpens ==
  ASSUME TypeInv, ServerNext, NEW s \in Sids, Mine(s)'
  PROVE  \/ Mine(s)
         \/ /\ ServeRegister("worker")
            /\ sessions' = [sessions EXCEPT ![s] = [state |-> "new", lb |-> rpc["worker"].req.lb,
                                            by |-> "worker", w |-> rpc["worker"].req.arg]]
            /\ live' = live \cup {SessToken(s)} /\ UNCHANGED lbs
            /\ Reply("worker", [token |-> SessToken(s), sid |-> s])
<1>. USE DEF TypeInv, SessionsTyped, LbsTyped
<1>1. ASSUME NEW c \in Clients, ServeRegister(c), ~Mine(s)
      PROVE  /\ c = "worker"
             /\ sessions' = [sessions EXCEPT ![s] = [state |-> "new", lb |-> rpc["worker"].req.lb,
                                             by |-> "worker", w |-> rpc["worker"].req.arg]]
             /\ live' = live \cup {SessToken(s)} /\ UNCHANGED lbs
             /\ Reply("worker", [token |-> SessToken(s), sid |-> s])
  <2>1. PICK t \in Sids : /\ sessions' = [sessions EXCEPT ![t] =
                              [state |-> "new", lb |-> rpc[c].req.lb, by |-> c,
                               w |-> rpc[c].req.arg]]
                         /\ live' = live \cup {SessToken(t)} /\ UNCHANGED lbs
                         /\ Reply(c, [token |-> SessToken(t), sid |-> t])
    BY <1>1 DEF ServeRegister
  <2>2. t = s
    BY <1>1, <2>1 DEF Mine, Open
  <2>3. c = "worker"
    BY <2>1, <2>2 DEF Mine, SessionShape
  <2>. QED
    BY <2>1, <2>2, <2>3
<1>2. ASSUME NEW c \in Clients, ServeFree(c) PROVE Mine(s)
  <2>1. rpc[c].req.lb \in LbIds \cup {<<>>}
    BY <1>2 DEF ServeFree, Asked, Granted, Able
  <2>. QED
    BY <1>2, <2>1, ReleaseEndable DEF ServeFree
<1>3. ASSUME NEW l \in LbIds, ReservationEnds(l) PROVE Mine(s)
  BY <1>3, ReleaseEndable DEF ReservationEnds
<1>4. ASSUME NEW c \in Clients, ServeDeregister(c) PROVE Mine(s)
  <2>1. rpc[c].req.sid \in Sids /\ UNCHANGED lbs
    BY <1>4 DEF ServeDeregister, Asked, Granted, Able
  <2>. QED
    BY <1>4, <2>1, EndEndable DEF ServeDeregister
<1>5. ASSUME NEW t \in Sids, SessionExpires(t) PROVE Mine(s)
  BY <1>5, EndEndable DEF SessionExpires
<1>6. ASSUME NEW c \in Clients, ServeState(c) PROVE Mine(s)
  <2>1. /\ rpc[c].req.sid \in Sids /\ Open(rpc[c].req.sid)
        /\ sessions' = [sessions EXCEPT ![rpc[c].req.sid].state = "ready"]
    BY <1>6 DEF ServeState, Asked, Granted, Able
  <2>2. SessionsKept
    BY ServerKeepsSessions
  <2>3. s # rpc[c].req.sid => sessions'[s] = sessions[s]
    BY <2>1 DEF SessionShape
  <2>. QED
    BY <2>1, <2>2, <2>3 DEF SessionsKept, Mine, Open
<1>7. ASSUME NEW c \in Clients,
             ServeReserve(c) \/ ServeSenders(c) \/ ServeQuery(c) \/ Refuse(c) \/ Lose(c)
      PROVE  Mine(s)
  BY <1>7 DEF ServeReserve, ServeSenders, ServeQuery, Refuse, Lose, server, Mine, Open
<1>. QED
  BY <1>1, <1>2, <1>3, <1>4, <1>5, <1>6, <1>7 DEF ServerNext, Serve

(* The control plane does not turn down the call that ends a session. *)
LEMMA EndingGranted ==
  ASSUME NEW s \in Sids, Mine(s), Endable(s), Ending(s)
  PROVE  Granted("worker")
  BY DEF Mine, Endable, Ending, Granted, Covers, Able

LEMMA ServerTraces ==
  ASSUME TypeInv, ServerNext, NEW s \in Sids, Mine(s), Mine(s)', Endable(s), Traced(s)
  PROVE  Traced(s)'
<1>. USE DEF TypeInv
<1>1. UNCHANGED worker /\ faults \subseteq faults' /\ sessions'[s].lb = sessions[s].lb
  <2>1. UNCHANGED worker /\ faults \subseteq faults'
    BY DEF ServerNext, Serve, ServeReserve, ServeFree, ServeRegister, ServeDeregister,
       ServeState, ServeSenders, ServeQuery, Refuse, Lose, ReservationEnds, SessionExpires
  <2>. QED
    BY <2>1, ServerEndable
<1>2. CASE rpc'["worker"] = rpc["worker"]
  BY <1>1, <1>2 DEF Traced, Brought, Held, Ending
<1>3. CASE "worker" \in faults \/ worker.pc = "killed" \/ Held(s)
  BY <1>1, <1>3 DEF Traced, Held
<1>4. CASE Lose("worker")
  BY <1>4 DEF Lose, Traced
<1>5. ASSUME Serve("worker"), ~Lose("worker"), Brought(s) PROVE FALSE
  BY <1>5 DEF Brought, Serve, ServeReserve, ServeFree, ServeRegister, ServeDeregister,
       ServeState, ServeSenders, ServeQuery, Refuse, Asked, Granted
<1>6. ASSUME Serve("worker"), ~Lose("worker"), Ending(s) PROVE FALSE
  <2>1. CASE ServeDeregister("worker")
    <3>1. EndSession(s) /\ UNCHANGED lbs
      BY <1>6, <2>1 DEF ServeDeregister, Ending
    <3>. QED
      BY <3>1, EndEndable DEF SessionsTyped
  <2>2. CASE Refuse("worker")
    BY <1>6, <2>2, EndingGranted DEF Refuse
  <2>. QED
    BY <1>6, <2>1, <2>2 DEF Ending, Serve, ServeReserve, ServeFree, ServeRegister, ServeState,
       ServeSenders, ServeQuery, Asked
<1>7. ASSUME ~Serve("worker") PROVE rpc'["worker"] = rpc["worker"]
  <2>1. ASSUME NEW c \in Clients, Serve(c), c # "worker" PROVE Fail(c) \/ (\E rep : Reply(c, rep))
    BY <2>1 DEF Serve, ServeReserve, ServeFree, ServeRegister, ServeDeregister, ServeState,
       ServeSenders, ServeQuery, Refuse, Lose
  <2>2. ASSUME NEW c \in Clients, Serve(c), c # "worker" PROVE rpc'["worker"] = rpc["worker"]
    BY <2>1, <2>2, OtherCalls DEF RpcTyped, Clients
  <2>3. ASSUME ~\E c \in Clients : Serve(c) PROVE UNCHANGED rpc
    BY <2>3 DEF ServerNext, ReservationEnds, SessionExpires
  <2>. QED
    BY <1>7, <2>2, <2>3
<1>. QED
  BY <1>2, <1>3, <1>4, <1>5, <1>6, <1>7 DEF Traced

LEMMA ServerRegisterSent ==
  ASSUME TypeInv, LeaveInv, ServerNext
  PROVE  RegisterSent' /\ RegisterNoted' /\ UNCHANGED worker
<1>1. UNCHANGED worker
  BY DEF ServerNext, Serve, ServeReserve, ServeFree, ServeRegister, ServeDeregister,
     ServeState, ServeSenders, ServeQuery, Refuse, Lose, ReservationEnds, SessionExpires
<1>2. rpc'["worker"] = rpc["worker"] \/ rpc'["worker"].phase = "done"
  <2>1. ASSUME NEW c \in Clients, Serve(c) PROVE Fail(c) \/ (\E rep : Reply(c, rep))
    BY <2>1 DEF Serve, ServeReserve, ServeFree, ServeRegister, ServeDeregister, ServeState,
       ServeSenders, ServeQuery, Refuse, Lose
  <2>2. ASSUME NEW c \in Clients, Serve(c)
        PROVE  rpc'["worker"] = rpc["worker"] \/ rpc'["worker"].phase = "done"
    BY <2>1, <2>2 DEF TypeInv, RpcTyped, RpcShape, Clients, Fail, Reply
  <2>3. ASSUME ~\E c \in Clients : Serve(c) PROVE UNCHANGED rpc
    BY <2>3 DEF ServerNext, ReservationEnds, SessionExpires
  <2>. QED
    BY <2>2, <2>3
<1>. QED
  BY <1>1, <1>2 DEF LeaveInv, RegisterSent, RegisterNoted

LEMMA ServerLeaves ==
  ASSUME TypeInv, RegisterInv, LeaveInv, ServerNext
  PROVE  LeaveInv'
<1>1. ASSUME NEW s \in Sids, Mine(s)' PROVE Traced(s)' /\ Endable(s)'
  <2>1. CASE Mine(s)
    BY <1>1, <2>1, ServerEndable, ServerTraces DEF LeaveInv
  <2>2. CASE ~Mine(s)
    <3>1. /\ ServeRegister("worker")
          /\ sessions' = [sessions EXCEPT ![s] = [state |-> "new", lb |-> rpc["worker"].req.lb,
                                          by |-> "worker", w |-> rpc["worker"].req.arg]]
          /\ live' = live \cup {SessToken(s)} /\ UNCHANGED lbs
          /\ Reply("worker", [token |-> SessToken(s), sid |-> s])
      BY <1>1, <2>2, ServerOpens
    <3>2. /\ rpc["worker"].phase = "sent" /\ rpc["worker"].req.op = "Register"
          /\ rpc["worker"].req.lb # <<>> =>
               rpc["worker"].req.lb \in LbIds /\ lbs[rpc["worker"].req.lb].state = "reserved"
      BY <3>1 DEF ServeRegister, Asked, Granted, Able
    <3>3. sessions'[s].lb = rpc["worker"].req.lb
      BY <3>1 DEF TypeInv, SessionsTyped, SessionShape
    <3>4. Endable(s)'
      BY <3>1, <3>2, <3>3 DEF Endable, LeaveInv, RegisterSent
    <3>5. Traced(s)'
      <4>1. UNCHANGED worker
        BY <3>1 DEF ServeRegister
      <4>2. worker.pc = "registering" => rpc["worker"].req.lb = worker.uri.lbId
        BY <3>2 DEF RegisterInv, RegisterCall
      <4>3. /\ rpc'["worker"].phase = "done" /\ rpc'["worker"].ok
            /\ rpc'["worker"].rep = [token |-> SessToken(s), sid |-> s]
        BY <3>1 DEF Reply, TypeInv, RpcTyped, RpcShape, Clients
      <4>4. worker.pc \in {"registering", "killed"}
        BY <3>2 DEF LeaveInv, RegisterSent
      <4>. QED
        BY <3>3, <4>1, <4>2, <4>3, <4>4 DEF Traced, Brought
    <3>. QED
      BY <3>4, <3>5
  <2>. QED
    BY <2>1, <2>2
<1>. QED
  BY <1>1, ServerRegisterSent DEF LeaveInv

(* The other processes leave the worker's sessions alone. *)
LEMMA OthersLeave ==
  ASSUME RpcShape, LbadmNext \/ SenderNext \/ StateThreadNext
  PROVE  UNCHANGED <<server, worker, faults>> /\ rpc'["worker"] = rpc["worker"]
<1>1. UNCHANGED <<server, faults>>
  BY DEF LbadmNext, RunCommand, CommandFails, CommandSucceeds, ReserveSucceeds, RegisterSucceeds,
     SenderNext, SenderSteps, LaunchSender, InterruptSender, AllSent, CallAddSenders,
     AddSendersReturns, BuildSegmenter, OpenSegmenter, OpenSegmenterFails, SendingEnds,
     StopSegmenter, CallRemoveSenders, RemoveSendersReturns, SenderExits,
     StateThreadNext, CallSendState, SendStateReturns, StateThreadEnds, server
<1>2. StateThreadNext => UNCHANGED worker /\ rpc'["worker"] = rpc["worker"]
  BY DEF StateThreadNext, CallSendState, SendStateReturns, StateThreadEnds, Try, Hangup,
     RpcShape, Clients
<1>. QED
  BY <1>1, <1>2, OthersKeepWorker

(* A step of the worker keeps the sessions; it has to keep the trace of *)
(* those that are open.                                                  *)
LEMMA WorkerFrame ==
  ASSUME LeaveInv, UNCHANGED <<server, faults>>, RegisterSent', RegisterNoted',
         \A s \in Sids : Mine(s) /\ Endable(s) /\ Traced(s) => Traced(s)'
  PROVE  LeaveInv'
  BY DEF LeaveInv, server, Mine, Open, Endable

LEMMA WorkerServerKept ==
  ASSUME WorkerNext
  PROVE  UNCHANGED <<server, faults>>
  BY DEF WorkerNext, WorkerSteps, LaunchWorker, InterruptWorker, KillWorker, HostNameFails,
     CallRegister, RegisterReturns, OpenFails, OpenAndStart, ReadersEnd, CallDeregister,
     DeregisterReturns, StopThreads, WorkerJoins, server

(* Steps on which no session can be open. *)
LEMMA NothingOpen ==
  ASSUME LeaveInv, UNCHANGED <<server, faults, rpc>>,
         worker.pc \in {"off", "register", "stop", "join"}, worker'.pc # "registering"
  PROVE  LeaveInv'
<1>1. RegisterSent' /\ RegisterNoted'
  BY DEF LeaveInv, RegisterSent, RegisterNoted
<1>2. \A s \in Sids : Traced(s) => Traced(s)'
  BY DEF Traced, Brought, Held, Ending
<1>. QED
  BY <1>1, <1>2, WorkerFrame

(* Steps on which the worker holds its session as before. *)
LEMMA StillHeld ==
  ASSUME LeaveInv, UNCHANGED <<server, faults, rpc>>,
         worker.pc \in {"open", "running"}, worker'.pc \in {"open", "running", "shutdown"},
         worker'.uri = worker.uri, worker'.registered = worker.registered
  PROVE  LeaveInv'
<1>1. RegisterSent' /\ RegisterNoted'
  BY DEF LeaveInv, RegisterSent, RegisterNoted
<1>2. \A s \in Sids : Traced(s) => Traced(s)'
  BY DEF Traced, Brought, Held, Ending, server
<1>. QED
  BY <1>1, <1>2, WorkerFrame

LEMMA CallRegisterLeaves ==
  ASSUME RegisterInv, LeaveInv, CallRegister
  PROVE  LeaveInv'
<1>. DEFINE req == RegisterSelf(worker.reas, worker.uri, <<"host">>)
<1>1. req.op # "early" => req.op = "Register" /\ req.lb # <<>>
  BY DEF RegisterSelf, RegisterWorker, Rpc, Early, NoToken
<1>2. UNCHANGED <<server, faults>> /\ worker.pc = "register"
  BY DEF CallRegister, server
<1>3. \/ UNCHANGED rpc /\ worker'.pc # "registering"
      \/ /\ worker'.pc = "registering" /\ worker'.registered
         /\ rpc' = [rpc EXCEPT !["worker"] = [phase |-> "sent", req |-> req]]
         /\ req.op # "early"
  BY DEF CallRegister, Goto, Try, RegisterInv, WorkerShape
<1>. HIDE DEF req
<1>4. CASE UNCHANGED rpc /\ worker'.pc # "registering"
  BY <1>2, <1>4, NothingOpen
<1>5. CASE /\ worker'.pc = "registering" /\ worker'.registered
           /\ rpc' = [rpc EXCEPT !["worker"] = [phase |-> "sent", req |-> req]]
           /\ req.op # "early"
  <2>1. RegisterSent' /\ RegisterNoted'
    BY <1>1, <1>5 DEF RegisterSent, RegisterNoted, RegisterInv, RpcShape, Clients
  <2>2. \A s \in Sids : Traced(s) => Traced(s)'
    BY <1>2 DEF Traced, Brought, Held, Ending
  <2>. QED
    BY <1>2, <2>1, <2>2, WorkerFrame
<1>. QED
  BY <1>3, <1>4, <1>5

LEMMA RegisterReturnsLeaves ==
  ASSUME RegisterInv, LeaveInv, RegisterReturns
  PROVE  LeaveInv'
<1>1. /\ UNCHANGED <<server, faults>> /\ worker.pc = "registering" /\ worker.registered
      /\ rpc["worker"].phase = "done" /\ IsURI(worker.uri)
  BY DEF RegisterReturns, Returned, server, LeaveInv, RegisterNoted, RegisterInv, Launched
<1>2. RegisterSent' /\ RegisterNoted'
  BY DEF RegisterReturns, Hangup, Idle, RegisterSent, RegisterNoted, RegisterInv, RpcShape,
     WorkerShape, Clients
<1>3. ASSUME NEW s \in Sids, Traced(s) PROVE Traced(s)'
  <2>1. CASE "worker" \in faults
    BY <1>1, <2>1 DEF Traced
  <2>2. CASE Brought(s)
    <3>1. /\ worker'.pc = "open" /\ worker'.registered
          /\ worker'.uri = FillSession(worker.uri, [token |-> SessToken(s), sid |-> s])
      BY <1>1, <2>2 DEF Brought, RegisterReturns, RegisterInv, WorkerShape
    <3>2. worker.uri.lbId = sessions'[s].lb
      BY <1>1, <2>2 DEF Brought, server
    <3>. QED
      BY <1>1, <3>1, <3>2, FillSessionFills DEF Traced, Held
  <2>. QED
    BY <1>1, <1>3, <2>1, <2>2 DEF Traced, Held, Ending
<1>. QED
  BY <1>1, <1>2, <1>3, WorkerFrame

LEMMA CallDeregisterLeaves ==
  ASSUME RegisterInv, LeaveInv, CallDeregister
  PROVE  LeaveInv'
<1>. DEFINE req == DeregisterWorker(worker.uri)
<1>1. UNCHANGED <<server, faults>> /\ worker.pc = "shutdown"
  BY DEF CallDeregister, server
<1>2. /\ worker'.pc \in {"stop", "deregistering"}
      /\ \/ UNCHANGED rpc
         \/ /\ rpc' = [rpc EXCEPT !["worker"] = [phase |-> "sent", req |-> req]]
            /\ req.op # "early"
  BY DEF CallDeregister, Goto, Try, RegisterInv, WorkerShape
<1>3. req.op # "early" => req.op = "Deregister"
  BY DEF DeregisterWorker, Rpc, Early, NoToken
<1>4. RegisterSent' /\ RegisterNoted'
  <2>. HIDE DEF req
  <2>. QED
    BY <1>1, <1>2, <1>3 DEF LeaveInv, RegisterSent, RegisterNoted, RegisterInv, RpcShape, Clients
<1>5. ASSUME NEW s \in Sids, Endable(s), Traced(s) PROVE Traced(s)'
  <2>1. CASE "worker" \in faults
    BY <1>1, <2>1 DEF Traced
  <2>2. CASE Held(s)
    <3>1. worker.uri.tok["session"] # <<>> /\ worker.uri.lbId # <<>>
      BY <1>5, <2>2, CPAssumption DEF Held, Endable
    <3>2. req = [op |-> "Deregister", token |-> SessToken(s), lb |-> sessions[s].lb,
                 sid |-> s, arg |-> {}]
      BY <2>2, <3>1 DEF Held, DeregisterWorker, Rpc
    <3>3. /\ Try("worker", "deregister", worker.uri, req)
          /\ worker' = [worker EXCEPT !.registered = FALSE,
                           !.pc = IF req.op = "early" THEN "stop" ELSE "deregistering"]
      BY <2>2 DEF Held, CallDeregister
    <3>. HIDE DEF req
    <3>5. req.op = "Deregister"
      BY <3>2
    <3>6. /\ worker'.pc = "deregistering"
          /\ rpc' = [rpc EXCEPT !["worker"] = [phase |-> "sent", req |-> req]]
      BY <3>3, <3>5 DEF Try, RegisterInv, WorkerShape
    <3>4. rpc'["worker"] = [phase |-> "sent", req |-> req]
      BY <3>6 DEF RegisterInv, RpcShape, Clients
    <3>. QED
      BY <1>1, <3>2, <3>6, <3>4 DEF Traced, Ending, server
  <2>. QED
    BY <1>1, <1>5, <2>1, <2>2 DEF Traced, Brought, Ending
<1>. QED
  BY <1>1, <1>4, <1>5, WorkerFrame

LEMMA WorkerLeaves ==
  ASSUME RegisterInv, LeaveInv, WorkerNext
  PROVE  LeaveInv'
<1>0. UNCHANGED <<server, faults>>
  BY WorkerServerKept
<1>1. ASSUME NEW run \in WorkerRuns, LaunchWorker(run) PROVE LeaveInv'
  <2>1. \/ \E code : worker' = Dead("exited", code)
        \/ \E u, r : worker' = [WorkerOff EXCEPT !.pc = "register", !.uri = u,
                                              !.run = run, !.reas = r]
    BY <1>1, Zenon DEF LaunchWorker
  <2>2. worker'.pc # "registering"
    BY <2>1 DEF Dead, WorkerOff
  <2>3. UNCHANGED rpc /\ worker.pc = "off"
    BY <1>1 DEF LaunchWorker
  <2>. QED
    BY <1>0, <2>2, <2>3, NothingOpen
<1>2. CASE CallRegister
  BY <1>2, CallRegisterLeaves
<1>3. CASE RegisterReturns
  BY <1>3, RegisterReturnsLeaves
<1>4. CASE HostNameFails \/ StopThreads \/ WorkerJoins
  <2>1. /\ UNCHANGED rpc /\ worker.pc \in {"register", "stop", "join"}
        /\ worker'.pc # "registering"
    BY <1>4 DEF HostNameFails, StopThreads, WorkerJoins, Goto, Dead, WorkerOff, RegisterInv,
       WorkerShape
  <2>. QED
    BY <1>0, <2>1, NothingOpen
<1>5. CASE OpenFails \/ OpenAndStart \/ ReadersEnd \/ InterruptWorker
  <2>1. /\ UNCHANGED rpc /\ worker.pc \in {"open", "running"}
        /\ worker'.pc \in {"running", "shutdown"}
        /\ worker'.uri = worker.uri /\ worker'.registered = worker.registered
    BY <1>5 DEF OpenFails, OpenAndStart, ReadersEnd, InterruptWorker, Goto, RegisterInv,
       WorkerShape
  <2>. QED
    BY <1>0, <2>1, StillHeld
<1>6. CASE CallDeregister
  BY <1>6, CallDeregisterLeaves
<1>7. CASE DeregisterReturns
  <2>1. /\ worker.pc = "deregistering" /\ rpc["worker"].phase = "done" /\ worker'.pc = "stop"
        /\ rpc'["worker"].phase = "idle"
    BY <1>7 DEF DeregisterReturns, Returned, Goto, Hangup, Idle, RegisterInv, WorkerShape,
       RpcShape, Clients
  <2>2. RegisterSent' /\ RegisterNoted' /\ \A s \in Sids : Traced(s) => Traced(s)'
    BY <1>0, <2>1 DEF RegisterSent, RegisterNoted, Traced, Brought, Held, Ending
  <2>. QED
    BY <1>0, <2>2, WorkerFrame
<1>8. CASE KillWorker
  <2>1. worker'.pc = "killed" /\ UNCHANGED rpc
    BY <1>8 DEF KillWorker, Dead, WorkerOff
  <2>2. RegisterSent' /\ RegisterNoted' /\ \A s \in Sids : Traced(s)'
    BY <2>1 DEF LeaveInv, RegisterSent, RegisterNoted, Traced
  <2>. QED
    BY <1>0, <2>2, WorkerFrame
<1>. QED
  BY <1>1, <1>2, <1>3, <1>4, <1>5, <1>6, <1>7, <1>8 DEF WorkerNext, WorkerSteps

LEMMA LeaveInductive == TypeInv /\ RegisterInv /\ LeaveInv /\ [Next]_vars => LeaveInv'
<1>. SUFFICES ASSUME TypeInv, RegisterInv, LeaveInv, [Next]_vars PROVE LeaveInv'
  OBVIOUS
<1>1. ASSUME UNCHANGED <<server, worker, faults>>, rpc'["worker"] = rpc["worker"]
      PROVE  LeaveInv'
  BY <1>1 DEF server, LeaveInv, Mine, Open, Traced, Brought, Held, Ending, Endable, RegisterSent,
     RegisterNoted
<1>2. UNCHANGED vars => UNCHANGED <<server, worker, faults>> /\ rpc'["worker"] = rpc["worker"]
  BY DEF vars, server
<1>. QED
  BY <1>1, <1>2, OthersLeave, ServerLeaves, WorkerLeaves DEF Next, RegisterInv

-----------------------------------------------------------------------------
(* A sender that exits leaves none of its addresses admitted *)

(* Of these addresses the LB admits none but those lbadm was told of. *)
Cleared(l, A) ==
  /\ l \in LbIds
  /\ \/ lbs[l].state = "gone"
     \/ lbs[l].state = "reserved" /\ A \cap (lbs[l].admitted \ lbs[l].byLbadm) = {}

LiveTokens ==
  /\ AdminToken \in live
  /\ \A l \in LbIds : lbs[l].state = "reserved" => InstToken(l) \in live

(* The sender's calls leave the client. *)
MayAsk ==
  /\ sender.uri.tok["instance"] # <<>> /\ sender.uri.lbId # <<>> /\ Own \subseteq Addr
  /\ sender.run.ip = NoAddr => Self(sender.uri, FALSE) # {}

(* They are granted as long as the reservation stands. *)
Entitled ==
  /\ MayAsk /\ Cleared(sender.uri.lbId, {})
  /\ sender.uri.tok["instance"] \in {AdminToken, InstToken(sender.uri.lbId)}

Asks(op) ==
  LET r == rpc["sender"].req
  IN r.op = op /\ r.token = sender.uri.tok["instance"] /\ r.lb = sender.uri.lbId /\ r.arg = Own

(* What the two calls ask for, and what is known once they have returned: *)
(* that the first was granted entitles the sender to the second.           *)
AdmitCall ==
  /\ MayAsk
  /\ rpc["sender"].phase = "sent" => Asks("AddSenders")
  /\ rpc["sender"].phase = "done" /\ rpc["sender"].ok => Entitled
Departed == Cleared(sender.uri.lbId, Own) \/ "sender" \in faults
DropCall ==
  /\ Entitled
  /\ rpc["sender"].phase = "sent" => Asks("RemoveSenders")
  /\ rpc["sender"].phase = "done" => Departed

DepartInv ==
  /\ LiveTokens
  /\ sender.seg = "stopped" => sender.pc \in {"remove", "removing", "end", "exited"}
  /\ sender.pc \in {"build", "open", "sending", "stop", "remove"} /\ sender.flags.useCP => Entitled
  /\ sender.pc = "adding" => AdmitCall
  /\ sender.pc = "removing" => DropCall
  /\ sender.pc \in {"end", "exited"} /\ sender.seg = "stopped" /\ sender.flags.useCP => Departed

LEMMA ReleaseClears ==
  ASSUME LbsTyped, NEW l, NEW A, Cleared(l, A), NEW k, Release(k)
  PROVE  Cleared(l, A)'
<1>1. /\ k # l => lbs'[l] = lbs[l]
      /\ k = l => lbs'[l] = [lbs[l] EXCEPT !.state = "gone", !.admitted = {}]
  BY DEF Release, Cleared, LbsTyped, LbShape
<1>2. k = l => lbs'[l] = [state |-> "gone", until |-> lbs[l].until, admitted |-> {},
                          byLbadm |-> lbs[l].byLbadm, addrs |-> lbs[l].addrs]
  BY <1>1 DEF Cleared, LbsTyped, LbShape
<1>. QED
  BY <1>1, <1>2 DEF Cleared

LEMMA ClearedKept ==
  ASSUME TypeInv, SendersCalls, ServerNext,
         NEW l, NEW A, sender.pc = "adding" => A = {}, Cleared(l, A)
  PROVE  Cleared(l, A)'
<1>. USE DEF TypeInv
<1>1. ASSUME NEW c \in Clients, ServeReserve(c) PROVE Cleared(l, A)'
  BY <1>1 DEF ServeReserve, Cleared, LbsTyped, LbShape
<1>2. ASSUME NEW c \in Clients, ServeFree(c) PROVE Cleared(l, A)'
  BY <1>2, ReleaseClears DEF ServeFree
<1>3. ASSUME NEW k \in LbIds, ReservationEnds(k) PROVE Cleared(l, A)'
  BY <1>3, ReleaseClears DEF ReservationEnds
<1>4. ASSUME NEW c \in Clients, ServeSenders(c) PROVE Cleared(l, A)'
  <2>1. rpc[c].req.op = "AddSenders" /\ A # {} => c = "lbadm"
    BY <1>4 DEF ServeSenders, Asked, Granted, SendersCalls, SendersCall
  <2>2. rpc[c].req.op \in {"AddSenders", "RemoveSenders"}
    BY <1>4 DEF ServeSenders, Asked
  <2>. QED
    BY <1>4, <2>1, <2>2, SendersServed DEF Cleared
<1>5. ASSUME NEW c \in Clients,
             \/ ServeRegister(c) \/ ServeDeregister(c) \/ ServeState(c) \/ ServeQuery(c)
             \/ Refuse(c) \/ Lose(c)
      PROVE  Cleared(l, A)'
  BY <1>5 DEF ServeRegister, ServeDeregister, ServeState, ServeQuery, Refuse, Lose, server, Cleared
<1>6. ASSUME NEW s \in Sids, SessionExpires(s) PROVE Cleared(l, A)'
  BY <1>6 DEF SessionExpires, Cleared
<1>. QED
  BY <1>1, <1>2, <1>3, <1>4, <1>5, <1>6 DEF ServerNext, Serve

LEMMA ReleaseKeepsLive ==
  ASSUME LbsTyped, SessionShape, LiveTokens, NEW k \in LbIds \cup {<<>>}, Release(k)
  PROVE  LiveTokens'
<1>1. live' = live \ ({InstToken(k)} \cup {SessToken(s) : s \in SessionsOf(k)})
  BY DEF Release
<1>2. AdminToken \in live'
  BY <1>1, TokensApart DEF LiveTokens, SessionsOf
<1>3. ASSUME NEW l \in LbIds, lbs'[l].state = "reserved" PROVE InstToken(l) \in live'
  <2>1. l # k /\ lbs[l].state = "reserved"
    BY <1>3 DEF Release, LbsTyped, LbShape
  <2>2. InstToken(l) # InstToken(k) /\ \A s \in Sids : InstToken(l) # SessToken(s)
    BY <2>1, TokensApart
  <2>. QED
    BY <1>1, <2>1, <2>2 DEF LiveTokens, SessionsOf
<1>. QED
  BY <1>2, <1>3 DEF LiveTokens

LEMMA EndKeepsLive ==
  ASSUME LiveTokens, NEW s \in Sids, EndSession(s), UNCHANGED lbs
  PROVE  LiveTokens'
  BY TokensApart DEF EndSession, LiveTokens

LEMMA ServerKeepsLive ==
  ASSUME TypeInv, LiveTokens, ServerNext
  PROVE  LiveTokens'
<1>. USE DEF TypeInv, SessionsTyped
<1>1. ASSUME NEW c \in Clients, ServeReserve(c) PROVE LiveTokens'
  BY <1>1 DEF ServeReserve, LiveTokens, LbsTyped, LbShape
<1>2. ASSUME NEW c \in Clients, ServeFree(c) PROVE LiveTokens'
  <2>1. rpc[c].req.lb \in LbIds \cup {<<>>}
    BY <1>2 DEF ServeFree, Asked, Granted, Able
  <2>. QED
    BY <1>2, <2>1, ReleaseKeepsLive DEF ServeFree
<1>3. ASSUME NEW l \in LbIds, ReservationEnds(l) PROVE LiveTokens'
  BY <1>3, ReleaseKeepsLive DEF ReservationEnds
<1>4. ASSUME NEW c \in Clients, ServeDeregister(c) PROVE LiveTokens'
  <2>1. rpc[c].req.sid \in Sids
    BY <1>4 DEF ServeDeregister, Asked, Granted, Able
  <2>. QED
    BY <1>4, <2>1, EndKeepsLive DEF ServeDeregister
<1>5. ASSUME NEW s \in Sids, SessionExpires(s) PROVE LiveTokens'
  BY <1>5, EndKeepsLive DEF SessionExpires
<1>6. ASSUME NEW c \in Clients, ServeSenders(c) PROVE LiveTokens'
  <2>1. UNCHANGED live
    BY <1>6 DEF ServeSenders
  <2>. QED
    BY <1>6, <2>1, SendersServed DEF LiveTokens
<1>7. ASSUME NEW c \in Clients, ServeRegister(c) PROVE LiveTokens'
  <2>1. UNCHANGED lbs /\ live \subseteq live'
    BY <1>7 DEF ServeRegister
  <2>. QED
    BY <2>1 DEF LiveTokens
<1>8. ASSUME NEW c \in Clients, ServeState(c) \/ ServeQuery(c) \/ Refuse(c) \/ Lose(c)
      PROVE  LiveTokens'
  BY <1>8 DEF ServeState, ServeQuery, Refuse, Lose, server, LiveTokens
<1>. QED
  BY <1>1, <1>2, <1>3, <1>4, <1>5, <1>6, <1>7, <1>8 DEF ServerNext, Serve

(* Only the control plane ends the sender's calls, and with the answer they *)
(* ask for.                                                                  *)
LEMMA ServerAnswers ==
  ASSUME TypeInv, ServerNext
  PROVE  /\ UNCHANGED sender /\ faults \subseteq faults'
         /\ rpc'["sender"] = rpc["sender"] \/ Serve("sender")
         /\ Serve("sender") => rpc'["sender"].phase = "done"
<1>1. UNCHANGED sender /\ faults \subseteq faults'
  BY DEF ServerNext, Serve, ServeReserve, ServeFree, ServeRegister, ServeDeregister, ServeState,
     ServeSenders, ServeQuery, Refuse, Lose, ReservationEnds, SessionExpires
<1>2. ASSUME NEW c \in Clients, Serve(c) PROVE Fail(c) \/ (\E rep : Reply(c, rep))
  BY <1>2 DEF Serve, ServeReserve, ServeFree, ServeRegister, ServeDeregister, ServeState,
     ServeSenders, ServeQuery, Refuse, Lose
<1>3. ASSUME NEW c \in Clients, Serve(c), c # "sender" PROVE rpc'["sender"] = rpc["sender"]
  BY <1>2, <1>3, OtherCalls DEF TypeInv, RpcTyped, Clients
<1>4. ASSUME ~\E c \in Clients : Serve(c) PROVE UNCHANGED rpc
  BY <1>4 DEF ServerNext, ReservationEnds, SessionExpires
<1>5. ASSUME Serve("sender") PROVE rpc'["sender"].phase = "done"
  <2>1. Fail("sender") \/ \E rep : Reply("sender", rep)
    BY <1>2, <1>5 DEF Clients
  <2>. QED
    BY <2>1 DEF Fail, Reply, TypeInv, RpcTyped, RpcShape, Clients
<1>. QED
  BY <1>1, <1>3, <1>4, <1>5

LEMMA EntitledKept ==
  ASSUME TypeInv, SendersCalls, ServerNext, Entitled
  PROVE  Entitled'
<1>1. UNCHANGED sender
  BY ServerAnswers
<1>2. Cleared(sender.uri.lbId, {})'
  BY <1>1, ClearedKept DEF Entitled
<1>. QED
  BY <1>1, <1>2 DEF Entitled, MayAsk, Own

LEMMA DepartedKept ==
  ASSUME TypeInv, SendersCalls, ServerNext, Departed, sender.pc # "adding"
  PROVE  Departed'
<1>1. UNCHANGED sender /\ faults \subseteq faults'
  BY ServerAnswers
<1>2. Cleared(sender.uri.lbId, Own) => Cleared(sender.uri.lbId, Own)'
  BY <1>1, ClearedKept DEF Own
<1>. QED
  BY <1>1, <1>2 DEF Departed

LEMMA AdmissionGranted ==
  ASSUME TypeInv, SendersCalls, AdmitCall, Serve("sender"), ServerNext, rpc'["sender"].ok,
         rpc["sender"].phase = "sent"
  PROVE  Entitled'
<1>1. Granted("sender")
  <2>1. CASE Refuse("sender") \/ Lose("sender")
    BY <2>1 DEF Refuse, Lose, Fail, TypeInv, RpcTyped, RpcShape, Clients
  <2>. QED
    BY <2>1 DEF Serve, ServeReserve, ServeFree, ServeRegister, ServeDeregister, ServeState,
       ServeSenders, ServeQuery, Asked
<1>2. Asks("AddSenders") /\ MayAsk
  BY DEF AdmitCall
<1>3. Entitled
  BY <1>1, <1>2 DEF Granted, Covers, Able, Asks, MayAsk, Entitled, Cleared
<1>. QED
  BY <1>3, EntitledKept

LEMMA RemovalServed ==
  ASSUME TypeInv, LiveTokens, DropCall, Serve("sender"), rpc["sender"].phase = "sent"
  PROVE  Departed'
<1>1. UNCHANGED sender
  BY DEF Serve, ServeReserve, ServeFree, ServeRegister, ServeDeregister, ServeState,
     ServeSenders, ServeQuery, Refuse, Lose
<1>2. Asks("RemoveSenders") /\ Entitled
  BY DEF DropCall
<1>3. CASE Lose("sender")
  BY <1>3 DEF Lose, Departed
<1>4. CASE Refuse("sender")
  <2>1. lbs[sender.uri.lbId].state = "gone"
    BY <1>2, <1>4 DEF Refuse, Granted, Covers, Able, Asks, Entitled, Cleared, LiveTokens
  <2>2. UNCHANGED lbs
    BY <1>4 DEF Refuse, server
  <2>. QED
    BY <1>1, <1>2, <2>1, <2>2 DEF Departed, Cleared, Entitled
<1>5. CASE ServeSenders("sender")
  <2>1. rpc["sender"].req.op # "AddSenders" /\ rpc["sender"].req.arg = Own
        /\ rpc["sender"].req.lb = sender.uri.lbId /\ sender.uri.lbId \in LbIds
    BY <1>2 DEF Asks, Entitled, Cleared
  <2>2. /\ lbs'[sender.uri.lbId].state = lbs[sender.uri.lbId].state
        /\ lbs'[sender.uri.lbId].admitted = lbs[sender.uri.lbId].admitted \ Own
    BY <1>5, <2>1, SendersServed DEF TypeInv, Clients
  <2>3. Own' = Own
    BY <1>1 DEF Own
  <2>. QED
    BY <1>1, <1>2, <2>1, <2>2, <2>3 DEF Departed, Cleared, Entitled
<1>. QED
  BY <1>2, <1>3, <1>4, <1>5 DEF Asks, Serve, ServeReserve, ServeFree, ServeRegister, ServeDeregister,
     ServeState, ServeQuery, Asked

LEMMA ServerDeparts ==
  ASSUME TypeInv, SendersCalls, DepartInv, ServerNext
  PROVE  DepartInv'
<1>1. UNCHANGED sender /\ LiveTokens'
  BY ServerAnswers, ServerKeepsLive DEF DepartInv
<1>2. ASSUME Entitled PROVE Entitled'
  BY <1>2, EntitledKept
<1>3. ASSUME Departed, sender.pc # "adding" PROVE Departed'
  BY <1>3, DepartedKept
<1>4. ASSUME sender.pc = "adding" PROVE AdmitCall'
  <2>1. AdmitCall /\ MayAsk'
    BY <1>1, <1>4 DEF DepartInv, AdmitCall, MayAsk, Own
  <2>2. CASE rpc'["sender"] = rpc["sender"]
    BY <1>1, <1>2, <2>1, <2>2 DEF AdmitCall, Asks, Own
  <2>3. CASE Serve("sender")
    <3>1. rpc'["sender"].phase = "done"
      BY <2>3, ServerAnswers
    <3>2. CASE rpc["sender"].phase = "sent"
      BY <2>1, <2>3, <3>1, <3>2, AdmissionGranted DEF AdmitCall
    <3>3. CASE rpc["sender"].phase # "sent"
      <4>1. Lose("sender")
        BY <2>3, <3>3 DEF Serve, ServeReserve, ServeFree, ServeRegister, ServeDeregister, ServeState,
           ServeSenders, ServeQuery, Refuse, Asked, Granted
      <4>2. ~rpc'["sender"].ok
        BY <4>1 DEF Lose, Fail, TypeInv, RpcTyped, RpcShape, Clients
      <4>. QED
        BY <2>1, <3>1, <4>2 DEF AdmitCall
    <3>. QED
      BY <3>2, <3>3
  <2>. QED
    BY <2>2, <2>3, ServerAnswers
<1>5. ASSUME sender.pc = "removing" PROVE DropCall'
  <2>1. DropCall /\ Entitled'
    BY <1>2, <1>5 DEF DepartInv, DropCall
  <2>2. CASE rpc'["sender"] = rpc["sender"]
    BY <1>1, <1>3, <1>5, <2>1, <2>2 DEF DropCall, Asks, Own
  <2>3. CASE Serve("sender")
    <3>1. rpc'["sender"].phase = "done"
      BY <2>3, ServerAnswers
    <3>2. CASE rpc["sender"].phase = "sent"
      BY <2>1, <2>3, <3>1, <3>2, RemovalServed DEF DropCall, DepartInv
    <3>3. CASE rpc["sender"].phase # "sent"
      <4>1. Lose("sender")
        BY <2>3, <3>3 DEF Serve, ServeReserve, ServeFree, ServeRegister, ServeDeregister, ServeState,
           ServeSenders, ServeQuery, Refuse, Asked, Granted
      <4>2. Departed'
        BY <4>1 DEF Lose, Departed
      <4>. QED
        BY <2>1, <3>1, <4>2 DEF DropCall
    <3>. QED
      BY <3>2, <3>3
  <2>. QED
    BY <2>2, <2>3, ServerAnswers
<1>. QED
  BY <1>1, <1>2, <1>3, <1>4, <1>5 DEF DepartInv

(* The other tools' steps. *)
LEMMA DepartFrame ==
  ASSUME DepartInv, UNCHANGED <<lbs, live, sender, faults>>, rpc'["sender"] = rpc["sender"]
  PROVE  DepartInv'
  BY DEF DepartInv, LiveTokens, Entitled, MayAsk, Cleared, AdmitCall, DropCall, Departed, Asks, Own

LEMMA OthersServerKept ==
  ASSUME LbadmNext \/ WorkerNext \/ StateThreadNext
  PROVE  UNCHANGED <<lbs, live, faults>>
<1>1. CASE LbadmNext
  BY <1>1 DEF LbadmNext, RunCommand, CommandFails, CommandSucceeds, ReserveSucceeds,
     RegisterSucceeds, server
<1>2. CASE StateThreadNext
  BY <1>2 DEF StateThreadNext, CallSendState, SendStateReturns, StateThreadEnds, server
<1>. QED
  BY <1>1, <1>2, WorkerServerKept DEF server

(* The sender's steps leave the control plane alone, and what it is entitled *)
(* to while its URI and command line stay.                                    *)
LEMMA SenderFrame ==
  ASSUME SenderNext
  PROVE  /\ UNCHANGED <<lbs, live, faults>>
         /\ LiveTokens => LiveTokens'
         /\ sender'.uri = sender.uri /\ sender'.run = sender.run =>
               /\ MayAsk => MayAsk'
               /\ Entitled => Entitled'
               /\ Departed => Departed'
<1>1. UNCHANGED <<lbs, live, faults>>
  BY DEF SenderNext, SenderSteps, LaunchSender, InterruptSender, AllSent, CallAddSenders,
     AddSendersReturns, BuildSegmenter, OpenSegmenter, OpenSegmenterFails, SendingEnds,
     StopSegmenter, CallRemoveSenders, RemoveSendersReturns, SenderExits, server
<1>. QED
  BY <1>1 DEF LiveTokens, MayAsk, Entitled, Departed, Cleared, Own

LEMMA CallAddDeparts ==
  ASSUME TypeInv, DepartInv, CallAddSenders
  PROVE  DepartInv'
<1>. DEFINE req == IF sender.run.ip = NoAddr THEN AddSenderSelf(sender.uri, FALSE)
                   ELSE AddSenders(sender.uri, {sender.run.ip})
<1>1. SenderNext
  BY DEF SenderNext, SenderSteps
<1>2. req.op # "early" => MayAsk /\ req = [op |-> "AddSenders", token |-> sender.uri.tok["instance"],
                                           lb |-> sender.uri.lbId, sid |-> sender.uri.sid, arg |-> Own]
  BY DEF AddSenderSelf, AddSenders, Rpc, Early, NoToken, Own, SenderAddrs, MayAsk
<1>3. /\ Try("sender", "addsenders", sender.uri, req) /\ sender.pc = "add"
      /\ IF req.op = "early" THEN sender' = SDead("-1")
         ELSE sender' = [sender EXCEPT !.pc = "adding"]
  BY DEF CallAddSenders
<1>. HIDE DEF req
<1>4. CASE req.op = "early"
  <2>1. sender'.pc = "exited" /\ sender'.seg = "none"
    BY <1>3, <1>4 DEF SDead, SenderOff
  <2>. QED
    BY <1>1, <2>1, SenderFrame DEF DepartInv
<1>5. CASE req.op # "early"
  <2>1. /\ sender'.pc = "adding" /\ sender'.uri = sender.uri /\ sender'.run = sender.run
        /\ sender'.seg = sender.seg
        /\ rpc'["sender"] = [phase |-> "sent", req |-> req]
    BY <1>3, <1>5 DEF Try, TypeInv, ToolsTyped, SenderShape, RpcTyped, RpcShape, Clients
  <2>2. AdmitCall'
    BY <1>1, <1>2, <1>5, <2>1, SenderFrame DEF AdmitCall, Asks, Own
  <2>. QED
    BY <1>1, <1>3, <2>1, <2>2, SenderFrame DEF DepartInv
<1>. QED
  BY <1>4, <1>5

LEMMA CallRemoveDeparts ==
  ASSUME TypeInv, DepartInv, CallRemoveSenders
  PROVE  DepartInv'
<1>. DEFINE req == IF sender.run.ip = NoAddr THEN RemoveSenderSelf(sender.uri, FALSE)
                   ELSE RemoveSenders(sender.uri, {sender.run.ip})
<1>1. SenderNext /\ sender.pc = "remove"
  BY DEF SenderNext, SenderSteps, CallRemoveSenders
<1>2. /\ sender'.pc \in {"removing", "end"} /\ sender'.uri = sender.uri /\ sender'.run = sender.run
      /\ sender'.seg = sender.seg /\ sender'.flags = sender.flags
      /\ sender'.pc = "removing" => sender.flags.useCP
  BY DEF CallRemoveSenders, SGoto, TypeInv, ToolsTyped, SenderShape
<1>3. ASSUME sender.flags.useCP
      PROVE  /\ Entitled
             /\ sender'.pc = "removing" /\ rpc'["sender"] = [phase |-> "sent", req |-> req]
             /\ req = [op |-> "RemoveSenders", token |-> sender.uri.tok["instance"],
                       lb |-> sender.uri.lbId, sid |-> sender.uri.sid, arg |-> Own]
  <2>1. Entitled
    BY <1>1, <1>3 DEF DepartInv
  <2>2. req = [op |-> "RemoveSenders", token |-> sender.uri.tok["instance"],
               lb |-> sender.uri.lbId, sid |-> sender.uri.sid, arg |-> Own]
    BY <2>1 DEF Entitled, MayAsk, RemoveSenderSelf, RemoveSenders, Rpc, Own, SenderAddrs
  <2>3. /\ Try("sender", "removesenders", sender.uri, req)
        /\ SGoto(IF req.op = "early" THEN "end" ELSE "removing")
    BY <1>3 DEF CallRemoveSenders
  <2>. HIDE DEF req
  <2>4. req.op = "RemoveSenders"
    BY <2>2
  <2>. QED
    BY <2>1, <2>2, <2>3, <2>4 DEF Try, SGoto, TypeInv, ToolsTyped, SenderShape, RpcTyped, RpcShape,
       Clients
<1>. HIDE DEF req
<1>4. sender'.pc = "removing" => DropCall'
  BY <1>1, <1>2, <1>3, SenderFrame DEF DropCall, Asks, Own
<1>. QED
  BY <1>1, <1>2, <1>3, <1>4, SenderFrame DEF DepartInv

LEMMA SenderDeparts ==
  ASSUME TypeInv, DepartInv, SenderNext
  PROVE  DepartInv'
<1>. USE DEF TypeInv, ToolsTyped
<1>1. CASE CallAddSenders
  BY <1>1, CallAddDeparts
<1>2. CASE CallRemoveSenders
  BY <1>2, CallRemoveDeparts
<1>3. CASE AddSendersReturns
  <2>1. \/ /\ sender.pc = "adding" /\ sender'.pc = "build" /\ sender'.uri = sender.uri
           /\ sender'.run = sender.run /\ sender'.seg = sender.seg
           /\ rpc["sender"].phase = "done" /\ rpc["sender"].ok
        \/ sender'.pc = "exited" /\ sender'.seg = "none"
    BY <1>3 DEF AddSendersReturns, Returned, SDead, SenderOff, SenderShape
  <2>. QED
    BY <2>1, SenderFrame DEF DepartInv, AdmitCall
<1>4. CASE RemoveSendersReturns
  <2>1. /\ sender.pc = "removing" /\ sender'.pc = "end" /\ sender'.uri = sender.uri
        /\ sender'.run = sender.run /\ sender'.seg = sender.seg
        /\ rpc["sender"].phase = "done"
    BY <1>4 DEF RemoveSendersReturns, Returned, SGoto, SenderShape
  <2>. QED
    BY <2>1, SenderFrame DEF DepartInv, DropCall
<1>5. ASSUME NEW run \in SenderRuns, LaunchSender(run) PROVE DepartInv'
  <2>1. \/ \E code : sender' = SDead(code)
        \/ \E u, flags : sender' = [SenderOff EXCEPT !.pc = IF flags.useCP THEN "add" ELSE "build",
                                                 !.uri = u, !.run = run, !.flags = flags]
    BY <1>5, Zenon DEF LaunchSender
  <2>2. /\ sender'.seg = "none"
        /\ sender'.pc \in {"exited", "add"} \/ (sender'.pc = "build" /\ ~sender'.flags.useCP)
    <3>1. CASE \E code : sender' = SDead(code)
      BY <3>1 DEF SDead, SenderOff
    <3>2. ASSUME NEW u, NEW flags,
                 sender' = [SenderOff EXCEPT !.pc = IF flags.useCP THEN "add" ELSE "build",
                                             !.uri = u, !.run = run, !.flags = flags]
          PROVE  /\ sender'.seg = "none"
                 /\ sender'.pc \in {"exited", "add"} \/ (sender'.pc = "build" /\ ~sender'.flags.useCP)
      <4>1. /\ sender'.seg = "none" /\ sender'.flags = flags
            /\ sender'.pc = IF flags.useCP THEN "add" ELSE "build"
        BY <3>2 DEF SenderOff
      <4>2. CASE flags.useCP
        BY <4>1, <4>2
      <4>3. CASE ~flags.useCP
        <5>1. sender'.pc = "build" /\ ~sender'.flags.useCP
          BY <4>1, <4>3, Zenon
        <5>. QED
          BY <4>1, <5>1
      <4>. QED
        BY <4>2, <4>3
    <3>. QED
      BY <2>1, <3>1, <3>2
  <2>. QED
    BY <2>2, SenderFrame DEF DepartInv
<1>6. CASE BuildSegmenter \/ OpenSegmenter \/ OpenSegmenterFails
  <2>1. \/ /\ sender.pc \in {"build", "open"} /\ sender'.pc \in {"open", "sending", "stop"}
           /\ sender'.uri = sender.uri /\ sender'.run = sender.run /\ sender'.flags = sender.flags
           /\ sender'.seg \in {"built", "open", sender.seg}
        \/ sender'.pc = "exited" /\ sender'.seg = "none"
    BY <1>6 DEF BuildSegmenter, OpenSegmenter, OpenSegmenterFails, SDead, SenderOff, SenderShape
  <2>. QED
    BY <2>1, SenderFrame DEF DepartInv
<1>7. CASE SendingEnds \/ StopSegmenter \/ InterruptSender \/ AllSent
  <2>1. /\ sender.pc \in {"sending", "stop"} /\ sender'.pc \in {"sending", "stop", "remove"}
        /\ sender'.uri = sender.uri /\ sender'.run = sender.run /\ sender'.flags = sender.flags
        /\ sender'.seg = sender.seg \/ sender'.pc = "remove"
    BY <1>7 DEF SendingEnds, StopSegmenter, InterruptSender, AllSent, SGoto, SenderShape
  <2>. QED
    BY <2>1, SenderFrame DEF DepartInv
<1>8. CASE SenderExits
  <2>1. /\ sender.pc = "end" /\ sender'.pc = "exited" /\ sender'.uri = sender.uri
        /\ sender'.run = sender.run /\ sender'.flags = sender.flags /\ sender'.seg = sender.seg
    BY <1>8 DEF SenderExits, SenderShape
  <2>. QED
    BY <2>1, SenderFrame DEF DepartInv
<1>. QED
  BY <1>1, <1>2, <1>3, <1>4, <1>5, <1>6, <1>7, <1>8 DEF SenderNext, SenderSteps

LEMMA DepartInductive == TypeInv /\ AllowInv /\ DepartInv /\ [Next]_vars => DepartInv'
<1>. SUFFICES ASSUME TypeInv, AllowInv, DepartInv, [Next]_vars PROVE DepartInv'
  OBVIOUS
<1>1. CASE LbadmNext \/ WorkerNext \/ StateThreadNext
  BY <1>1, OthersServerKept, WorkerCalls, LbadmCalls, DepartFrame DEF AllowInv
<1>2. CASE UNCHANGED vars
  BY <1>2, DepartFrame DEF vars
<1>. QED
  BY <1>1, <1>2, ServerDeparts, SenderDeparts DEF Next, AllowInv

-----------------------------------------------------------------------------
(* A tool that ends leaves nothing of its own with the control plane, unless *)
(* it was killed or the network failed one of its calls: a worker's session  *)
(* is ended, on every path from registerWorker() to exit(), and a sender's    *)
(* addresses are off the LB's list.                                           *)
THEOREM ExitIsClean == Spec => []CleanExit
<1>1. Init => TypeInv /\ RegisterInv /\ LeaveInv /\ AllowInv /\ DepartInv
  <2>1. Init => RegisterInv
    BY DEF Init, RegisterInv, WorkerShape, WorkerOff, SessionShape, NoSession, RpcShape,
       Launched, Started
  <2>2. Init => LeaveInv
    BY DEF Init, LeaveInv, Mine, NoSession, RegisterSent, RegisterNoted, WorkerOff, Idle, Clients
  <2>3. Init => AllowInv
    BY DEF Init, AllowInv, SenderOff, SendersCalls, Idle, Clients
  <2>4. Init => DepartInv
    BY DEF Init, DepartInv, LiveTokens, SenderOff
  <2>. QED
    BY <2>1, <2>2, <2>3, <2>4, InitTyped
<1>2. LeaveInv /\ DepartInv => CleanExit
  <2>1. ASSUME LeaveInv, worker.pc = "exited", "worker" \notin faults, NEW s \in Sids,
               sessions[s].by = "worker"
        PROVE  ~Open(s)
    BY <2>1 DEF LeaveInv, Mine, Traced, Brought, Held, Ending
  <2>2. ASSUME DepartInv, sender.pc = "exited", sender.seg = "stopped", "sender" \notin faults,
               sender.flags.useCP
        PROVE  \/ Gone(sender.uri)
               \/ Own \cap (lbs[sender.uri.lbId].admitted \ lbs[sender.uri.lbId].byLbadm) = {}
    BY <2>2 DEF DepartInv, Departed, Cleared, Gone
  <2>. QED
    BY <2>1, <2>2 DEF CleanExit, Own
<1>. QED
  BY <1>1, <1>2, TypeInductive, RegisterInductive, LeaveInductive, AllowInductive, DepartInductive,
     PTL DEF Spec
=============================================================================
