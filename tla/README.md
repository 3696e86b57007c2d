# A verification project for E2SAR

E2SAR is the sender and receiver library of the EJFAT load balancer. A
*Segmenter* cuts events (byte buffers) into UDP fragments and sends them to the
load balancer, which forwards all fragments of an event to one port of one
worker. A *Reassembler* on the worker puts the events together again and queues
them for the user. An *LBManager* talks to the load balancer's control plane
over gRPC. Three tools use them: `lbadm`, the operator's commands, and
`e2sar_perf` and `e2sar_ft`, which run a sender or a receiver. This directory
holds TLA+ models of the library, the TLC configurations that check them and
machine-checked proofs about them.

## 1. The system

| Part | State | Operations | Talks to |
|---|---|---|---|
| **Reassembler event queue** (`e2sarDPReassembler.hpp`) | lock-free queue of item pointers, `eventQueueDepth`, condition variable, `threadsStop` | `enqueue`, `dequeue`, `getEvent`, `recvEvent`, the drain in `stopThreads` | receive threads push, user threads pop, the SendState thread reads the depth |
| **Receive threads** (`RecvThreadState`) | `eventsInProgress`, `evtsInProgressMutex`, `lostEvents`, sockets | the loop: select, receive, look up or make an item, copy, complete, enqueue | network, event queue, collector |
| **Garbage collector** (`GCThreadState`) | none of its own | the loop: walk all maps and give up on overdue events; drain the maps on stop | every receive thread's map |
| **SendState thread** | PID sample buffer | sample the queue, compute the control signal, `sendState` | event queue, LBManager |
| **Reassembler set-up** | port assignment, `registeredWorker` | `openAndStart`, `_open`, `registerWorker`, `deregisterWorker` | sockets, LBManager |
| **Segmenter** (`e2sarDPSegmenter`) | bounded send queue, `userEventNum`, `roundRobinIndex`, statistics, two stop flags | `sendEvent`, `addToSendQueue`, the send thread and its pool, `_send` (three modes), the sync thread, `stopThreads` | user threads, network |
| **LBManager** (`e2sarCP`) | an `EjfatURI` and the gRPC stub | `reserveLB`, `getLB`, `freeLB`, `registerWorker`, `deregisterWorker`, `sendState`, senders, tokens, `timeseries` | control plane |
| **EjfatURI** (`e2sarUtil`) | tokens by type, LB id, session id, addresses | parsing, getters and setters | LBManager, Segmenter, Reassembler |
| **Headers** (`e2sarHeaders`) | none | byte layout and validation of LB, RE and Sync headers | the data plane |
| **Tools** (`bin/lbadm.cpp`, `bin/e2sar_perf.cpp`, `bin/e2sar_ft.cpp`) | `EJFAT_URI` in the shell, `segPtr`, `reasPtr`, `lbmPtr`, `threadsRunning` | one command of `lbadm`; launch, run, Ctrl-C and `shutDown` of a sender or receiver | all of the above, and each other through the URI |
| **UDP relay** (`bin/e2sar_udp_relay.cpp`) | counters | receive, validate, forward a Sync packet | network |
| **Network utilities, affinity, lbmonitor, Python bindings** | none that matters | wrappers and command lines | the library |

### What is hard in it

* Everything in the Reassembler is concurrent: `numRecvThreads` receive
  threads, the collector, the SendState thread, any number of user threads and
  the caller of `stopThreads` share the queue, its separate counter, the maps
  and the stop flag. The mutex of a map is held for the look-up only.
* The network loses, duplicates and reorders fragments.
* A time-out (the collector) races the late fragment and the completion of the
  event it gives up on.
* A stop happens while all of them run, and the threads notice it one by one.
* The tools are processes that share a text in the shell and a server. A call
  may be lost on its way out or back, a session or a reservation may expire
  under a tool that runs, a receiver may be killed, and each tool undoes on exit
  what it did at its start.

### What makes each part correct

* Event queue: an event is in one place at any time, whatever the interleaving;
  the counter says how many entries there are; nobody waits for ever; after a
  stop the queue stays empty.
* Receive threads and collector: a buffer is owned by one of map, thread, queue,
  user and released once; what is queued is whole; an event is delivered or
  lost, not both; the statistics say which; every event in progress is resolved;
  a stop ends and releases everything.
* Segmenter: an event accepted by the queue is in one place until its item is
  deleted; its fragments tile it; its callback runs once, after it was sent; the
  statistics agree with what was sent; a stop loses no queued event and ends.
* EjfatURI and LBManager: the URI one tool prints is the URI the next one reads,
  with the token, LB and session its calls need.
* Tools and set-up: state is reported only by a registered worker, packets leave
  only from an admitted sender, the ports announced are the ports bound, and a
  tool that is asked to stop undoes what it did and exits.

## 2. The modules

| Module | Models | Lines of code |
|---|---|---|
| `EventQueue` | the shared event queue and its users | `e2sarDPReassembler.hpp` 125-161, 653-679; `.cpp` 519-601, 626-676 |
| `EventQueueProofs` | theorems about `EventQueue` | |
| `Reassembler` | receive threads, collector and stop, on top of `EventQueue` | `.cpp` 236-433; `.hpp` 60-123, 225-280, 584-595, 653-689 |
| `ReassemblerProofs` | theorems about `Reassembler`, and that it implements `EventQueue` | |
| `ReassemblerDeliveryProofs` | theorems about what becomes of its events | |
| `Segmenter` | numbering, send queue, send thread and pool, `_send`, sync thread and stop | `e2sarDPSegmenter.cpp` 160-280, 375-468, 658-871, 900-948; `.hpp` 80-144, 535-553 |
| `SegmenterProofs` | theorems about `Segmenter` | |
| `EjfatURI` | the URI object: parsing, printing, setters (operators) | `e2sarUtil.cpp` 189-416; `e2sarUtil.hpp` 55-492 |
| `LBManager` | the requests and replies of the control-plane client (operators) | `e2sarCP.cpp` 62-1049; `e2sarCP.hpp` 772-798 |
| `Setup` | optimizations, flags and INI files, both constructors, ports (operators) | `e2sarUtil.cpp` 67-110; `e2sarDPReassembler.cpp` 37-181, 435-510, 603-612, 678-719; `e2sarDPSegmenter.cpp` 20-158, 483-637, 950-996 |
| `ControlPlane` | the tools' processes, their RPCs and the control plane | `lbadm.cpp` 48-1160, `e2sar_perf.cpp` 30-783, `e2sar_ft.cpp` 34-817 |
| `ControlPlaneProofs` | theorems about `ControlPlane`'s protocols | |
| `ControlPlaneURIProofs` | theorems about `EjfatURI`, `LBManager` and the credentials that pass through them | |
| `ControlPlaneSetupProofs` | theorems about what `Setup` computes: ports and sockets | |
| `MCEventQueue`, `MCReassembler`, `MCSegmenter`, `MCControlPlane` | constants for TLC | |

`Reassembler` instantiates `EventQueue`. `ControlPlane` extends `Setup`, which
extends `LBManager`, which extends `EjfatURI`.

Definitions keep the names of the source (`eventQueueDepth`, `threadsStop`,
`eventsInProgress`, `lostEvents`, `logLostEvent` as `LogLostEvent`, ...).
PROJECT.json maps each of them to its lines. A definition with an underscore in
its name, such as `Copy_lastFragment`, is a mutant: the operator it is named
for, broken the way a slip of the pen might break the code. Each checked
property is shown to fail under one of them.

### EventQueue

The state is the queue, the counter, the stop flag and the place of every
thread: a producer (receive thread) is outside `enqueue()`, about to push, about
to count its push, or about to drop a refused event; a consumer (user thread) is
outside, about to try a dequeue, about to count its pop, empty-handed, or
waiting. **A push and its count, and a pop and its count, are two steps**,
because the code makes them two atomic operations; so are a failed dequeue and
the wait that follows it. `getEvent` and `recvEvent` are one state machine:
`getEvent` is a `recvEvent` that gives up at its first empty dequeue.

* `Offer`, `PushAccepted`, `PushRefused`, `CountPush`, `Drop`: `enqueue()` and
  what its caller does with the result. The queue is `boost::lockfree::queue`
  with its default, not fixed size: QSIZE is only what it allocates at first. It
  may refuse a push when it has to allocate and cannot, so `PushRefused` is
  possible, never certain, from QSIZE entries on.
* `Call`, `Pop`, `PopEmpty`, `Return`, `Wait`, `WaitTimeout`, `GiveUp`:
  `getEvent()`/`recvEvent()`. `notify_all` (in `enqueue` and `stopThreads`) is
  `Notified`: it moves the consumers that are waiting *now*.
* `Sample`, `Report`, `SendStateExit`: the SendState thread. The counter is a
  `size_t`, so it is read modulo `SizeMod`. `sendState()` may refuse the value
  or the RPC fail; only statistics tell the difference.
* `StopThreads`, `JoinThreads`, `DrainPop`, `DrainEnd`: `stopThreads()` up to
  the end of the queue's drain. The drain pops without counting.

`threadsStop` is a plain `bool` that several threads read and one writes. The
loops that read it call functions the compiler cannot see into, so a build reads
it anew each time round: the model lets a thread see the write at once or, as
each thread moves at its own time, any time later.

### Reassembler

An `EventQueueItem` is an index into the sequence `items`, with the event it
belongs to, the bytes counted (`curBytes`) and the bytes really there (`got`,
which the code does not have). All fragments of an event carry the same entropy
and reach the same thread, so the maps of all threads are one function from
events to items. A receive thread's place is its program counter; **the mutex is
free while it copies, counts and enqueues**, and `gThread` is the thread whose
mutex the collector holds.

* `StartItem` and `JoinItem`: a fragment arrives and is looked up. `StartItem`
  overwrites the entry when the offset is 0, like the code.
* `Copy`, `Erase`, `CallEnqueue`, `InEnqueue`, `Enqueued`, `EnqueueFailed`,
  `CountSuccess`: the rest of the loop's body. `eventSuccess` is counted also
  for an event that `enqueue()` refused, like in the code (`success_count`).
* `Select`, `EndPass`, `RecvExit`: the loop around it. A discarded header, a
  socket error and a time-out of `select` are an `EndPass`.
* `GCPass`, `GCLock`, `GCCollect`, `GCUnlock`, `GCStop`, `GCDrain`: the
  collector. A pass takes the time once, at its top: what is overdue then
  (`gOld`) is what it collects. `Age` lets an event become overdue; items do so
  in the order they were made.
* `StopReturn` ends `stopThreads()` once the collector is joined.

The queue actions are those of `EventQueue`, through
`Q == INSTANCE EventQueue WITH Items <- 1 .. MaxItems, Producers <- Threads`;
the run `reassembler_dup` checks that the composition implements `Q!SafeSpec`.
`handled`, `collected`, `torn` and `late` are histories.

### Segmenter

A user is between a call and the taking of a number, about to push, or (after
`sendEvent`) inside `_send`; a worker of the pool is idle, waits for a ring's
lock, is inside `_send`, reaps, or is about to call the callback. Both run the
same `_send` actions. `mode` is the optimization selected before start-up.

* `Call`, `TakeNumber`, `Push`, `PushFull`: `addToSendQueue()` and the beginning
  of `sendEvent()`. **Storing the caller's number and the post-increment that
  reads it are two steps.** The send queue is `fixed_sized<true>`: it refuses
  at QSIZE.
* `CheckStop`, `Pop`, `Post`, `DrainRing`, `SendExit`: the send thread. The
  inner loop does not look at the stop flag. `NextSocket` is the round robin; a
  race with `sendEvent()` on the plain index may give any socket.
* `SendMsg`, `SendMsgFails`, `SendMMsg`, `Submit`, `SendDone`: `_send()`, one
  step per system call. `sendmmsg` may take any number of the fragments.
* `Lock`, `ReapRing`, `Unlock`, `Callback`: what a worker does around it.
  `Complete` is the kernel: it completes submissions in any order, each with
  success or an error.
* `Sync`, `SyncExit`: the sync thread's exchange of the event count. It runs
  only with a control plane (`useCP`).
* `StopThreads`, `StopSend`, `StopFlag`, `StopSync`, `StopReturn`:
  `stopThreads()`; other users may go on calling meanwhile.

`sent`, `complete`, `failed`, `finished`, `called`, `early`, `asked` and
`reported` are histories. Submitting to a ring is one step also for
`sendEvent()`, which takes no lock: what two unlocked submissions do to the
ring's memory is undefined, and the model goes on as if they had been ordered.
After a stop the sockets are closed and sends can only fail; the model lets
them succeed as well.

### EjfatURI, LBManager and Setup

Pure operators, one per method, in the order of the source.

* A URI object is a record of its members. A URI *text* is a record too: its
  parts and the sequence of its query's parameters, so that what the code glues
  or drops when it prints can be seen when it is read again. `Parse` and
  `ToString` are not inverses of each other, as in the code: the data port is
  not printed, only one token is, and a session id without any address lands in
  the path. A port is cut to 16 bits before its range is looked at.
* A token, an id or a name is a sequence of opaque pieces, `<<>>` the empty
  string. An address is a member of `V4` or `V6`; any other value in its place is
  text that does not parse.
* A method of `LBManager` gives the request it sends, or `Early` or `NoToken`
  when it returns before the RPC (a missing token is found before a bad argument,
  as in the code). `FillReservation` and `FillSession` are what a reply does to
  the URI, half of it when an address in it does not parse.
* `Setup` has the flags with their defaults, what an INI file and the command
  line make of them, and the constructors down to their checks, in
  `Reassembler`, `SegmenterBuilds` and what these use. `AssignPorts`,
  `BoundPorts` and `Destinations` are the endpoints.

### ControlPlane

Four clients make RPCs: `lbadm`, the receiver's main thread (`worker`), its
send-state thread (`state`) and the sender. An RPC goes out (`Try`), is answered
by the control plane or lost either way (`Lose`), and returns to its caller, who
acts on it in an action of its own: **between any two of these steps the others
move**. All clients block on their call, without a deadline.

* `env` is `EJFAT_URI`. `RunCommand` is `lbadm`'s `main` up to the RPC: it
  chooses the token type, parses the URI it is given, applies `--lbid`, and calls
  the command's method (`CommandRequest`; `addsenders` and `removesenders` take
  the host's own addresses when they are given none). `ReserveSucceeds` and
  `RegisterSucceeds` print the URI that the shell exports.
* The receiver: `LaunchWorker` (URI, flags, constructor), `CallRegister`,
  `RegisterReturns`, `OpenAndStart`, which starts the send-state thread, then
  `ReadersEnd`, and `shutDown`: `CallDeregister`, `DeregisterReturns`,
  `StopThreads`, `WorkerJoins`. `HostNameFails` and `OpenFails` are the errors
  between. The send-state thread goes on through all of that until it sees the
  flag, and counts its errors.
* The sender: `LaunchSender`, `CallAddSenders`, `AddSendersReturns`,
  `BuildSegmenter`, `OpenSegmenter`, then `SendingEnds` and `shutDown`.
  `e2sar_perf` stops the segmenter in `shutDown` and then removes the sender
  (`StopSegmenter`, `CallRemoveSenders`); `e2sar_ft` stops it when all files
  were read. `seg` is "open" as long as the segmenter's threads may emit packets.
* The control plane is external. It is modelled from how the client uses it: an
  administrator's token opens everything, a reservation's token what concerns its
  LB, a session's token its session; ids and tokens are given once; the end of a
  reservation ends its sessions and tokens; a worker that sends no state after
  its registration loses its session (the note at `e2sarCP.hpp:607`). The end of
  a reservation comes at any time unless it is indefinite.
* `refused` and `faults` are histories: the calls turned down for want of a
  credential, and the tools that lost a call. So is the field `byLbadm` of an LB:
  the addresses that `lbadm`, rather than a sender, was the last to put on its
  list or take off it.

Ctrl-C before the threads run sets a flag that nobody reads until they do, so
`InterruptWorker` and `InterruptSender` belong to the running tool.

## 3. The runs

Each property is stated above its definition; this table says what it is aimed at.

| Run | Instance | Checks |
|---|---|---|
| `event_queue` | 3 events, 2 producers, 2 consumers, QSIZE 2, SendState thread | `TypeOK`; `DepthAgrees` (the counter is off by exactly the updates under way and the drained events); `ConservedOnce` (no event lost, doubled, or freed and returned); `StoppedMeansEmpty`; `WaiterServed` (the lost wake-up is repaired by the time-out); `RecvReturnsOnStop`; `StopCompletes` |
| `queue_fill` | 2 events, QSIZE 4 | finds `FillInRange` violated by a wrap of the counter (section 6) |
| `reassembler_ordered` | 2 receive threads, an event of two fragments and one of one fragment; order kept, loss possible; 3 items, QSIZE 1 | `TypeOK`; `HandedOnce` (no buffer is enqueued twice); `QueuedIsWhole`; `CollectedNotQueued`; `NothingStranded` (no leak); `LostNotDelivered`; `AllArrivedIsWhole`; `StatsAgree`; `StopReleases` |
| `reassembler_dup` | 1 receive thread, an event of two equal fragments; loss, reordering, one duplicate; 3 items, with SendState thread | `QueuedIsWhole`, `CollectedNotQueued`, `InProgressResolved`, `StopReturns`, `QueueSpec` |
| `reassembly_order` | one event, reordering only | finds `AllArrivedIsWhole` violated |
| `collector_race` | one event, order kept, nothing lost | finds `NoUseAfterCollect` violated |
| `success_count` | two events, order kept, nothing lost, QSIZE 1 | finds `SuccessNotLost` violated |
| `segmenter` | 1 user, 2 workers that meet at one ring, an event of two fragments (the second short) and an empty one, QSIZE 1, all three ways to send, `sendEvent()` beside the queue, sync thread | `TypeOK`; `EachOnce`; `FragmentsTile`; `CallbackOnce`; `StopFlushes`; `SendStatsAgree`; `OutstandingAgrees`; `AcceptedFinished`; `StopCompletes` |
| `segmenter_callback` | io_uring, 1 worker, an event of two fragments | finds `CallbackAfterSend` violated |
| `explicit_number` | 2 users who ask for numbers 1 and 2 | finds `ExplicitNumberKept` violated |
| `send_counts` | `sendmmsg`, 1 worker, an event of one fragment | finds `CountsAsDocumented` violated |
| `control_plane` | every `lbadm` command; one LB, two sessions; 5 receivers' and 6 senders' command lines, of which one process runs | `TypeOK`; `NotRefused` (no tool lacks the credential for what it does); `ExportedAgrees` (the exported URI says what the control plane holds); `StateAfterRegister`; `SenderAllowedWhileSending`; `CleanExit`; `EndpointsAgree` (ports announced and bound, addresses sent to); `ToolsExit` |

Seven more instances show what the code is known to do where a property above has
to make an exception or a theorem a hypothesis (section 6). Each of them takes TLC
less than a minute and ends with the violation named; they are kept as examples, to be run by
hand (`tlc -config <cfg> <module>`).

| Configuration | Instance | Violates |
|---|---|---|
| `MCEventQueueExcess.cfg` | 2 events, QSIZE 1, no consumer that could wrap the counter | `FillInRange` |
| `MCReassemblerDouble.cfg` | an event of two equal fragments, order kept, loss and one duplicate | `DeliveredIsWhole` |
| `MCReassemblerStop.cfg` | one event, order kept, nothing lost, a stop | `StopReleasesAll` |
| `MCSegmenterDirect.cfg` | io_uring, 1 worker, a `sendEvent()` that meets a queued event at one ring | `EarlyCalledBack` |
| `MCSegmenterPause.cfg` | io_uring, 1 worker, a user who may pause; fair threads and kernel | `CallbackEventually` |
| `MCControlPlaneBare.cfg` | `control_plane` with a control plane that gives no address | `ExportedAgrees` |
| `MCControlPlaneWeight.cfg` | `control_plane` | `WeightHonoured` |

`HandedOnce` matters beyond itself: `Offer` asks for an item never offered
before, and without `HandedOnce` that guard would hide a second `enqueue()`.

### Bounds, and why they are enough

* Events: three in `event_queue`, one more than QSIZE, so that the queue fills,
  is refused and drains while a third event is on its way. Two producers and two
  consumers give every pair of concurrent operations.
* `MaxItems = 3`: with a loss, a fragment that comes late starts a second item
  for its event, and the other event has one of its own.
* Two fragments are enough for "some are there, some are missing"; the two equal
  fragments of `reassembler_dup` let one fragment and its duplicate add up to
  the length of the event, which is the case where a duplicate does harm.
* `SizeMod = 16` stands for 2^64; it need only exceed the number of events.
* `Age` follows the order of the items: the time-out is one for all.
* The Segmenter's two events exceed its QSIZE of 1, so a push is refused while a
  popped event is on its way; `MaxEventNum` bounds the numbers taken and thereby
  the retries. The one user gives an event to the queue and then sends another with
  `sendEvent()` while the first is with the threads, which is every pair of
  concurrent operations but two calls of users; those race in `explicit_number`.
* The code has a worker per socket, and round robin brings two workers to one ring
  with the third event only. One ring stands for the one they meet at. What two
  rings add, and users and events beyond these, is in the theorems: every safety
  property of the run is proved for any number of them.
* In `control_plane` one tool process runs per behaviour (`MaxTools = 1`),
  `lbadm` registers one worker (`MaxRegistered = 1`), and the commands that run
  beside a tool are those that change what the tool relies on (`Beside`: freeing
  its LB, registering another worker, removing senders, the running one by name
  or as the host's own included); the others are checked while no tool runs. A
  receiver and a sender share nothing but the LB, and what the one may do to the
  other through it (its end) `lbadm` and the expiry do too. Two sessions let a receiver run beside lbadm's worker; one LB is
  enough because an id is given once, and the proofs hold for any number.
* The command lines reach every outcome of the set-up: three threads (four
  ports), a port below 1024, an INI file, a given and a detected address, no
  control plane, a conflicting or missing optimization, and an MTU above that
  of the interface.
* Deadlock checking is on in every run of `EventQueue` and `Reassembler`. The
  Segmenter may stop: after `stopThreads()`, with no event left to give it,
  nothing is enabled. So may the tools: when all have exited and no reservation
  is left.

### Fairness, and why the code justifies it

Threads are scheduled (weak fairness of every thread's own steps), `wait_for`
has a time-out (`WaitTimeout`), `select` has one (`EndPass`), and time passes
(`Age`). `recvEvent` called without a time limit need not give up before a stop,
so `GiveUp` is fair only once the flag is set. No fairness is asked of the
network, of the users (no call need ever be made), nor of `StopThreads`. The
mutexes need no strong fairness here: each is held by the collector for one
finite walk and by a receive thread only inside single steps.

For the Segmenter, every thread in the library keeps running and the kernel
completes what was submitted (`WF_vars(Kernel)`), with success or not. No
fairness is asked of the users' calls or of the sync thread's periods. The ring
lock needs no more: its holder always gets to unlock it, and only finitely many
events can overtake.

For the tools, every process runs on, and **every RPC of theirs ends**, answered
or broken off (`WF_vars(Serve(c))`). The client sets no deadline, so this is what
gRPC's own connection time-outs give; against a control plane that accepts calls
and never answers, `ToolsExit` does not hold. No fairness is asked of Ctrl-C, of
the expiries or of the operator.

## 4. The proofs

TLC checks the instances above. The seven proof modules prove, for every value
of the constants, all the safety invariants that the passing runs check, three of
them (`ExportedAgrees`, `NotRefused`, `EndpointsAgree`) under hypotheses on the
control plane's replies or the command lines that the instances satisfy, and the
refinement. Each inductive invariant named below was checked by TLC on the run's
instance before it was proved. A theorem's proof has one step per
action and under it one per conjunct the action can disturb; what several of them
need is a lemma.

### EventQueue

`EventQueueProofs`, for **every** set of events, every finite set of producers and
consumers, every QSIZE and SizeMod. The theorems are about `SafeSpec`, the
specification without its fairness, which the Reassembler implements.

| Theorem | Says | Argument |
|---|---|---|
| `TypeCorrect` | `[](TypeOK /\ HandsFull)` | `TypeOK` alone is not inductive: a push appends what the producer has in hand, so that must be an item (`HandsFull`). One step per action |
| `Conservation` | `[]ConservedOnce` | inductive with `TypeOK` and `HandsFull`. One lemma per kind of move between the places (`ConservedOffer`, `ConservedPush`, `ConservedPop`, ...) and a frame lemma for all steps that leave the places alone; two lemmas about sequences say what a push and a pop do to the entries |
| `DepthCorrect` | `[]DepthAgrees` | needs that `drained` is finite, and `ConservedOnce`: the item a drain pops was not drained before, so the cardinality grows by one |
| `StopDrains` | `[]StoppedMeansEmpty` | strengthened with "from the drain on, every producer has exited" (`StopInv`) |

The assumptions are those of `EventQueue` (`ItemsAssumption`,
`ThreadsAssumption`, `useCPAssumption`, `SizesAssumption`).

### Reassembler

`ReassemblerProofs`, for every finite set of threads and consumers, every set of
events, cut into fragments in any way, every bound on duplicates, ordered or
not, lossy or not:

| Theorem | Says | Argument |
|---|---|---|
| `HandedOnceCorrect` | `[]HandedOnce` | `RecvInv`: what a thread has in hand is an item it made, and of no other thread; a map's entry belongs to its thread (`MapOwned`); what is in a map or in hands before `enqueue()` was not offered (`NotYetOffered`) |
| `QueueImplemented` | `SafeSpec => QueueSpec` | step simulation: `Q!Init`, and each action of the Reassembler is an action of the queue or leaves its variables alone. A receive thread may only `Offer` an item never offered, which is `HandedOnce` |
| `EventsConserved`, `DepthReported`, `QueueDrained` | EventQueue's `ConservedOnce`, `DepthAgrees`, `StoppedMeansEmpty` hold of the composition | `QueueImplemented` and the theorems about `EventQueue`, instantiated (`QP`) |
| `TypeCorrect` | `[]TypeOK` | `RecvInv` with the types of the network, the collector and the loss log |
| `CollectedNotQueuedCorrect` | `[]CollectedNotQueued` | `CollectInv`: what the collector deleted is in no map, and in hands only as `torn` |
| `StatsAgreeCorrect` | `[]StatsAgree` | `SuccessInv`, an equation over the events offered, the counter and the threads between the two, and `LossInv`, that each event is logged by its own thread's log once |
| `QueuedIsWholeCorrect` | `[]QueuedIsWhole` | `FullInv`: what is past the completion test has its bytes counted, each byte within the buffer |

`ReassemblerDeliveryProofs` adds hypotheses about the network, because without
them the properties are false, as `reassembly_order` and `reassembler_dup` show or
as the property itself says. Each is the setting of the run that checks it:

| Theorem | Under | Argument |
|---|---|---|
| `QueuedWithoutDuplicates` | `MaxDups = 0` | `BytesInv`: each byte of an item came with a fragment that was copied, once and into no other item, so `curBytes` is the number of bytes really there, and what is queued is whole with no exception |
| `LostNotDeliveredCorrect` | `MaxDups = 0` | `LostInv`: a logged event has an item that was collected or dropped. Its bytes are missing from every other item, so none is whole |
| `NothingStrandedCorrect` | `Ordered`, `MaxDups = 0` | `FirstInv`: a fragment of offset 0 still on the network means no item yet, so `StartItem` overwrites no entry; `LeaveInv` says where an item is when it left its map |
| `StopReleasesCorrect` | `Ordered`, `MaxDups = 0` | `DrainInv`: a drained map holds only late events; `ReturnInv` |
| `AllArrivedIsWholeCorrect` | `Ordered`, `MaxDups = 0` | `ArrivedInv`: the bytes handled of an event that nobody gave up on are all in one item, the one in the map until it is whole |

Assumed: finitely many threads, a queue capacity below `SizeMod`, Boolean flags;
an event's fragments go to one thread (`RouteAssumption`: the load balancer picks
the port by the entropy, which the Segmenter gives once per event); an event has at
least one byte and a fragment stays within its event (`BytesAssumption`,
`FragmentsAssumption`: the RE headers carry what the Segmenter put there); the
fragments of an event do not overlap and have all its bytes
(`TilingAssumption`). The last two are what `FragmentsTileCorrect` proves of the
Segmenter.

### Segmenter

`SegmenterProofs`, for every finite set of users and workers, every number of
sockets, QSIZE and packet size, events of any length, empty ones included, and any
choice among the three ways to send:

| Theorem | Says | Argument |
|---|---|---|
| `EachOnceCorrect` | `[]EachOnce` | `HandInv` (who has an event in hand, and its offset) and `OwnInv` (queue, send thread, pool and workers share no event and have none twice) |
| `FragmentsTileCorrect` | `[]FragmentsTile` | `SentInv`: what was sent of an event is its first k fragments, and its sender's offset is where those end; `DoneInv` says who is through with it. Lemmas on `Frag`, `First` and `Reached` do the arithmetic |
| `SendStatsAgreeCorrect` | `[]SendStatsAgree` | `CountInv`, one equation per way to send between the counters and the cardinalities of `sent`, `complete` and the rings |
| `OutstandingAgreesCorrect` | `[]OutstandingAgrees` | `RingInv` (a fragment is in a ring once, submitted or completed) and `CountInv`: `outstandingSends` lacks just the fragments that were sent of events not complete; by `SentInv` and `DoneInv` those are the events of `_send()` calls under way |
| `CallbackOnceCorrect` | `[]CallbackOnce` | `CallInv`: the last fragment of an event carries its callback until it is reaped; two workers inside `_send()` or reaping have different rings, because they hold their locks |
| `StopFlushesCorrect` | `[]StopFlushes` | `FlushInv` follows the stop: the queue is seen empty, the send thread ends with the pool idle and the rings reaped |
| `TypeCorrect` | `[]TypeOK` | all of these and `ValueInv` |

`SendInv` is the conjunction of the first four invariants. Assumed: users and
workers are different threads and finitely many (`ThreadsAssumption`), lengths are
natural numbers (`EventsAssumption`), packet and queue sizes are positive
(`SizesAssumption`; the constructor refuses an MTU that leaves no room for payload),
and the kinds of calls and modes are those of the code (`ModesAssumption`).

### ControlPlane

`ControlPlaneProofs`, `ControlPlaneURIProofs` and `ControlPlaneSetupProofs`, for
every set of addresses, routes, ids, options and command lines, and for every
value of the three bounds:

| Theorem | Says | Argument |
|---|---|---|
| `StateThreadRegistered` | `Spec => []StateAfterRegister` | not inductive: the session must have been recorded by the call and kept in the URI before the thread starts. `RegisterInv` follows it from the request (`RegisterCall`) through the reply to the `open` state; a session given out stays its worker's and its LB's (`SessionsKept`) |
| `TypeCorrect` | `Spec => []TypeOK` | not inductive: what is admitted is what was asked for. `TypeInv` adds that a request to reserve or to add senders, once on its way, holds addresses only (`RpcTyped`), and the shape of the records |
| `SenderAdmitted` | `Spec => []SenderAllowedWhileSending` | `AllowInv`: from the reply of `addSenders` to the stop of the segmenter the LB has the sender's addresses on its list or is over. What makes it inductive is who else may touch the list: `lbadm` only, and what it did last to an address is in `byLbadm` until the sender itself changes it (`SendersCalls`). The sender's own reply takes its addresses out of `byLbadm` and puts them on the list |
| `ExitIsClean` | `Spec => []CleanExit` | for receivers, `LeaveInv` traces each open session of the worker from the reply that brought it, through the URI, to the call that ends it, and says that the control plane would grant that call (`Endable`). For senders, `DepartInv`: that the first call was granted entitles the sender to the second (`Entitled`), so it is refused only when the LB is over |
| `ExportedAgreesCorrect` | `RepliesHaveSync` ⊢ `Spec => []ExportedAgrees` | `ReadBack`: a URI printed with one token and read as that token's type is the URI, but for its data port. `ExportInv` says of the exported text what the reader needs (`EnvInv`), and follows the call that brings it from the request to the reply (`ReserveCall`, `EnlistCall`); what the control plane once gave for an LB stays (`LbsKept`) |
| `NotRefusedCorrect` | `RepliesHaveSync` ⊢ `Spec => []NotRefused` | `CredInv`: every request on its way is backed by a token that covers it (`RequestsBacked`), because the URI of each caller is (`WorkerCred`, `SenderCred`). Coverage is only lost with what it was for, by an end that the control plane does not count as a refusal. One lemma per kind of call shows its token sound, from `ExportedAgrees` |
| `EndpointsAgreeCorrect` | `WorkersFit, SendersFit, RepliesHaveSync` ⊢ `Spec => []EndpointsAgree` | not inductive. `AnnounceInv`: from the registering request on, the session records what the constructor built (`AnnounceCall`, `AsBuilt`), and what it built binds the ports it announces (`Built`). `SendInv`: the URI of a sender is its LB's and its socket count was admitted. The rest is arithmetic about `Setup`: `Announced` (the exponent announced is that of the number of ports bound, from a table of the powers of two) and `Dealt` (the ports dealt to the threads fill the range, none twice) |

`ReadBack` is put together from what each piece of a printed URI does to the
object that reads it (`PrintedQuery`, `DataSet`, ...); `Filled` says the same of a
reservation's reply, address by address.

Assumed, and evaluated by TLC:

* `CPAssumption`: the administrator has the administrator's token; the empty
  string is no id and no token.
* `TokensApart`: the control plane does not give a token twice.
* `AddrAssumption`: no text is an address of both families.
* `AdminTextAssumption`: the URI that the operator starts from parses and has no
  addresses of an LB yet, as in `ejfats://udplbd@192.168.0.3:18347/`; it may name the
  control plane by host name or by address. A URI that does not parse ends every
  tool at once; one with data addresses would hand them on where the reply has none.
* `RepliesAssumption`: a reply to `reserveLB` has no address of one family in the
  other's field, and a port that may be one where it has a sync address. Whether an
  address is there and whether it parses is left open: when one does not parse,
  `lbadm` exports nothing.

`ExportedAgreesCorrect`, `NotRefusedCorrect` and `EndpointsAgreeCorrect` have the
hypothesis `RepliesHaveSync`: every reply has a sync address. No code checks that,
and `MCControlPlaneBare.cfg` shows `ExportedAgrees` false without it.

`EndpointsAgreeCorrect` has two more, on the command lines, which no code
checks either and without which the property is false: `WorkersFit` (a port range, given
or computed, ends below 65536: beyond it a port is cut to 16 bits; what an INI file gives as
the range is a number) and `SendersFit` (no `dpV6`, with which a sender sends to
the IPv6 address of the data plane; the number of sockets is a number). The
run `control_plane` satisfies all three: TLC evaluates `RunsFit` in `MCControlPlane`.

### Only model-checked

* The liveness properties `WaiterServed`, `RecvReturnsOnStop`, `StopCompletes`,
  `InProgressResolved`, `StopReturns`, `AcceptedFinished` and `ToolsExit`: fairness
  and ENABLED are out of the prover's reach.
* What the runs that expect a violation refute.

## 5. What was done in which order, and what is left

`EventQueue` and its proofs, `Reassembler`, `Segmenter`, then `EjfatURI`,
`LBManager`, `Setup`, `ControlPlane` and its proofs; then the proofs about
`Reassembler`, `Segmenter`, the URIs and the endpoints. Worth adding:

* A composition of Segmenter, network and Reassembler shown to implement an
  abstract delivery (whole or lost, at most once) where it does. The two halves
  are proved: fragments tile (`FragmentsTileCorrect`), and tiling fragments are
  delivered whole or lost (`QueuedWithoutDuplicates`, `LostNotDeliveredCorrect`).

## 6. What the checks found

* **The sampled fill can leave [0:1]** (`queue_fill`). The counter is updated
  after the push and the pop. A consumer quick enough to pop before the push is
  counted takes the `size_t` below zero; a sample at that moment is refused by
  `sendState()` and counted as a gRPC error.
* **The fill exceeds 1 when more than QSIZE events wait**
  (`MCEventQueueExcess.cfg`): the queue is not of fixed size, and no state is
  reported as long as it is that long.
* **An event whose first fragment comes second is never put together**
  (`reassembly_order`), although the code has a branch for it.
* **The collector can delete a buffer that a receive thread is using**
  (`collector_race`): the item is looked up under the mutex and used after it.
* **An event refused by the queue is a loss and a success** (`success_count`):
  `eventSuccess` counts it, though its documentation says "events successfully
  processed".
* **A duplicated fragment can stand in for a lost one** (`MCReassemblerDouble.cfg`):
  bytes are counted per arrival, and the user gets an event with a hole.
* **An event begun late in a stop leaks its buffer** (`MCReassemblerStop.cfg`):
  the collector drains each map once, and the receive thread may put another
  event there.
* **With io_uring the callback can come before the event is sent**
  (`segmenter_callback`): only the last fragment carries it, and completions
  come in any order. A caller that frees the buffer in its callback, as
  `e2sar_perf` does, frees it under a fragment that was not sent yet.
* **An explicit event number can go to another producer's event**
  (`explicit_number`): it is stored and read back in two atomic steps.
* **`msgCnt` and `errCnt` count too much when sends fail** (`send_counts`): `sendmsg`
  and `sendmmsg` count the attempt, though the documentation says "fragments sent",
  and when `sendmmsg` takes nothing the -1 it returns is subtracted from the number
  of fragments, one error too many.
* **A queued event's callback is lost when `sendEvent()` runs into a stop**
  (`MCSegmenterDirect.cfg`): it adds to `outstandingSends` after a worker may have
  reaped its fragments, so the counter is 0 (or wraps) while completions are still
  to come.
* **With io_uring a callback waits for the next event** (`MCSegmenterPause.cfg`):
  only a worker that has just submitted reaps. A user who waits for the callback
  before sending the next event waits for ever.
* **A URI without addresses loses its session id** (`MCControlPlaneBare.cfg`): it
  is printed after a "&" that no "?" precedes, and is read back as part of the LB
  id.
* **The weights of an INI file are not used** (`MCControlPlaneWeight.cfg`):
  `getFromINI` reads `weight`, `min_factor` and `max_factor` into `Kd`.
  Registration sends the defaults, and the controller's `Kd` becomes `max_factor`.
  (In the Segmenter's reader, `warmUpMs` goes through a `bool`: 0 or 1.)

A property of a passing run that one of these would falsify excepts just that
case, and says so in its comment:

| Property | Excepts | The case itself |
|---|---|---|
| `CollectedNotQueued`, `LostNotDelivered` | `torn`: buffers deleted in use | `collector_race` |
| `AllArrivedIsWhole` | networks that reorder (its passing run keeps order) | `reassembly_order` |
| `QueuedIsWhole` | events with a fragment counted twice | `MCReassemblerDouble.cfg` |
| `StopReleases` | `late`: events that begin after the drain of their map | `MCReassemblerStop.cfg` |
| `StatsAgree` | `eventSuccess` once `enqueue()` has refused an event | `success_count` |
| `SendStatsAgree` | `msgCnt` once a send has failed; the amount of `errCnt` | `send_counts` |
| `StopFlushes` | callbacks with io_uring when `sendEvent()` is used beside the queue | `MCSegmenterDirect.cfg` |
| `StopFlushes`, `EarlyCalledBack` | callbacks of empty events with io_uring: no fragment carries one | |
| `ExportedAgrees`, `NotRefused` | replies without a sync address, in the theorems | `MCControlPlaneBare.cfg` |

Four exceptions of `ControlPlane`'s properties are of another kind.

* `NotRefused` excepts the deregistration a receiver attempts after its
  registration failed: `registeredWorker` is set before the call and never reset.
* `CleanExit` is about senders that sent: when the Segmenter's constructor throws,
  `shutDown` finds no segmenter and leaves the address admitted.
* `CleanExit` excepts tools that lost a call: a tool that never saw the reply does
  not know its session, and only the control plane's expiry closes it. What the
  loss must not lead to, a wrong URI or a later call without its credential, is
  in `ExportedAgrees` and `NotRefused`.
* `SenderAllowedWhileSending` and `CleanExit` leave an address alone that `lbadm`
  was the last to change. `removesenders` without `-a` on the sender's host takes a
  running sender off the list (and `addsenders` keeps it there after its exit); that
  is what the operator asked for, and no code of the sender's could prevent it.

## 7. What is not modelled

* The contents of events, header layout and validation, IP and socket options.
* The PID control signal: floating-point arithmetic that no other part reads.
* Memory order below the level of atomic operations, and what a torn
  `flat_set` or freed memory may do: the models say when these are reached.
* `fragmentsPerFd`, byte and packet counters: written by one thread each.
* The Segmenter's rate limiting and smoothing (waiting only), entropy and LB
  event numbers, the 32-bit event length of its queue items.
* System calls of the set-up (sockets, buffer sizes, rings, affinity, the MTU of
  an interface): each is a value it may return, or a success or failure.
* `getLB`, which no tool calls; the conversion of replies into status and
  overview records; decoding of time series; TLS options. They change no state.
* `lbadm`'s option parsing and its errors; `--session`, which overrides the URI's
  session id as `--lbid`, which is modelled, overrides its LB's.
* The delegated tokens that `createtoken` makes: no tool uses one.
* In the tools, files and their contents, buffers, reports, `lbmonitor`.
* The UDP relay, which keeps no state from one packet to the next, network
  utilities, and the Python bindings, which forward to the library.
