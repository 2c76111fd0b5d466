# Verification of segue

segue (`src/`) is a daemon that runs *machines* on a small computer. A machine is
a set of adaptors (connections to hardware), drivers (devices behind an adaptor)
and controllers (the logic); drivers and controllers exchange messages through
queues and routes inside the machine, and with other programs through GRPC
servers and plugin processes. Clients change machines over HTTP, and the daemon
writes each machine to a snapshot file from which it restores it.

This directory holds a TLA+ model of that program, the TLC configurations that
check it on small instances and the TLAPS proofs about the message queue, the routes,
the machines, the message streams, the RF24 nodes, the motor control, the options and the
status log.

## 1. Inventory

About 9 000 lines of Go outside `vendor/` and generated code. For each part: its
state, its operations, how it meets the others, what is hard, what makes it
correct.

| Part | Source | State | Operations | Meets the others by |
|---|---|---|---|---|
| Message queue | `common/message/queue.go` | items, dirty set, processing set, shutdown flag, one condition variable | Add, Get, Done, ShutDown, ShuttingDown | every driver and controller owns a send and a receive queue |
| Message router | `common/message/message.go` | RouteMap: message type → slice of queues; one listener goroutine per send queue | AddListener, Add/RemoveSubscriberQueue(s), Validate | started and stopped by the machine, forwards from send queues to receive queues |
| Machine | `pkg/machine/machine.go` | lists of adaptors, controllers, drivers; a mutex; a status ring | Attach/Detach, Start/Stop of drivers and controllers, Snapshot | called by the daemon, calls Start and Stop of modules, changes the routes, writes the snapshot |
| Daemon | `daemon/daemon/*.go` | map of machines, its RW lock, options | MachineJoin, MachineLeave, restore, one method per request | HTTP handlers call it, one goroutine each |
| HTTP server | `daemon/server/*.go` | none | decode, dispatch, encode | calls the daemon |
| Driver life cycle | `common/driverapi/robot.go`, `pkg/drivers/*.go` | done channel, kill channel, worker goroutine | Start, Stop, work | called under the machine's mutex |
| Process watcher | `common/procwatcher/procwatcher.go` | registered processes, watchers, three kinds of goroutine, pid files | StartProcess, StopProcess, Restore, WatchProcs | used by the plugin interface |
| Machine plugin interface | `pkg/controllers/mpi.go` | queues, GRPC server, plugin process | Start, Stop, Messenger stream | starts a process, one stream for each connection |
| GRPC message server | `pkg/controllers/grpcmessageserver.go` | queues, list of stream queues, GRPC server | Start, Stop, Messenger, broadcast | clients outside the program |
| Autonomous drive | `pkg/controllers/autonomous_drive.go` | drive state, distance, a state lock, unbuffered channels | Start, Stop, message handler, drive loop | ultrasonic readings in, motor commands out |
| LIRC controller | `pkg/controllers/lirc.go`, `lircbackend/` | socket reader, key handlers | Start, Stop, dispatch of keys | lircd |
| RF24 plugin | `plugins/rf24networknode/` | master: known children with time stamps, a worker, a queue and a paused flag each; hook: two channels and a lock | Start, Stop, frame and message handlers, heartbeats, removal of stale nodes | a process of its own, GRPC to the daemon, radio to its children |
| Central router | `common/messagerouter/messagerouter.go` | nodes and, by message type, the nodes that subscribe; workers on the receive queues | AddNode, AddRoute, RemoveNode, Stop | the master of the RF24 plugin |
| Hardware drivers | `pkg/drivers/{dualmotors,ultrasonic,led}.go` | speeds, distances | message handler | adaptors |
| Options | `pkg/option/option.go` | boolean options | apply, parse | daemon, machine |
| Status log | `pkg/machine/machine.go` | ring of entries, index | add, dump, snapshot, restore | machine and its snapshot |
| Command line | `daemon/main.go`, `common/client` | options of one command | one request for each command; `config` sends several | daemon, over HTTP |
| Remote car client | `playground/seguepb-clients/remotecar/remotecar.go` | a flag for the timer, a channel of commands | key, timer, quit | GRPC message server |
| Adaptors, protobuf | `pkg/adaptors`, `common/seguepb` | – | I/O and generated code | – |

What is hard, and what should hold:

* **Message queue.** `Signal` wakes one sleeper while a consumer that never slept
  takes the item; an ID that is added while it is processed is requeued by `Done`;
  shutdown overlaps with both. Correct: no request stays dirty without a copy that
  will be handed out; no item waits with everybody asleep; after a shutdown
  everything accepted is handed out before the last consumer returns.
* **Message router.** Routes are changed while listeners walk over them, without
  the lock the listeners hold, inside the very array they read. Correct: the routes
  list exactly the subscribed modules; order is kept; a removal costs little;
  nothing accepted is lost while subscriptions stand.
* **Machine and daemon.** Lookups take no lock, so a request works on an object that
  has left the map; each change ends with a snapshot; MachineLeave deletes from
  slices it walks over; `Stop` of a driver can fail half way, panic or block with
  locks held; the daemon may crash at any point, also while it restores. Correct:
  the snapshot is the machine; a machine that left stays away; nothing that runs is
  lost from the lists; requests come back.
* **Process watcher.** Three goroutines and a waiting caller share two channels of
  capacity one and an unlocked map. Correct: a process is waited for once, restarted
  only when dead, restarted when it dies, ended by a stop, and a stop returns.
* **GRPC servers and plugin interface.** Stop against a server that is still being
  made, streams that come and go during a broadcast, several streams on one queue,
  queues of streams that are gone. Correct: a stream gets what was copied while it was
  registered, once and in order; a stream that is gone leaves the list; Stop ends every
  goroutine and frees the port.
* **From a button to the wheels.** A lock is held while sending on an unbuffered channel;
  buttons and timer number their commands independently, so one can stand in for the
  other as a duplicate; speeds fade up and down and become bytes; every command of the
  remote client has the same version. Correct: no press is lost before it got to the
  wheels or overtakes another, the handler gives its lock back, speeds stay in range, a
  stopped driver sets the wheels once more at most, a car nobody steers comes to rest.
* **LIRC.** A reader that is a state machine over lines of two kinds, channels without a
  buffer, one without a reader. Correct: a reply is what its packet said, every press
  gets through once and in order.
* **RF24 plugin and central router.** A worker that sleeps while its child is paused,
  against heartbeats, the removal of stale nodes and a Stop without locks; three maps
  that must agree. Correct: no worker sleeps for ever, a removed child is sent to once
  more at most, a heartbeat resumes its child, routes lead to current queues only.
  Bytes become frames under a lock that is held while sending on a channel. Correct:
  frames stay whole whatever a read returns, what is read is delivered, the lock is
  given up.
* **Options and status log.** A command that sends its options piecemeal against other
  clients; a ring across its end, snapshots and restarts. Correct: a request is applied
  as a whole or not at all; the log shows the newest entries.

`PROJECT.json` lists every hazard with its line and the properties aimed at it.

## 2. Modules

| Module | Models | Uses |
|---|---|---|
| `QueueOps` | the sequential operations of `Queue` on a record | |
| `WorkPool` | abstract: an at-least-once work pool with requests, busy consumers and closing | |
| `MsgQueue` | `Queue` with blocked consumers and `sync.Cond`; implements `WorkPool` | `QueueOps`, `WorkPool` |
| `DataLemmas` | lemmas on sequences, queue records and cardinalities that the proofs share | `QueueOps` |
| `MsgQueueProofs` | theorems on `MsgQueue` and `Lirc` | `MsgQueue`, `Lirc`, `DataLemmas` |
| `GoSlice` | a Go slice: a length and a shared array, `append` and removal in place | |
| `MsgRouter` | routes of one message type, listeners, modules that start and stop | `QueueOps`, `GoSlice` |
| `MsgRouterProofs` | theorems on `MsgRouter` | `MsgRouter`, `DataLemmas` |
| `MachineLife` | machines, requests, snapshot, crash and restore for one machine ID | `GoSlice` |
| `MachineLifeProofs` | theorems on `MachineLife` | `MachineLife`, `DataLemmas` |
| `ProcWatcher` | the supervisor of one plugin process, with MPI Start and Stop | |
| `CentralRouter` | the central router as a record, one operator for each method | |
| `RF24Nodes` | the children of the RF24 master: heartbeats, workers, removal, Stop | `QueueOps`, `CentralRouter` |
| `RF24NodesProofs` | theorems on `RF24Nodes` and `RF24Radio` | `RF24Nodes`, `RF24Radio`, `DataLemmas` |
| `RF24Radio` | the RF24 plugin between radio and daemon: bytes, frames, messages, envelopes | `QueueOps` |
| `MsgStreams` | the message server and the server of a plugin, with their streams | `QueueOps` |
| `PluginProofs` | theorems on `MsgStreams` and `ProcWatcher` | `MsgStreams`, `ProcWatcher`, `DataLemmas` |
| `AutoDrive` | the autonomous drive controller | `QueueOps` |
| `DualMotors` | the driver of the two motors | `QueueOps` |
| `RemoteCar` | the client that drives the car from a keyboard | `QueueOps` |
| `DriveLoop` | composition: controller, client, router and motors | `AutoDrive`, `RemoteCar`, `DualMotors` |
| `DriveProofs` | theorems on `DriveLoop` | `DriveLoop`, `DataLemmas` |
| `Lirc` | the reader of the lircd socket and the controller behind it | `QueueOps` |
| `StatusLog` | the status ring of a machine, its snapshot and restore | |
| `Settings` | abstract: options that change by whole requests | |
| `Options` | the daemon's options and the `config` command; implements `Settings` | `Settings` |
| `Records` | composition of `StatusLog` and `Options`: a restart hits both | `StatusLog`, `Options` |
| `RecordsProofs` | theorems on `Records` | `Records`, `DataLemmas` |
| `MC...` | instances for TLC, one for each module with a run | |

Operators that end a comment "Mutant" are variants of the definition that follows
them, kept to show that the checks notice such a slip in the code.

### MsgQueue

`q` is the Go struct (`items`, `dirty`, `processing`, `closed`); `pc` says for each
consumer whether it is outside Get, asleep in `cond.Wait`, woken but not yet running,
or has returned; `held` is the message between Get and Done. Add, GetTake, GetWait,
GetShutdown, Done and ShutDown are critical sections under the queue's lock, hence
one action each. `Signal` wakes *any one* sleeper, which then competes for the lock.
A message is its ID: `message.go:156` compares nothing else, and `Queue` stores the
latest payload nowhere. `MaxLen` bounds the items queued, in the guard of Add.

### GoSlice and MsgRouter

`append` in Go writes behind the end of an array if there is room and
`append(s[:i], s[i+1:]...)` moves entries inside it. `GoSlice` has arrays that
several headers can refer to; capacities grow as the Go runtime grows them.
`MsgRouter` uses it for `RouteMap[type]`: each entry that RemoveSubscriberQueue
moves and each entry that a listener reads is a step. A module is one run of a
driver or controller, so a module that is started again is another element of
`Modules`. Each message has an ID of its own. Subscription changes happen under
`Machine.mutex` (see MachineLife), hence one at a time (`Free`): a start is the first
subscription (`Start`) and what comes after it (`EndStart`), with the listeners in
between. A module that subscribes to several types (`Several`) is refused if its queue
has got a message by then, and stays in the routes with nobody to take it; one of
`MayNotStart` forwards but does not work. A module takes a message (`Take`) and is done
with it (`Finish`): a listener that meets it twice may add the message in between, which
`Done` then queues behind later ones, in a queue that is shut as well.

Not in the model: the Go runtime may end the process when it notices the map read
and written at the same time, and the two words of a slice may be read torn.

### MachineLife

One machine ID. `reg` is the entry of the daemon's map, `list` and `inst` the state
of each Machine object, which lives on after it left the map; `mutex` and `mapMU` are
`Machine.mutex` and `machinesMU`; `disk` is the snapshot file; `req` is what the
goroutine of each client is doing. A handler is Lookup (no lock), then its locked
part, then Save: the guards are the early returns of the handlers, which write the
snapshot whether the change succeeded or not. MachineLeave is a loop over a slice
header copied before the loop, one action for each iteration.

A module is listed before it is started, and `Starts` has the ways in which its start can
end: at a subscription, in `Start`, for a plugin (`Plugins`) also with the worker running
and the process master not yet got, or never, while StartProcess waits. A driver whose
device fails to halt is stopped a second time with a full `done` channel, and blocks with
its locks held. The Stop of a plugin waits in StopProcess, which may return or not
(ProcWatcher has the cases), also with a plugin that is well; `Waits` is such a request,
with its locks. A controller that is stopped again, because removing its subscription
failed, closes its kill channel twice and panics, and so does the Stop of a plugin without
a process master (`NoMaster`); deferred calls unlock and net/http recovers.

The snapshot is written to a temporary file and renamed, so a crash sees the old or the
new one. Restart, RestoreAdaptors and RestoreSnapshot are the steps of `restoreMachine`
that leave a file behind, so that a crash can fall between them; the option
`DisableRestore` leaves them out. `raced` remembers whether a request has worked on an
object while its machine left or after, or a second join has replaced a machine.

Requests name one configuration each. MachineUpdate is left out: the body of its
handler is commented out (`handlers.go:188-206`).

### ProcWatcher

One plugin name. `os` is the operating system's list of processes, `procs` and
`entry` are `master.Procs[name]` and `watchProcs[name]`, `watchers` has one record
for each AddProcWatcher that started goroutines, with the contents of its two
channels and the position of its goroutines, `job` is what the request and
WatchProcs are doing. A process is running, a zombie, or gone: `IsAlive` looks in
/proc and sees the zombies too. `ProcMaster` is locked from the first to the last
line of its methods; where nothing inside blocks, the method is one action. A crash
leaves the processes running as orphans; the next Start takes the pid from the file.

Left out: input, output and error files, status texts. A restart's own `stop` has a
dead process to stop, which `RestartedIsDead` shows.

### CentralRouter and RF24Nodes

`router` is the central router, whose methods hold its lock throughout; `known` is
`master.nodes`, `child` the child objects made so far, each with its send queue, its
`paused` flag and the position of its worker. A child that is removed and comes back is
a new object, which is how stale routes would show. `nodeMU` is the master's lock,
held across a step where Stop, which does not take it, can come in between. Any node may
become stale at any time, since the model has no clock, and any send may fail.
`afterwards` counts what a worker sends after its queue was shut down.

The surroundings are open: a heartbeat or a routed message may come at any moment.
Frames, channels and the lock of the hook are in `RF24Radio`; here a send always gets
that lock, and `RemovedWorkersExit` excepts a send after Stop, when that need not be
so. Not in the model: the Go runtime may end the plugin when Stop ranges over a map
that a heartbeat writes.

### RF24Radio

`load` says whether the process is a child or the master and how much happens. `mu` is
the lock of the hook: Receive has it from its first byte to its last, also while it
sends on `frameChan` (`Pushes`), and every write to the radio waits for it. `buf` holds
the bytes read and not pushed yet, and `prevEnd` how many of them the loop over marks has
left behind: `Ends` are the marks that the last read brought. A read appends any number
of bytes, `Pushes` sends the first whole frame and cuts it off; a frame is a byte and the
mark that ends it. `proc`, `hand`
and `up` are the goroutines towards the daemon (one of the first two in a child, two
in the master), `sender` and `beat` those towards the radio. The stream to the daemon
may break at any send. `ConvertToInternalFormat` and `ConvertToExternalFormat` are
modelled as far as they fail or panic, the panic as the end of the process.

### MsgStreams

`GRPCMessageServer` and `MPI` differ in what a stream takes from: a queue of its own,
which a goroutine fills from `rcvQ` under `d.mu`, or `rcvQ` itself. `server` says which
of the two a behaviour is about. `stop` and `serve` are how far Stop and the goroutine
`work` have got; Stop holds `d.mu`. The Stop of a plugin first stops its
process (`StopPlugin`), which may take for ever or, after a failed Start, panic, so that
the server is never stopped; certificates that fail leave the port taken (`leaked`). Each stream has its receive loop, which registers
it and takes it out again, and its send routine (`Tick`, `GetOne`, `SendEnvelope`,
`SendFails`). An envelope that was received is added to `sndQ` message by message
(`Take`), with other streams in between, and only after its last message does the loop
look at `killChan` again. A peer may open a stream, send, close and break at any time.

### AutoDrive, DualMotors, RemoteCar and DriveLoop

`AutoDrive` has the goroutines of the controller: `worker` is in `messageHandler`,
holding `stateMU` while it hands a press over, `lirc` makes a command of it, `tick` is
the timer with its speed. The readings of the distance sensor only count; a tick finds
any number of them. `DualMotors` is the driver's `work`: it looks at the shutdown, takes
a command, and sets `wheels` under the lock that Stop holds; a speed becomes a byte
(`% 256`). `load` has the data of each queued command, next to its ID in `motorQ`: an ID
that Done queues again can wait twice, with data of its own each time. `RemoteCar` is the client: a key sends a command, the timer sends "stop"
when it fires twice without a key. Its commands all have the version 1.

`DriveLoop` joins them with the routes between them. A listener has a command in hand
(`router`, `clientRouter`) from its Get to its Add and Done. A command has the ID the code
gives it, {sub-type, version}, so that the queue drops duplicates, and queues the one in
hand once more, just where the code does. Commands for other motors come from elsewhere and must be passed over.

### Lirc

`sent` are the packets lircd has sent and `pressed` the buttons among them; `place` is the
line read last, by its packet and its number there. A packet is the lines from a BEGIN to
the one that ends or breaks its form, or a line alone; whatever lircd sends can be cut up
so, hence `LircAssumption` excludes nothing. A packet that announces no data lines has no
last line: the reader never leaves it. `reader` is the state machine of `lirc.go`, `runner` the goroutine of `lircrouter.go` with the handler it calls,
`worker` the one that drains the receive queue. A line with the code of a press and fewer
than four fields makes the reader index out of range, which is the end of the daemon
(`Crashed`); at the end of the socket, or at a line that the scanner has no room for, the
reader returns and nobody is told (`ScanEnds`). `Meaning` reads a packet without a
state machine, as the reference for what the reader makes of it.

### StatusLog, Settings, Options and Records

`status` is `MachineStatus`, `saved` the copy of it in the snapshot; `all` remembers every
entry for comparison. `opts` is the map of the daemon, `cli` what each run of the
`config` command has parsed and sent; the command sends all it has parsed so far after
each argument. `Settings` says what a client may expect: whole requests, in some order.
In `Records` a restart turns all options off, for they are not persisted, and goes on with
the saved log.

## 3. Runs

| Run | Instance | Shows |
|---|---|---|
| `queue` | 2 IDs, 3 consumers, 3 items | safety, inductive invariant, liveness and refinement of `WorkPool` |
| `router` | 3 modules, 2 may leave, one sends 2 messages; one subscribes to several types, one may fail to start | routes, order, losses, delivery |
| `machine` | 1 client, 2 adaptors (one may fail to attach), 3 controllers that may fail to start (alike, hence symmetric), 1 driver of an unknown type, crashes | snapshot, how far a leave gets, restore of the adaptors |
| `machine_clients` | 2 clients, 1 adaptor, 1 controller with a plugin, 1 driver with a faulty device | file, lists, locks, where a Stop can hang or panic, requests return |
| `machine_restore` | 1 of each, crashes | finding: controllers and drivers of a machine with an adaptor are not restored |
| `procwatcher` | 3 starts (2 kept alive), 1 death, 1 crash, 1 failing start | restart, stop, watchers |
| `rf24_nodes` | 1 node, 2 message handlers, 1 reaper, 2 heartbeats, 2 messages | children and their workers |
| `streams` | both servers, 2 streams, 2 messages out, envelopes of 2 messages for a plugin and one without internal form for the message server, one message without external form | broadcast, shared queue, removal of streams, Stop |
| `drive` | 2 presses of 2 buttons with 1 tick, or 1 with 2 ticks, and a command for other motors, or 2 keys of the client; Stop of controller or driver | speeds, order, locks, the end of motion |
| `radio` | 6 loads: a child or the master with up to 3 frames, 2 messages, 1 heartbeat, one of them bad | frames, order, delivery, the lock |
| `lirc` | 3 of 13 packets, 1 message | replies, presses, Stop |
| `records` | ring of 3, 5 entries; 3 commands, 1 other request; 1 restart | log and options |

What the properties of each run consist of; every part is a definition of its own, with
its comment, in the module:

| Run | Property | Parts |
|---|---|---|
| `queue` | `IInv` | types, no stranded request, no lost wakeup, and what makes them inductive |
| | `NothingLeftBehind`, `ShutdownDrains` | after a shutdown all is handed out; every consumer returns |
| | `ImplementsPool`, `RequestsServed` | refinement; every request is handed out |
| `router` | `RouterInv` | types, `RoutesExact`, `DrainedBeforeExit` |
| | `InOrder`, `MissesBounded` | order, once before the first removal, and only repeats out of order after it; what a removal may cost a loop |
| | `NothingOutsideSubscription`, `Delivered` | what a module gets and when |
| `machine` | `FileInv` | types, `SnapshotCurrent`, `LeaveIsFinal` |
| | `LeaveStopsHalf`, `AdaptorsRestored` | |
| `machine_clients` | `FileInv`, `ListsInv` | as above; `RunningListed`, `LocksHeld`, `FailsOnlyAfterFailure` |
| | `RequestsReturn` | |
| `procwatcher` | `WatcherInv` | types, `RestartedIsDead`, `WatchedOnce`, `StopStops` |
| | `WatchedIsRestarted`, `MpiReturns` | |
| `rf24_nodes` | `NodesInv`, `WorkersInv` | types, `NodesAgree`; `NoLostWakeUp`, `AtMostOneAfterRemoval` |
| | `HeartbeatResumes`, `RemovedWorkersExit` | |
| `streams` | `StreamsInv`, `PluginInv` | types, `EachStreamGetsAll`; `WaitsOnlyWhenShared`, `SentOnceInOrder`, `OneEnvelopeLost` |
| | `BrokenStreamsRemoved`, `StopEnds` | `StopEnds` is `StopEndsRoutines` and `StopFreesPort` |
| `drive` | `LoopInv`, `AtMostOneAfterStop` | types, `SpeedInRange`, `WheelsInRange` |
| | `PressesArrive`, `HandlerReturns` | `PressesInOrder`, `PressesReachWheels`; `HandlerUnlocks`, `StopEndsOrStrandsWorker` |
| | `CarComesToRest` | |
| `radio` | `RadioInv` | types, `FramesWhole`, `DeliveredInOrder`, `WrittenInOrder` |
| | `BeatsGoOut`, `FramesDelivered` | |
| `lirc` | `LircInv`, `LircServes` | types, `ReplyIsPacket`, `PressesInOrder`; `PressesReachRouter`, `StopEndsRoutines` |
| `records` | `RecordsInv`, `RingHoldsNewest` | types, `DumpsNewest`, `CommandTakesEffect` |
| | `ChangesAreWhole` | `Options` implements `Settings` |

Each part of a bundle but the types is violated by a mutant of the code.

CHECK_DEADLOCK is FALSE in all of them: a queue that is shut down and drained, a
daemon without clients, a plugin nobody starts again, and counted inputs that are used
up are legitimate ends.

The remaining configurations (`MCMsgQueueStingy`, `MCMsgRouterForward`,
`MCMachineLeaveThree`, `MCMachineLeaveRace`, `MCProcWatcherStop`, `MCMsgStreamsStop`,
`MCDriveLoopStuck`, `MCRF24RadioBad`) are run by hand and are expected to be violated;
section 6 says what each shows. For example, in this directory:
`tlc -config MCMsgQueueStingy.cfg MCMsgQueue`.

**Why the bounds are enough.** Queue: the hazards need one consumer inside Get, one
asleep and one in Done, and an ID that is requeued next to another. Router: an entry
is passed over when the removed one stands before the walk's position and another
behind it, which needs three entries; the second message shows what the walk leaves
behind, and that one added in the middle of its processing comes again behind it.
Machine: in-place deletion goes wrong from three modules of a kind on, which is why there
are three controllers; two clients show the races of a lookup with MachineLeave and of two
joins, and one plugin and one driver with a faulty device all the ways in which a Start or
a Stop fails half way; one Machine object in each run of the daemon bounds the joins; the
number of crashes is not bounded. Process watcher: a leftover goroutine of a first
start meets a second, and its process is taken over by a third. RF24: two heartbeats
make a child and then resume it, make it anew after a removal, or race for the first
discovery; two messages leave one in the queue while the other is sent. The messages
are counted because a queue of one ID can grow without end (see Findings).
Streams: two streams are enough for one to come or go while the other is copied to, and
to compete for one queue; two messages show order, loss and duplicates. Drive: the
speeds are scaled down so that two ticks reach the maximum or leave it, and a tick has the
version of a press, also while the listener has that in hand; controller and client have scenes of their own, because
together they are beyond TLC, and are joined at the motor queue, whose bound
`MaxWaiting` is needed because the client's "stop", always the same ID, is queued anew
whenever it is added during its execution. Radio: with room for one frame in `frameChan` and
two goroutines behind it Receive has to wait under its lock with three frames. LIRC: the
second packet finds the reader in whatever state the first left it, the third shows
whether it recovers. Records: five entries go round a ring of three and overwrite.

**Conditional guarantees.** What the code does not promise is named in the properties:

* `FileInv` is about runs in which no request has worked on an object while its machine
  left or after, and no two have joined it (`raced`); `MCMachineLeaveRace` shows why. Its
  part `SnapshotCurrent` ends with the first crash, because the restore leaves controllers
  out of the machine that the snapshot named.
* MachineLeave gets through with at most two modules of a kind (`LeaveSucceeds`, refuted
  beyond by `MCMachineLeaveThree`); of more, `LeaveStopsHalf` says how far it gets.
* `FailsOnlyAfterFailure` and `RequestsReturn` except modules that were refused a
  subscription or whose device is faulty, and plugins: the Stop of a plugin that is well
  may wait for ever in StopProcess, with Machine.mutex and in MachineLeave `machinesMU` too,
  and then every other request for the machine waits with it.
* `InOrder` lets a module receive a message again, after the first removal, and out of its
  order then: a loop that meets the module twice adds the message while it is in process,
  and `Done` queues it behind later ones. `Delivered` speaks of runs without a removal, and
  of modules that were not refused and did not fail to start; `MissesBounded` bounds what
  a removal costs.
* `MpiReturns` exempts the states `Hangs` describes, in which StopProcess can no longer go
  on. `StopEndsRoutines` of the streams exempts the receive loops of a plugin whose Stop
  has got stuck there or has panicked; `StopFreesPort` speaks of a Stop that returned, and
  exempts one that came before the server was stored, and a port taken before the
  certificates failed.
* `HandlerReturns`: until Stop the handler of the drive controller always gives `stateMU`
  back. Stop may end the receiver of `lircEvent` before the worker has sent to it; then
  the worker keeps `stateMU` for ever (`Stranded`), and the timer waits for it. That is a
  deadlock of the code, which `MCDriveLoopStuck` shows; `StopEndsOrStrandsWorker` says that
  there is no other.

`DeliveredInOrder` is about a child: the master decodes and handles with two goroutines
each and keeps no order. `FramesDelivered` and `BeatsGoOut` end with Stop and with the
stream, after which Receive may keep its lock. `PressesReachRouter` exempts a reader that
is deaf (`Deaf`), for the channel of replies has no reader, a line may be too long and
lircd may close its socket, and a daemon that a short line has ended (`Crashed`). `PressesReachWheels` is met by
any command with the ID of the press, since the code cannot tell them apart.

## 4. Fairness

* Goroutines are scheduled: weak fairness for each goroutine's next step.
* `sync.Mutex` hands the lock to a goroutine that has waited for 1 ms, and a select
  or rendezvous that stays on offer is served: strong fairness for steps that need a
  lock another goroutine may take again and again, and for the unbuffered channel
  `restartProc`, whose senders queue.
* Woken consumers run. Which sleeper a Signal wakes is not constrained.
* Tickers tick: the send routines of the streams and the timer of the remote client are
  endless loops (`remotecar.go`, `grpcmessageserver.go`), and a broken stream ends its
  `Recv`.
* No fairness for the environment: producers, clients, keys, buttons, lircd, the radio,
  crashes, deaths of processes,
  starts and stops never have to happen. A consumer that took a message calls Done,
  as every caller in the repository does. A Start or Stop that has begun goes on, the
  Stop of a plugin perhaps only into a StopProcess that does not return.
* The worker of a module need take messages only while the module is subscribed; one that
  is stopped may return at once. lircd need not close its socket.
* In `RF24Nodes`, `RF24Radio`, `MsgStreams`, `DriveLoop` and `Lirc` weak fairness is
  enough: each lock is asked for finitely often, or the steps that compete for it are
  bounded.

## 5. Proofs

`MsgQueueProofs`, for any set of IDs, any set of consumers (finite where counting
needs it) and any `MaxLen`, from the assumptions named in `MsgQueue`:

* `TypeCorrect`: `Spec => []TypeOK`.
* `Inductive`: `Spec => []IInv`. `NoRequestStranded` and `NoLostWakeup` are not
  inductive alone. That Signal is enough depends on the number of queued items never
  exceeding that of consumers awake and not busy while others sleep; that nothing is left
  behind depends on who may still be asleep after a shutdown. `IInv` joins these facts
  to the type invariant; each step lemma (`StrandedStep`, `SleeperStep`, `ExitsStep`,
  `LostWakeupStep`) has one case for each action.
* `RequestsKept`, `WakeupsSuffice`, `ShutdownLeavesNothing`: the three invariants.
* `Refinement`: `Spec => ImplementsPool`; every step of the queue is a step of the
  pool or leaves the pool alone (`StepSimulation`).

`MsgQueueProofs`, about the LIRC controller, for anything that lircd may send, any number of
packets and of messages:

* `PressesKeepOrder`: `LircSpec => []LircInv`. The invariant `LircIInv` says in `ReaderKept`,
  for each state of the reader, which lines of its packet it has read and what it holds of
  them (`At`): a reply is made from a whole packet, and the next line is the first of one,
  unless the reader is astray among data without end. `EventsKept` counts the presses of
  the packets: those the reader has told of, up to the one in the runner's hand and the one
  it waits to send (`Heard`), are the presses of the packets it has read. `SendsKept` says
  that the send queue holds the events after those taken, numbered without a gap and each
  with its button; so an event's number is never in the queue when it is added, and none is
  dropped as a duplicate.

`MsgRouterProofs`, for any finite set of modules, any of them stoppable or senders, and
any number of messages:

* `Inductive`: `Spec => []IInv`, in five parts. `RoutesKept` says what the arrays hold in
  the middle of a removal: the entry that is written next (`moving`) is dead, the module
  that leaves or a copy of the entry before it, and the others list each subscribed module
  once; an array that append has moved away from stays as it was when it was full.
  `QueuesKept` is about queues and listeners, `ReceiversKept` about what a module has in
  process between its Get and its Done, one message that it has received and that is not
  added again before the first removal, `WalksKept` about the loops under way, `TrailsKept` about what a subscriber has got and what its
  senders still have for it. Until the first removal the trail is in order
  (`Ordered`); after it, an element that is not has been there before (`NewInOrder`).
* `RoutesRight`: `Spec => []RouterInv`; `OrderKept`: `Spec => []InOrder`; `NothingOutside`:
  `Spec => NothingOutsideSubscription`.
* `FewMisses`: `Spec => []MissesBounded`. The first form of this bound, one delivery lost
  for each removal, is false: the search for its inductive invariant showed
  a removal that stands still while the loop overtakes it, meets the same module twice,
  and is overtaken in turn, each time losing another subscriber; TLC finds it with five
  modules. Each such turn meets a module that the loop has met before, so these turns are counted
  too (`again`), and `Budget` says how much of the allowance the removal under way has
  used up, by who is ahead of whom.

`MachineLifeProofs`, for any configurations, requests at the same time and Machine objects, with
crashes:

* `Inductive`, `ListsKeptRight`: `Spec => []ListsInv`, and `FailuresExplained`:
  `Spec => []FailsOnlyAfterFailure`. `RunningListed` alone is not inductive: it needs that the lists
  hold configurations of their kind (`ListsKept`, the snapshot included, from which a
  restart takes them), that none names a module twice (`ListedOnce`, or removing an entry would leave
  another), that a request works on an object that exists, that a module
  listed, of a sound kind, can still be stopped (`ListedUsable`), and where a request has
  panicked: a plugin without its process master stays in the list (`PanicsKept`).
* `AdaptorsComeBack`: `Spec => AdaptorsRestored`, an action property. `RestoreKept` adds to
  the invariant that the file stays that of the first crash until the restore has listed
  all it will list.
* `FileKeptRight`: `Spec => []FileInv`, for any clients and as many modules of a kind as
  one likes. What it asks is in `FileInv`, that no request has raced (`raced`); `FileKept` adds
  what each request knows of the
  machine (`RequestAt`) and what a loop of MachineLeave has behind it (`LoopAt`): each turn that
  did not fail has made the list one shorter, and what it may still read behind the
  end of the list is of the same kind, so the loop ends with an empty list or the
  request fails, in which case the machine stays.

`RF24NodesProofs`, for any nodes, types, subscriptions, handlers, reapers and
messages:

* `Inductive`, `MapsAgree`: `Spec => []NodesInv`; `WorkersEnd`: `Spec => []WorkersInv`.
  `NodesAgree` speaks of the free lock; `InStep` says where the maps differ while it is
  held: a heartbeat enters the child made last (`EntersNewest`), a removal goes by the
  router first (`ReapsKnown`). That no wake-up is lost rests on both, and
  `AtMostOneAfterRemoval` on where a worker that has sent its last message stands
  (`LastLook`).

`RF24NodesProofs`, about the radio, for a child or a master with any number of frames and
messages, any of them bad, reads of any length and channels and envelopes of any capacity:

* `RadioKeepsOrder`: `RadioSpec => []RadioInv`. The invariant `RadioIInv` has four parts
  besides the types. `BytesKept`: what was heard is the frames pushed and then the bytes in
  `buf`, which begin with a frame, and `frameChan` holds the last frames pushed; hence no
  frame is cut wrongly wherever a read ends. `HandsKept`: a goroutine has a message only
  between two of its steps. `UpKept`: in a child the messages delivered come before those in
  the envelope, these before those in the send queue, and so on back to the frame decoded
  last. `OutKept`: the same of what is written, at the sender and in the receive queue; the
  queue takes a message twice only if it is the empty one, for which there is no order.

`PluginProofs`, about streams, for any streams, messages, envelopes and messages without external
form, for either controller:

* `Inductive`: `Spec => []IInv`. `ReceiveQueueKept` says that the message server's
  receive queue holds what comes next, without a gap, which makes a copy a message that
  no stream has seen; `ListKept` that IDs lead each stream to its own entry of the
  list, or Deregister would take another stream out of the broadcast; `BroadcastKept`
  that the queue of a registered stream holds the last messages copied and what is out are those
  before; `SharingKept` that on all streams of a plugin what is out comes before what is
  queued. `StreamKept` counts the batch under way against the queue, as long as nobody else takes
  from it (`Alone`).
* `EveryStreamIsServed`: `Spec => []StreamsInv`; `StreamsOfPlugin`: `Spec => []PluginInv`.

`PluginProofs`, about the process of a plugin, for any number of starts, deaths, failing
starts and crashes, any of the Procs kept alive (`ProcsAssumption`: no Proc is the value
for none):

* `WatchersAlwaysRight`: `ProcSpec => []WatcherInv`. Nothing in the code says which of the
  watchers that are still there is the one of a process; the invariant `WInv` does. A
  watcher *follows* its process while it waits for the end of it, has it in procStatus or is
  about to report it. `OneFollows`: one watcher in all does, because a second is added only
  where the map has no entry, and who follows has its entry in the map (`EntryKept`) unless a
  StopProcess waits for it (`WatcherKept`). `WatcherKept` also says that a watcher follows the
  present process of its Proc, and that this process is gone once its end is in a channel;
  hence what WatchProcs receives is dead, and stays so until it is restarted (`LoopKept`).
  `OwnKept` and `StopKept` give `StopStops`: a child that runs since StartProcess is the
  present process of the Proc in the map, the one that `Kill` is aimed at.

`DriveProofs`, for any buttons, scenes, remote commands and bounds:

* `SpeedAlwaysInRange`: `Spec => []SpeedInRange`, for any speeds and fade amount with
  whole fades between them (`SpeedAssumption`; 75, 210 and 15 in the code). The range
  is not inductive: a speed just below the maximum that is not on the scale would pass
  it. The invariant is `OnScale(n)`, a whole number of fades above standing and at most n
  of them (`SpeedStaysOnScale`, `StepStaysOnScale`, `ScaleInRange`).
* `LoopAlwaysRight`: `Spec => []LoopInv`: types, `SpeedInRange` and `WheelsInRange`, for any
  maximum that fits a byte and any bounds (`LoopAssumption`, `PressAssumption`). That a wheel turns at
  a speed of the right range needs that whatever comes with an ID is a speed for that
  ID (`Fits`), through the send queue, where each ID waits once with its own data
  (`CommandsKept`), the motor queue with its duplicates, and the worker's hand (`LoadsKept`).
  `PressesKept`, that the receive queue holds the presses in order after those taken,
  bounds the versions: without it the IDs of commands would not be in `Commands`.
* `AtMostOneAlways`: `Spec => []AtMostOneAfterStop`, whatever is in the queue of the
  driver; the invariant `LateInv` adds that the worker has left after the late command
  (`StepKeepsLate`).

`RecordsProofs`, for any size of the ring and any options, commands, arguments and
requests of others in which the spelling of the library finds itself
(`OptionAssumption`):

* `RingAlwaysHoldsNewest`: `Spec => []RingHoldsNewest`. The invariant `LogInv` is about the
  log in the snapshot as well, for a restart goes on with it; the arithmetic of the ring is
  in `OneTurnOlder` and `AddKeepsRing`.
* `RecordsAlwaysRight`: `Spec => []RecordsInv`. The dump: in a sound ring the loop takes
  `maxLogs` turns and finds an entry just in its first ones (`TurnsOfLoop`), the newest first
  (`SoundDump`). The options: `CliKept` says that a command has collected what its first
  arguments give, the last one for an option deciding (`GivenByOneMore`). `CommandTakesEffect`
  is about the end; before it, an option that one command alone names is off until the
  command comes to it (`NotYetSet`), and has the command's value between its requests (`EffectKept`).
* `OptionsKeepPromise`: `Spec => ChangesAreWhole`, the refinement of `Settings`: each step
  of the daemon is a whole change, a restart, or leaves what is enabled alone
  (`UpdateIsWhole`, `StepKeepsPromise`), and what a command sends is permitted
  (`CommandOptions`).

What these theorems state TLC checks on the instances of the runs; the inductive
invariants of the proof modules were checked with TLC, too, before they were proved.

`DataLemmas` holds what the proofs need again and again of sequences (taking an element out, appending,
moving the head), of the operations of `QueueOps`, and of the size of a set that gains, loses
or exchanges an element. Statements about all elements of a sequence are proved by the least
index that would refute them, for induction over data is out of reach.

Only model-checked:

* `LeaveStopsHalf` of `MachineLife`, whose argument is an induction over the turns of the
  loop;
* all liveness, that a plugin is restarted, that stops return, that beats go out, that
  frames and presses arrive, and the fair refinement `ImplementsFairPool` included, because
  ENABLED and temporal fairness arguments are out of the prover's reach.

Every other safety property of the runs is stated by a theorem above.

## 6. Findings

A disagreement with a run: the restore of a machine with an adaptor loses controllers and
drivers, and the snapshot that named them (`restore.go:111`, `120`, run `machine_restore`),
against `README.md:8`. A machine without adaptors is not restored any further either, but
keeps its snapshot (`restore.go:111-114`).

Disagreements shown by the configurations run by hand:

| Configuration | Shows |
|---|---|
| `MCMsgQueueStingy` | after a requeue two consumers hold one ID (`queue.go:93` against `queue.go:4`) |
| `MCMsgRouterForward` | a listener passes over a subscriber during a removal (`message.go:245`) |
| `MCMachineLeaveThree` | MachineLeave fails with three modules of a kind and leaves one running (daemon `machine.go:111` against the comment at 100-101) |
| `MCMachineLeaveRace` | a machine that left comes back through a late request (`controllers.go:20`) |
| `MCProcWatcherStop` | StopProcess may wait for ever (`procwatcher.go:376`) |
| `MCMsgStreamsStop` | a Stop that comes before the server is stored leaves it serving (`grpcmessageserver.go:124` against the comment at 179) |
| `MCDriveLoopStuck` with `NoStalePress` for its property | a press is carried out again after a later one (`queue.go:94` against `queue.go:3`) |
| `MCDriveLoopStuck` | Stop may leave the handler in its send for ever, with `stateMU`, for which the timer then waits (`autonomous_drive.go:166-196`, `233`) |
| `MCRF24RadioBad` | a frame that cannot be decoded becomes an empty message towards the daemon (`rfhook.go:126-139` against `children.go:21`), or a panic in its conversion |

Met on the way:

* Router: a module with several subscriptions is refused when a message comes between the
  first and the second (`message.go:216`); it stays listed and subscribed without a worker.
  A module that a loop meets twice during a removal may receive A, B, A (`queue.go:93-94`).
* Queue: the requeue also breaks the second promise of `queue.go:5-6`, that an item added
  several times is processed once, and one ID that is added again and again can fill
  the queue.
* Processes: one taken over from this daemon's own children stays a zombie nobody waits
  for and counts as alive; a restart starts its process with an input file it just
  deleted (`procwatcher.go:482`); MPI.Stop after a Start that failed early uses a nil
  `procMaster` (`mpi.go:218`), and each later Stop closes the kill channel again.
* GRPC servers: when the certificates fail the port stays taken (`mpi.go:241-245`).
* LIRC: a line with the code of a key and fewer than four fields is indexed out of range,
  which ends the daemon (`lirc.go:106-112`); a line longer than the scanner's buffer, or the
  end of lircd, ends the reader without a word to the controller (`lirc.go:80`, `173`).
* LIRC: nobody reads the channel of replies, so the first reply stops the reader
  (`lirc.go:128`); after a reply that announces no data lines the reader takes all that
  follows for data (`lirc.go:161`); the code of a key is collected with `&=` from 0 and
  stays 0 (`lirc.go:102`); after Stop the reader goes on and the socket stays open.
* Options: an option named in another spelling is stored under that spelling
  (`option.go:206`); `config` sends its earlier options again with each argument
  (`main.go:195`); options are not persisted.
* The remote client quits without a last "stop" (`remotecar.go:202-213`), so the car
  goes on.
* RF24: Stop ranges over the master's maps without their lock (`master.go:60`).
* `update` of machines (its handler is commented out) and `getMachineAndUpdateIDs` are
  dead code.

## 7. Not modelled

* Adaptors: connections to hardware through the vendored gobot library, pure I/O; what the
  ultrasonic and LED drivers do beyond the life cycle they share.
* Generated protobuf code, TLS, addresses, certificates, logging.
* Commands of the command line other than `config`: each sends one request.
* MachineUpdate, whose HTTP handler is commented out; requests that name several
  configurations.
* Input, output and error files of plugin processes; configuration of the radio.
* What the Go runtime does about unsynchronised maps (it may end the process), and torn
  reads of slice headers.

## 8. Plan

1. Compositions: `MsgRouter` with `MachineLife`'s Stop order; an abstract machine
   registry that `MachineLife` with one client implements.
2. The input file of a plugin across its restarts, in `ProcWatcher`.
