----------------------------- MODULE MachineLife ----------------------------
(***************************************************************************)
(* The life of one machine ID in the daemon: the map of machines, the      *)
(* Machine objects with their lists of adaptors, controllers and drivers,  *)
(* the snapshot file, the HTTP handlers that change them (daemon/daemon,   *)
(* pkg/machine), a crash of the daemon and the restore that follows it.    *)
(*                                                                         *)
(* A handler looks the machine up without a lock and then works on the     *)
(* object it found, under that object's mutex; the object may have left    *)
(* the map meanwhile.  A configuration stands for its type and its ID.     *)
(***************************************************************************)
EXTENDS FiniteSets, GoSlice

CONSTANTS Adaptors, Controllers, Drivers,  \* configurations, by kind
          AdaptorOf,    \* the adaptor each driver names
          Unknown,      \* configurations that subscribe to an unknown message type
          FaultyDevice, \* drivers whose device may fail to start or to halt
          Plugins,      \* controllers that run a plugin process (mpi.go)
          MayNotStart,  \* modules whose start may fail for another reason
          DisableRestore, \* the option of that name
          AttachFails,  \* adaptors that may fail to attach
          Clients,      \* HTTP requests in progress at the same time
          MaxMachines,  \* bound: Machine objects per run of the daemon
          MaxListed,    \* bound: adaptors attached to one machine
          CrashAllowed, \* whether the daemon may crash
          None          \* no client, no snapshot file

Modules == Controllers \cup Drivers
Confs == Adaptors \cup Modules

ASSUME KindsAssumption ==
  /\ Adaptors \cap Modules = {} /\ Controllers \cap Drivers = {}
  /\ None \notin Clients \cup Confs
ASSUME ConfAssumption ==
  /\ AdaptorOf \in [Drivers -> Adaptors]
  /\ Unknown \subseteq Modules /\ FaultyDevice \subseteq Drivers
  /\ Plugins \subseteq Controllers /\ MayNotStart \subseteq Modules
  /\ AttachFails \subseteq Adaptors /\ DisableRestore \in BOOLEAN
ASSUME BoundAssumption ==
  MaxMachines \in Nat \ {0} /\ MaxListed \in Nat /\ CrashAllowed \in BOOLEAN

VARIABLES daemon,   \* "up", "down" or the step restoreMachine is at
          reg,      \* d.machines[ID]: a Machine object, 0 if there is none
          made,     \* Machine objects created by this run of the daemon
          list,     \* the Adaptors, Controllers and Drivers slices of each object
          inst,     \* the last driver or controller each object made of a conf
          mutex,    \* who holds the mutex of each object
          mapMU,    \* who holds machinesMU for writing
          disk,     \* the snapshot file
          req,      \* what each client's request is doing
          before,   \* history: the snapshot when the daemon crashed, until a restore of
                    \* it has written its own
          raced     \* history: whether work on an object met the end of its machine

vars == <<daemon, reg, made, list, inst, mutex, mapMU, disk, req, before, raced>>

Objects == 1 .. MaxMachines
Kinds == {"adaptors", "controllers", "drivers"}
KindOf(c) == IF c \in Adaptors THEN "adaptors"
             ELSE IF c \in Controllers THEN "controllers" ELSE "drivers"

\* A driver or controller object.  worker: its goroutine.  closed: Stop shut the
\* queues and closed killChan.  done: the buffer of Robot.done (drivers only).
\* master: Start has got the process master, if it needs one (plugins).
NoInst == [worker |-> "none", closed |-> FALSE, done |-> 0, master |-> FALSE]

\* A request at rest; last tells whether the previous one panicked, and then conf and
\* m where that was.
Idle(last) == [pc |-> "idle", op |-> "", conf |-> None, m |-> 0, kind |-> "",
               head |-> [array |-> 1, len |-> 0], k |-> 0, failed |-> FALSE,
               last |-> last]

Fresh == [kind \in Kinds |-> NilSlice]
Names(m, kind) == Listing(list[m][kind])

\* Only the loops of MachineLeave, which holds machinesMU, copy a slice.
Settled(s) == IF mapMU = None THEN SliceSettled(s, None) ELSE s

IsListed(m, c) == \E k \in 1 .. Len(Names(m, KindOf(c))) : Names(m, KindOf(c))[k] = c

\* The work of a request on its object: the object may have left the map since it was
\* looked up, or a MachineLeave of another request may be going through it.
Works(c) == raced' = (raced \/ req[c].m # reg \/ mapMU \notin {None, c})

\* What snapshot() writes of an object.
View(m) == [kind \in Kinds |-> Names(m, kind)]

Init ==
  /\ daemon = "up" /\ reg = 0 /\ made = 0
  /\ list = [m \in Objects |-> Fresh]
  /\ inst = [m \in Objects |-> [c \in Modules |-> NoInst]]
  /\ mutex = [m \in Objects |-> None]
  /\ mapMU = None
  /\ disk = None /\ before = None /\ raced = FALSE
  /\ req = [c \in Clients |-> Idle("none")]

-----------------------------------------------------------------------------
(* machineCreate: MachineJoin. *)

\* A machine that is already there is refused; the lookup takes no lock.
Join(c) ==
  /\ daemon = "up" /\ req[c].pc = "idle" /\ reg = 0
  /\ made + Cardinality({d \in Clients : req[d].pc = "join"}) < MaxMachines
  /\ req' = [req EXCEPT ![c] = [Idle("none") EXCEPT !.pc = "join", !.op = "join"]]
  /\ UNCHANGED <<daemon, reg, made, list, inst, mutex, mapMU, disk, before, raced>>

JoinInsert(c) ==
  /\ req[c].pc = "join" /\ mapMU = None
  /\ made' = made + 1
  /\ reg' = made + 1
  /\ req' = [req EXCEPT ![c].pc = "joined", ![c].m = made + 1]
  /\ raced' = (raced \/ reg # 0)
  /\ UNCHANGED <<daemon, list, inst, mutex, mapMU, disk, before>>

JoinSave(c) ==
  /\ req[c].pc = "joined" /\ mutex[req[c].m] = None
  /\ disk' = View(req[c].m) /\ Works(c)
  /\ req' = [req EXCEPT ![c] = Idle("none")]
  /\ UNCHANGED <<daemon, reg, made, list, inst, mutex, mapMU, before>>

-----------------------------------------------------------------------------
(* adaptorAttach, driverStart, controllerStart and their opposites, for one  *)
(* configuration: look up, then change the object under its mutex, then      *)
(* write the snapshot, still under the mutex and whether or not the change   *)
(* went well.                                                                *)

Attaching == {d \in Clients : req[d].op = "start" /\ req[d].conf \in Adaptors}

Lookup(c, op, conf) ==
  /\ daemon = "up" /\ req[c].pc = "idle" /\ reg # 0
  /\ op = "start" /\ conf \in Adaptors =>
       list[reg].adaptors.len + Cardinality(Attaching) < MaxListed
  /\ req' = [req EXCEPT ![c] = [Idle("none") EXCEPT !.pc = "found", !.op = op,
                                                   !.conf = conf, !.m = reg]]
  /\ UNCHANGED <<daemon, reg, made, list, inst, mutex, mapMU, disk, before, raced>>

\* attachAdaptors: no check for a duplicate, and the adaptor is listed before
\* Attach can fail.
AttachLocked(c) ==
  LET m == req[c].m  conf == req[c].conf
  IN /\ req[c].pc = "found" /\ req[c].op = "start" /\ conf \in Adaptors
     /\ mutex[m] = None /\ Works(c)
     /\ mutex' = [mutex EXCEPT ![m] = c]
     /\ list' = [list EXCEPT ![m].adaptors = Settled(SliceAppend(@, conf))]
     /\ req' = [req EXCEPT ![c].pc = "save"]
     /\ UNCHANGED <<daemon, reg, made, inst, mapMU, disk, before>>

\* Mutant of Refused: a module that is started already is not looked for.
RefusedWithoutLookup(m, conf) ==
  conf \in Drivers /\ ~IsListed(m, AdaptorOf[conf])

Refused(m, conf) ==
  IsListed(m, conf) \/ (conf \in Drivers /\ ~IsListed(m, AdaptorOf[conf]))

\* How Start ends, once the module is listed.  An unknown message type returns before
\* AddListener and Start, and so does a message that is in the queue when a second
\* subscription is added; LIRC may find no socket.  A driver starts its device in a
\* goroutine: when that fails there is no worker and no error.  A plugin's worker runs
\* already when Start fails, before or after it has got the process master; it may also
\* wait for ever for a process master that does not return from stopping a process.
Start(worker, master, pc, failed) ==
  [inst |-> [NoInst EXCEPT !.worker = worker, !.master = master], pc |-> pc, failed |-> failed]
Starts(conf) ==
  IF conf \in Unknown THEN {Start("none", FALSE, "save", TRUE)}
  ELSE {Start("running", TRUE, "save", FALSE)}
       \cup (IF conf \in FaultyDevice THEN {Start("none", FALSE, "save", FALSE)} ELSE {})
       \cup (IF conf \in MayNotStart THEN {Start("none", FALSE, "save", TRUE)} ELSE {})
       \cup (IF conf \in Plugins THEN {Start("running", TRUE, "save", TRUE),
                                       Start("running", FALSE, "save", TRUE),
                                       Start("running", TRUE, "blocked", FALSE)}
             ELSE {})

\* startDrivers, startControllers: the module is listed before its subscriptions
\* are added.
StartLocked(c) ==
  LET m == req[c].m  conf == req[c].conf
  IN /\ req[c].pc = "found" /\ req[c].op = "start" /\ conf \in Modules
     /\ mutex[m] = None /\ Works(c)
     /\ mutex' = [mutex EXCEPT ![m] = c]
     /\ IF Refused(m, conf)
        THEN /\ req' = [req EXCEPT ![c].pc = "save", ![c].failed = TRUE]
             /\ UNCHANGED <<list, inst>>
        ELSE /\ list' = [list EXCEPT ![m][KindOf(conf)] = Settled(SliceAppend(@, conf))]
             /\ \E s \in Starts(conf) :
                  /\ inst' = [inst EXCEPT ![m][conf] = s.inst]
                  /\ req' = [req EXCEPT ![c].pc = s.pc, ![c].failed = s.failed]
     /\ UNCHANGED <<daemon, reg, made, mapMU, disk, before>>

\* Mutant of Panic: MachineLeave does not defer the unlock of machinesMU.
PanicLocked(c, m, conf) ==
  /\ mutex' = [mutex EXCEPT ![m] = None]
  /\ req' = [req EXCEPT ![c] = [Idle("panic") EXCEPT !.conf = conf, !.m = m]]
  /\ UNCHANGED <<list, mapMU>>

\* The request panics: its deferred calls release the locks,
\* the HTTP server recovers, no snapshot is written.
Panic(c, m, conf) ==
  /\ mutex' = [mutex EXCEPT ![m] = None]
  /\ mapMU' = IF mapMU = c THEN None ELSE mapMU
  /\ req' = [req EXCEPT ![c] = [Idle("panic") EXCEPT !.conf = conf, !.m = m]]
  /\ UNCHANGED list

Failed(c, conf) ==
  req' = [req EXCEPT ![c].pc = "save", ![c].failed = TRUE, ![c].conf = conf]

\* A plugin's Stop calls the process master, which is nil if Start did not get it.
NoMaster(m, conf) == conf \in Plugins /\ ~inst[m][conf].master

\* Mutant of ShutModule: the stopped module stays in the list.
ShutModuleListed(c, m, conf, withInst) ==
  /\ inst' = [withInst EXCEPT ![m][conf].closed = TRUE]
  /\ UNCHANGED list
  /\ IF inst[m][conf].closed \/ NoMaster(m, conf)
     THEN Panic(c, m, conf)
     ELSE /\ mutex' = [mutex EXCEPT ![m] = c]
          /\ req' = [req EXCEPT ![c].pc = "save"]
          /\ UNCHANGED mapMU

\* The rest of Stop after the device is halted: the queues are shut and killChan
\* is closed, then RemoveSubscriberQueue is called for each subscription, which
\* fails for an unknown type, then the entry leaves the list.
ShutModule(c, m, conf, withInst) ==
  /\ inst' = [withInst EXCEPT ![m][conf].closed = TRUE]
  /\ IF inst[m][conf].closed \/ NoMaster(m, conf)
     THEN Panic(c, m, conf)
     ELSE /\ mutex' = [mutex EXCEPT ![m] = c]
          /\ UNCHANGED mapMU
          /\ IF conf \in Unknown
             THEN Failed(c, conf) /\ UNCHANGED list
             ELSE /\ list' = [list EXCEPT ![m][KindOf(conf)] = Settled(SliceRemove(@,
                      CHOOSE k \in 1 .. @.len : Listing(@)[k] = conf))]
                  /\ req' = [req EXCEPT ![c].pc = "save"]

\* The request waits for ever, and holds its locks.
Waits(c, m, conf) ==
  /\ mutex' = [mutex EXCEPT ![m] = c]
  /\ req' = [req EXCEPT ![c].pc = "blocked", ![c].conf = conf]
  /\ UNCHANGED <<list, mapMU>>

\* stopController.  A plugin's Stop waits in StopProcess, which may not return.
StopController(c, m, conf) ==
  /\ conf \in Controllers /\ IsListed(m, conf)
  /\ \/ ShutModule(c, m, conf, inst)
     \/ /\ conf \in Plugins /\ ~inst[m][conf].closed /\ ~NoMaster(m, conf)
        /\ inst' = [inst EXCEPT ![m][conf].closed = TRUE]
        /\ Waits(c, m, conf)

\* Robot.Stop sends on done, whose buffer holds one value and which the worker reads
\* once its work function has returned.
DoneFull(m, conf) == inst[m][conf].done = 1

\* stopDriver: Robot.Stop halts the device, then sends on done.  A failed Halt
\* is reported after the send, before anything is shut, so no worker will make room
\* for the next send.
StopDriver(c, m, conf) ==
  /\ conf \in Drivers /\ IsListed(m, conf)
  /\ IF DoneFull(m, conf)
     THEN Waits(c, m, conf) /\ UNCHANGED inst
     ELSE LET sent == [inst EXCEPT ![m][conf].done = 1]
          IN \/ ShutModule(c, m, conf, sent)
             \/ /\ conf \in FaultyDevice
                /\ inst' = sent
                /\ mutex' = [mutex EXCEPT ![m] = c]
                /\ Failed(c, conf)
                /\ UNCHANGED <<list, mapMU>>

\* detachAdaptor: drivers that use the adaptor are not looked at.
DetachAdaptor(c, m, conf) ==
  /\ conf \in Adaptors /\ IsListed(m, conf)
  /\ mutex' = [mutex EXCEPT ![m] = c]
  /\ list' = [list EXCEPT ![m].adaptors =
       Settled(SliceRemove(@, CHOOSE k \in 1 .. @.len :
         Listing(@)[k] = conf /\ \A j \in 1 .. k - 1 : Listing(@)[j] # conf))]
  /\ req' = [req EXCEPT ![c].pc = "save"]
  /\ UNCHANGED <<inst, mapMU>>

NotFound(c, m, conf) ==
  /\ ~IsListed(m, conf)
  /\ mutex' = [mutex EXCEPT ![m] = c]
  /\ Failed(c, conf)
  /\ UNCHANGED <<list, inst, mapMU>>

\* StopController, StopDriver or DetachAdaptor of the object m.
StopModule(c, m, conf) ==
  /\ mutex[m] = None /\ Works(c)
  /\ \/ NotFound(c, m, conf) \/ DetachAdaptor(c, m, conf)
     \/ StopController(c, m, conf) \/ StopDriver(c, m, conf)
  /\ UNCHANGED <<daemon, reg, made, disk, before>>

StopLocked(c) ==
  /\ req[c].pc = "found" /\ req[c].op = "stop"
  /\ StopModule(c, req[c].m, req[c].conf)

\* Mutant of Save: only a request that starts something writes the snapshot.
SaveStarts(c) ==
  LET r == req[c]
  IN /\ r.pc = "save" /\ Works(c)
     /\ disk' = IF r.op = "start" THEN View(r.m) ELSE disk
     /\ mutex' = [mutex EXCEPT ![r.m] = None]
     /\ IF r.op = "leave" /\ ~r.failed
        THEN /\ req' = [req EXCEPT ![c].pc = "loop", ![c].k = @ + 1]
             /\ UNCHANGED mapMU
        ELSE /\ req' = [req EXCEPT ![c] = Idle("none")]
             /\ mapMU' = IF mapMU = c THEN None ELSE mapMU
     /\ UNCHANGED <<daemon, reg, made, list, inst, before>>

\* Mutant of Save: an early return of MachineLeave keeps machinesMU, that of
\* another failed request the mutex.
SaveKeepsLock(c) ==
  LET r == req[c]
  IN /\ r.pc = "save" /\ Works(c)
     /\ disk' = View(r.m)
     /\ mutex' = IF r.failed THEN mutex ELSE [mutex EXCEPT ![r.m] = None]
     /\ UNCHANGED mapMU
     /\ req' = IF r.op = "leave" /\ ~r.failed
               THEN [req EXCEPT ![c].pc = "loop", ![c].k = @ + 1]
               ELSE [req EXCEPT ![c] = Idle("none")]
     /\ UNCHANGED <<daemon, reg, made, list, inst, before>>

\* snapshot() and the release of the mutex.  MachineLeave gives up at the first
\* call that fails and goes on with its loop otherwise.
Save(c) ==
  LET r == req[c]
  IN /\ r.pc = "save" /\ Works(c)
     /\ disk' = View(r.m)
     /\ mutex' = [mutex EXCEPT ![r.m] = None]
     /\ IF r.op = "leave" /\ ~r.failed
        THEN /\ req' = [req EXCEPT ![c].pc = "loop", ![c].k = @ + 1]
             /\ UNCHANGED mapMU
        ELSE /\ req' = [req EXCEPT ![c] = Idle("none")]
             /\ mapMU' = IF mapMU = c THEN None ELSE mapMU
     /\ UNCHANGED <<daemon, reg, made, list, inst, before>>

\* What ends the goroutine of a module: that Stop has shut its queues, and for a plugin
\* that Stop has come to its end.
Stuck(m, conf) == \E c \in Clients : req[c].pc = "blocked" /\ req[c].m = m /\ req[c].conf = conf
Ending(m, conf) ==
  inst[m][conf].closed /\ (conf \in Plugins => inst[m][conf].master /\ ~Stuck(m, conf))

\* The goroutine of a driver or controller returns; a driver's then reads done.
\* Nothing refers to an object that is not listed.
WorkerReturns(m, conf) ==
  /\ inst[m][conf].worker = "running" /\ Ending(m, conf)
  /\ conf \in Drivers => inst[m][conf].done = 1
  /\ inst' = [inst EXCEPT ![m][conf] =
       IF IsListed(m, conf) THEN [@ EXCEPT !.worker = "none", !.done = 0] ELSE NoInst]
  /\ UNCHANGED <<daemon, reg, made, list, mutex, mapMU, disk, req, before, raced>>

-----------------------------------------------------------------------------
(* machineDelete: MachineLeave, under machinesMU.  Each of its three loops   *)
(* ranges over a slice that the calls in its body shrink in place.           *)

Leave(c) ==
  /\ daemon = "up" /\ req[c].pc = "idle" /\ reg # 0 /\ mapMU = None
  /\ mapMU' = c
  /\ req' = [req EXCEPT ![c] =
       [Idle("none") EXCEPT !.pc = "loop", !.op = "leave", !.m = reg,
                            !.kind = "controllers", !.k = 1,
                            !.head = Header(list[reg].controllers)]]
  /\ UNCHANGED <<daemon, reg, made, list, inst, mutex, disk, before, raced>>

LeaveStops(c) ==
  LET r == req[c]
  IN /\ r.pc = "loop" /\ r.k <= r.head.len
     /\ StopModule(c, r.m, Entry(list[r.m][r.kind], r.head, r.k))

LeaveNextKind(c) ==
  LET r == req[c]
      next == IF r.kind = "controllers" THEN "drivers" ELSE "adaptors"
  IN /\ r.pc = "loop" /\ r.k > r.head.len /\ r.kind # "adaptors"
     /\ req' = [req EXCEPT ![c].kind = next, ![c].k = 1,
                           ![c].head = Header(list[r.m][next])]
     /\ UNCHANGED <<daemon, reg, made, list, inst, mutex, mapMU, disk, before, raced>>

\* delete(d.machines, machineID), then the snapshot file is removed.
LeaveDelete(c) ==
  LET r == req[c]
  IN /\ r.pc = "loop" /\ r.k > r.head.len /\ r.kind = "adaptors"
     /\ reg' = 0
     /\ req' = [req EXCEPT ![c].pc = "erase"]
     /\ UNCHANGED <<daemon, made, list, inst, mutex, mapMU, disk, before, raced>>

\* Mutant of LeaveErase: the snapshot file stays.
LeaveEraseNothing(c) ==
  /\ req[c].pc = "erase"
  /\ mapMU' = None
  /\ req' = [req EXCEPT ![c] = Idle("none")]
  /\ UNCHANGED <<daemon, reg, made, list, inst, mutex, disk, before, raced>>

LeaveErase(c) ==
  /\ req[c].pc = "erase"
  /\ disk' = None
  /\ mapMU' = None
  /\ req' = [req EXCEPT ![c] = Idle("none")]
  /\ UNCHANGED <<daemon, reg, made, list, inst, mutex, before, raced>>

-----------------------------------------------------------------------------
(* Crash and restore.  restore() runs before the server accepts requests.    *)

Crash ==
  /\ CrashAllowed /\ daemon # "down"
  /\ daemon' = "down" /\ reg' = 0 /\ made' = 0
  /\ list' = [m \in Objects |-> Fresh]
  /\ inst' = [m \in Objects |-> [c \in Modules |-> NoInst]]
  /\ mutex' = [m \in Objects |-> None]
  /\ mapMU' = None
  /\ req' = [c \in Clients |-> Idle("none")]
  /\ before' = (IF daemon = "up" THEN disk ELSE before) /\ raced' = FALSE
  /\ UNCHANGED disk

\* Mutant of Restart: restoreMachine writes a snapshot of the new object at once.
RestartSaves ==
  /\ daemon = "down"
  /\ IF DisableRestore \/ disk = None
     THEN daemon' = "up" /\ UNCHANGED <<reg, made, disk>>
     ELSE daemon' = "adaptors" /\ reg' = 1 /\ made' = 1 /\ disk' = View(1)
  /\ UNCHANGED <<list, inst, mutex, mapMU, req, before, raced>>

\* Unless the option disables it, restoreMachine decodes the file and inserts a new
\* object with empty lists.
Restart ==
  /\ daemon = "down"
  /\ IF DisableRestore \/ disk = None
     THEN daemon' = "up" /\ UNCHANGED <<reg, made>>
     ELSE daemon' = "adaptors" /\ reg' = 1 /\ made' = 1
  /\ UNCHANGED <<list, inst, mutex, mapMU, disk, req, before, raced>>

\* AttachAdaptors of all adaptors in the file; none is an error, which ends the
\* restore, and so does one that fails to attach, after it was listed.
RestoreAdaptors ==
  LET n == Len(disk.adaptors)
  IN /\ daemon = "adaptors"
     /\ IF n = 0
        THEN daemon' = "up" /\ UNCHANGED list
        ELSE \E k \in 1 .. n :
               /\ k < n => disk.adaptors[k] \in AttachFails
               /\ list' = [list EXCEPT ![reg].adaptors =
                    [mem |-> <<SubSeq(disk.adaptors, 1, k)>>, array |-> 1, len |-> k]]
               /\ daemon' = "snapshot"
     /\ UNCHANGED <<reg, made, inst, mutex, mapMU, disk, req, before, raced>>

\* AttachAdaptors writes the snapshot: the lists of controllers and drivers in it
\* are still empty.  The restore ends in the next call, StartControllers, which
\* is given the drivers of the file: a driver's type is not a controller's, and
\* no configuration at all is an error as well.
RestoreSnapshot ==
  /\ daemon = "snapshot"
  /\ disk' = View(reg)
  /\ daemon' = "up" /\ before' = None
  /\ UNCHANGED <<reg, made, list, inst, mutex, mapMU, req, raced>>

-----------------------------------------------------------------------------
Serve(c) ==
  \/ JoinInsert(c) \/ JoinSave(c)
  \/ AttachLocked(c) \/ StartLocked(c) \/ StopLocked(c)
  \/ Save(c)
  \/ LeaveStops(c) \/ LeaveNextKind(c) \/ LeaveDelete(c) \/ LeaveErase(c)

Next ==
  \/ \E c \in Clients :
       \/ Join(c) \/ Leave(c)
       \/ \E op \in {"start", "stop"}, conf \in Confs : Lookup(c, op, conf)
       \/ Serve(c)
  \/ \E m \in Objects, conf \in Modules : WorkerReturns(m, conf)
  \/ Crash \/ Restart \/ RestoreAdaptors \/ RestoreSnapshot

\* A request that can go on does; sync.Mutex hands a lock to whoever has waited
\* long, so waiting for one is strongly fair.  Workers return.
Fairness ==
  /\ \A c \in Clients : SF_vars(Serve(c))
  /\ \A m \in Objects, conf \in Modules : WF_vars(WorkerReturns(m, conf))

Spec == Init /\ [][Next]_vars
FairSpec == Spec /\ Fairness

-----------------------------------------------------------------------------
File == [Kinds -> Seq(Confs)]

TypeOK ==
  /\ daemon \in {"up", "down", "adaptors", "snapshot"}
  /\ reg \in 0 .. made /\ made \in 0 .. MaxMachines
  /\ list \in [Objects -> [Kinds -> SliceType(Confs \cup {None})]]
  /\ \A m \in Objects, kind \in Kinds : SliceInBounds(list[m][kind])
  /\ inst \in [Objects -> [Modules -> [worker : {"none", "running"}, closed : BOOLEAN,
                                       done : {0, 1}, master : BOOLEAN]]]
  /\ mutex \in [Objects -> Clients \cup {None}]
  /\ mapMU \in Clients \cup {None}
  /\ (disk = None \/ disk \in File) /\ raced \in BOOLEAN
  /\ \A c \in Clients :
       /\ req[c].pc \in {"idle", "join", "joined", "found", "save", "blocked",
                         "loop", "erase"}
       /\ req[c].m \in 0 .. MaxMachines

Running(m, conf) == inst[m][conf].worker = "running" /\ ~Ending(m, conf)

Quiet == daemon = "up" /\ \A c \in Clients : req[c].pc = "idle"

\* Every module whose goroutine runs can still be found in the list of its
\* machine, and is in it once: a failed or concurrent Stop does not lose one
\* (machine.go:306, 340-365).
RunningListed ==
  \A m \in Objects, conf \in Modules :
    LET names == Names(m, KindOf(conf))
        at == {k \in DOMAIN names : names[k] = conf}
    IN /\ Running(m, conf) => at # {}
       /\ Cardinality(at) <= 1

\* Whoever works on the lists of an object holds its mutex, and MachineLeave
\* keeps machinesMU until it is through (machine.go:271-280, daemon
\* machine.go:102-104).
LocksHeld ==
  \A c \in Clients :
    /\ req[c].pc \in {"save", "blocked"} => mutex[req[c].m] = c
    /\ req[c].op = "leave" => mapMU = c
    /\ mapMU = c => req[c].pc # "idle"

\* README.md:8, "snapshot [...] of internal state": between requests the file is
\* the state of the machine, at least until the first crash (machine.go:275, 333;
\* daemon machine.go:94).
SnapshotCurrent ==
  Quiet /\ reg # 0 /\ before = None => disk = View(reg)

\* daemon/machine.go:100-101, "MachineLeave cleans the directory used by the
\* machine and all relevant details": a machine that has left has no file to come
\* back from and nothing running.
LeaveIsFinal ==
  Quiet /\ reg = 0 =>
    /\ DisableRestore \/ disk = None
    /\ \A m \in Objects, conf \in Modules : ~Running(m, conf)

\* The modules that may fail once they are listed.
MayFail == Unknown \cup FaultyDevice \cup Plugins

\* A call in the loops of MachineLeave has failed, so that it gives up.
LeaveFails(c) == req[c].pc = "save" /\ req[c].op = "leave" /\ req[c].failed

\* The same comment: MachineLeave gets to the end, unless it meets a module that was
\* refused its subscription, whose device is faulty or that runs a plugin (daemon
\* machine.go:111-135).
LeaveSucceeds == \A c \in Clients : LeaveFails(c) => req[c].conf \in MayFail

\* How far MachineLeave gets where none of them fails: to the end with up to two modules
\* of a kind.  Of n more it stops the first, the third and so on up to the last, and then
\* fails on one that has gone: (n - 1) \div 2 stay, because the calls in the loop shrink
\* the slice it ranges over (daemon machine.go:111-135, machine.go:360, 463).
LeaveStopsHalf ==
  \A c \in Clients :
    LET r == req[c]
    IN LeaveFails(c) /\ r.conf \notin MayFail =>
         /\ r.head.len > 2
         /\ r.kind # "adaptors" => list[r.m][r.kind].len = (r.head.len - 1) \div 2

\* No request panics, unless the module was refused its subscription, its device is
\* faulty, or it is a plugin whose Start did not get the process master.  None waits for
\* ever, unless for the worker of such a driver or for a plugin's process (machine.go:
\* 340-365, 446-470, robot.go:107-118, mpi.go:216-218).
FailsOnlyAfterFailure ==
  \A c \in Clients :
    LET r == req[c]
    IN /\ r.pc = "idle" /\ r.last = "panic" =>
            r.conf \in Unknown \cup FaultyDevice \/ NoMaster(r.m, r.conf)
       /\ r.pc = "blocked" => r.conf \in MayFail

\* A machine with a snapshot is known again after a crash, even if the restore
\* itself was cut short by further crashes, with the adaptors it had up to the
\* first that does not attach (restore.go:68-114).
AdaptorsRestored ==
  [][daemon # "up" /\ daemon' = "up" /\ before # None /\ ~DisableRestore =>
       /\ reg' # 0
       /\ LET was == before.adaptors
              is == Names(reg, "adaptors")'
              n == Len(is)
          IN /\ is = SubSeq(was, 1, n)
             /\ n < Len(was) => n > 0 /\ was[n] \in AttachFails]_vars

\* README.md:8, "automatic restore of internal state when segue crashes or
\* restarts": the restored machine is the one the snapshot describes, at least where it
\* has an adaptor, without which the restore ends before the snapshot is written again.
RestoreComplete ==
  [][/\ daemon # "up" /\ daemon' = "up" /\ before # None /\ ~DisableRestore
     /\ before.adaptors # <<>>
     => View(reg)' = before]_vars

\* Every request is answered, unless a driver that was refused a subscription or
\* whose device is faulty is stopped a second time, or a plugin's process is waited for,
\* and the request hangs for ever, and with it whoever needs the locks it holds
\* (robot.go:115 and mpi.go:199, 218 under machine.go:271, 330 and daemon machine.go:103).
RequestsReturn ==
  \A c \in Clients : req[c].pc # "idle" ~>
    \/ req[c].pc = "idle"
    \/ \E d \in Clients : req[d].pc = "blocked" /\ req[d].conf \in MayFail

\* Between requests the file is what a restart should find: the machine as it is, or
\* nothing for a machine that has left, as long as no request has worked on an object
\* while its machine left or after, and no two have joined it (machine.go:182-208,
\* restore.go:18-24, daemon machine.go:65-135).
FileInv == TypeOK /\ (~raced => SnapshotCurrent /\ LeaveIsFinal)

\* The lists and the locks that guard them, with requests side by side and Stops
\* that fail half way (machine.go:271-280, 340-365).
ListsInv == RunningListed /\ LocksHeld /\ FailsOnlyAfterFailure

=============================================================================
