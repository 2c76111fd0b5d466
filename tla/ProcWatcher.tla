----------------------------- MODULE ProcWatcher ----------------------------
(***************************************************************************)
(* The supervisor of plugin processes (common/procwatcher) for one plugin  *)
(* name, with the only user it has, the Start and Stop of an MPI           *)
(* controller (pkg/controllers/mpi.go).                                    *)
(*                                                                         *)
(* Each process started is watched by two goroutines: one waits for the    *)
(* process and puts its state in procStatus, the other selects between     *)
(* procStatus, which it reports to WatchProcs over the unbuffered channel  *)
(* restartProc, and stopWatcher.  StopProcess puts a value in stopWatcher  *)
(* and leaves a third goroutine reading procStatus as well.  ProcMaster is *)
(* locked from the first to the last line of its methods, the map          *)
(* watchProcs is read and deleted from without its lock.                   *)
(***************************************************************************)
EXTENDS Naturals, Sequences, FiniteSets

CONSTANTS Procs,        \* Proc objects: one per Start of the controller
          KeepAlive,    \* those that are to be restarted
          MaxDeaths,    \* bound: processes that end by themselves
          MaxCrashes,   \* bound: crashes of the daemon
          MaxFails,     \* bound: failures of os.StartProcess
          NoProc        \* no Proc object

ASSUME ProcsAssumption == KeepAlive \subseteq Procs /\ NoProc \notin Procs
ASSUME BoundsAssumption ==
  MaxDeaths \in Nat /\ MaxCrashes \in Nat /\ MaxFails \in Nat

VARIABLES os,        \* the processes so far, by pid
          pidOf,     \* Proc.Pid, 0 before the first process
          used,      \* Proc objects made so far
          pidfile,   \* the pid in the pid file, 0 if there is none
          procs,     \* master.Procs[name]
          entry,     \* watchProcs[name]: an index in watchers, 0 if none
          watchers,  \* one record for each AddProcWatcher that added one
          job,       \* the two goroutines that use ProcMaster
          lock,      \* who holds master.Mutex
          past       \* deaths, crashes and failures so far

procVars == <<os, pidOf, used, pidfile, procs, entry, watchers, job, lock, past>>

\* MPI.Start and MPI.Stop, which Machine.mutex makes take turns, and WatchProcs.
Actors == {"mpi", "loop"}
Pids == 1 .. Len(os)
Watchers == 1 .. Len(watchers)

\* A process: owner is the Proc object it was started for; again tells whether by
\* a restart (history).
Child(p, again) ==
  [state |-> "running", child |-> TRUE, owner |-> p, again |-> again]

\* IsAlive looks for /proc/<pid>, which a zombie has as well.
AlivePid(i) == i # 0 /\ os[i].state \in {"running", "zombie"}
IsAlive(p) == AlivePid(pidOf[p])

\* A child that ends is a zombie until this daemon waits for it.
Dead(i) == IF os[i].child THEN "zombie" ELSE "gone"

\* The goroutines of one watcher.  status and stop: the values in procStatus and
\* stopWatcher.  watching: the process is being waited for.  select: where the
\* reporting goroutine is.  helper: the goroutine StopWatcher leaves.
NewWatcher(p, i, notChild) ==
  [proc |-> p, pid |-> i, notChild |-> notChild, watching |-> TRUE,
   status |-> 0, stop |-> 0, select |-> "select", helper |-> "none"]

Rest == [pc |-> "idle", p |-> NoProc, w |-> 0]

ProcInit ==
  /\ os = <<>> /\ pidOf = [p \in Procs |-> 0] /\ used = {}
  /\ pidfile = 0 /\ procs = NoProc
  /\ entry = 0 /\ watchers = <<>>
  /\ job = [a \in Actors |-> Rest]
  /\ lock = "free" /\ past = [deaths |-> 0, crashes |-> 0, fails |-> 0]

TakeLock(a) == lock = "free" /\ lock' = a
Return(a) == lock' = "free" /\ job' = [job EXCEPT ![a] = Rest]

-----------------------------------------------------------------------------
(* Shared by the methods of ProcMaster, which call them with the lock held.  *)

\* Mutant: without the test for an entry.
AddProcWatcherAgain(p, i, notChild) ==
  /\ watchers' = Append(watchers, NewWatcher(p, i, notChild))
  /\ entry' = Len(watchers) + 1

\* AddProcWatcher: an entry that is still there keeps the process unwatched.
AddProcWatcher(p, i, notChild) ==
  IF entry # 0
  THEN UNCHANGED <<entry, watchers>>
  ELSE /\ watchers' = Append(watchers, NewWatcher(p, i, notChild))
       /\ entry' = Len(watchers) + 1

\* start of a Proc that is not alive: a new process, its pid file, its watcher.
Started(p, again) ==
  /\ os' = Append(os, Child(p, again))
  /\ pidOf' = [pidOf EXCEPT ![p] = Len(os) + 1]
  /\ pidfile' = Len(os) + 1
  /\ AddProcWatcher(p, Len(os) + 1, FALSE)
  /\ UNCHANGED past

NotStarted ==
  /\ past.fails < MaxFails /\ past' = [past EXCEPT !.fails = @ + 1]
  /\ UNCHANGED <<os, pidOf, entry, watchers>>

-----------------------------------------------------------------------------
(* MPI.Start.                                                                *)

\* A new Proc object; the pid file of an earlier run decides, without a lock,
\* between a restore and a start.
MpiStart(p) ==
  /\ job["mpi"].pc = "idle"
  /\ p \notin used /\ used' = used \cup {p}
  /\ IF AlivePid(pidfile)
     THEN /\ pidOf' = [pidOf EXCEPT ![p] = pidfile]
          /\ job' = [job EXCEPT !["mpi"] = [pc |-> "restore", p |-> p, w |-> 0]]
     ELSE /\ job' = [job EXCEPT !["mpi"] = [pc |-> "start", p |-> p, w |-> 0]]
          /\ UNCHANGED pidOf
  /\ UNCHANGED <<os, pidfile, procs, entry, watchers, lock, past>>

\* StartProcess; a name that is registered already is refused.
StartProcess ==
  LET p == job["mpi"].p
  IN /\ job["mpi"].pc = "start" /\ lock = "free"
     /\ IF procs # NoProc
        THEN UNCHANGED <<os, pidOf, pidfile, procs, entry, watchers, past>>
        ELSE \/ Started(p, FALSE) /\ procs' = p
             \/ NotStarted /\ UNCHANGED <<pidfile, procs>>
     /\ Return("mpi")
     /\ UNCHANGED used

\* Restore, whose error MPI.Start ignores.
RestoreProcess ==
  LET p == job["mpi"].p
  IN /\ job["mpi"].pc = "restore" /\ lock = "free"
     /\ IF procs # NoProc \/ ~IsAlive(p)
        THEN UNCHANGED <<procs, entry, watchers>>
        ELSE AddProcWatcher(p, pidOf[p], TRUE) /\ procs' = p
     /\ Return("mpi")
     /\ UNCHANGED <<os, pidOf, used, pidfile, past>>

-----------------------------------------------------------------------------
(* master.stop, called by StopProcess (MPI.Stop) and by restart.             *)

\* StopProcess of a name that is not registered is an error and nothing else.
StopProcess ==
  /\ job["mpi"].pc = "idle" /\ procs # NoProc /\ TakeLock("mpi")
  /\ job' = [job EXCEPT !["mpi"] =
       [pc |-> IF IsAlive(procs) THEN "notify" ELSE "delete", p |-> procs, w |-> 0]]
  /\ UNCHANGED <<os, pidOf, used, pidfile, procs, entry, watchers, past>>

\* StopWatcher reads the map without its lock.
Notify ==
  /\ job["mpi"].pc = "notify"
  /\ job' = [job EXCEPT !["mpi"].pc = IF entry = 0 THEN "kill" ELSE "send",
                        !["mpi"].w = entry]
  /\ UNCHANGED <<os, pidOf, used, pidfile, procs, entry, watchers, lock, past>>

\* Mutant: a value is put in stopWatcher whatever it holds.
SendStopTwice ==
  LET w == job["mpi"].w
  IN /\ job["mpi"].pc = "send"
     /\ watchers' = [watchers EXCEPT ![w].stop = @ + 1, ![w].helper = "waiting"]
     /\ job' = [job EXCEPT !["mpi"].pc = "kill"]
     /\ UNCHANGED <<os, pidOf, used, pidfile, procs, entry, lock, past>>

\* The send on stopWatcher, whose buffer holds one value, may block.
SendStop ==
  LET w == job["mpi"].w
  IN /\ job["mpi"].pc = "send" /\ watchers[w].stop = 0
     /\ watchers' = [watchers EXCEPT ![w].stop = 1, ![w].helper = "waiting"]
     /\ job' = [job EXCEPT !["mpi"].pc = "kill"]
     /\ UNCHANGED <<os, pidOf, used, pidfile, procs, entry, lock, past>>

\* Mutant: the process ignores the signal.
KillIgnored ==
  /\ job["mpi"].pc = "kill"
  /\ job' = [job EXCEPT !["mpi"].pc = IF job["mpi"].w = 0 THEN "delete" ELSE "await"]
  /\ UNCHANGED <<os, pidOf, used, pidfile, procs, entry, watchers, lock, past>>

\* Proc.Stop: killing the process group of a process that has ended does nothing.
Kill ==
  LET i == pidOf[job["mpi"].p]
  IN /\ job["mpi"].pc = "kill"
     /\ os' = [os EXCEPT ![i].state = IF @ = "running" THEN Dead(i) ELSE @]
     /\ job' = [job EXCEPT !["mpi"].pc =
                  IF job["mpi"].w = 0 THEN "delete" ELSE "await"]
     /\ UNCHANGED <<pidOf, used, pidfile, procs, entry, watchers, lock, past>>

\* <-waitStop
Await ==
  /\ job["mpi"].pc = "await" /\ watchers[job["mpi"].w].helper = "done"
  /\ job' = [job EXCEPT !["mpi"].pc = "delete"]
  /\ UNCHANGED <<os, pidOf, used, pidfile, procs, entry, watchers, lock, past>>

\* Delete, and the end of StopProcess.
StopProcessEnds ==
  /\ job["mpi"].pc = "delete"
  /\ pidfile' = 0
  /\ procs' = NoProc
  /\ Return("mpi")
  /\ UNCHANGED <<os, pidOf, used, entry, watchers, past>>

-----------------------------------------------------------------------------
(* The goroutines of a watcher.                                              *)

\* Proc.Watch reaps the child it was given, Proc.WatchNonChild polls the present
\* pid of its Proc until that process is gone.
WatchedPid(w) ==
  IF watchers[w].notChild THEN pidOf[watchers[w].proc] ELSE watchers[w].pid

\* Mutant: the state is reported without waiting for the process.
WatchReturnsEarly(w) ==
  /\ watchers[w].watching
  /\ watchers' = [watchers EXCEPT ![w].watching = FALSE, ![w].status = 1]
  /\ UNCHANGED <<os, pidOf, used, pidfile, procs, entry, job, lock, past>>

WatchReturns(w) ==
  LET i == WatchedPid(w)
  IN /\ watchers[w].watching
     /\ os[i].state = IF watchers[w].notChild THEN "gone" ELSE "zombie"
     /\ os' = [os EXCEPT ![i].state = "gone"]
     /\ watchers' = [watchers EXCEPT ![w].watching = FALSE, ![w].status = 1]
     /\ UNCHANGED <<pidOf, used, pidfile, procs, entry, job, lock, past>>

\* When both are ready the select takes either.
SelectStatus(w) ==
  /\ watchers[w].select = "select" /\ watchers[w].status = 1
  /\ watchers' = [watchers EXCEPT ![w].status = 0, ![w].select = "send"]
  /\ UNCHANGED <<os, pidOf, used, pidfile, procs, entry, job, lock, past>>

SelectStop(w) ==
  /\ watchers[w].select = "select" /\ watchers[w].stop = 1
  /\ watchers' = [watchers EXCEPT ![w].stop = 0, ![w].select = "delete"]
  /\ UNCHANGED <<os, pidOf, used, pidfile, procs, entry, job, lock, past>>

\* The deferred delete goes by name: it removes whatever entry is there.
DeleteEntry(w) ==
  /\ watchers[w].select = "delete"
  /\ entry' = 0
  /\ watchers' = [watchers EXCEPT ![w].select = "done"]
  /\ UNCHANGED <<os, pidOf, used, pidfile, procs, job, lock, past>>

HelperReceives(w) ==
  /\ watchers[w].helper = "waiting" /\ watchers[w].status = 1
  /\ watchers' = [watchers EXCEPT ![w].status = 0, ![w].helper = "done"]
  /\ UNCHANGED <<os, pidOf, used, pidfile, procs, entry, job, lock, past>>

-----------------------------------------------------------------------------
(* WatchProcs.                                                               *)

\* Mutant: the report is taken and forgotten.
LoopForgets(w) ==
  /\ watchers[w].select = "send" /\ job["loop"].pc = "idle"
  /\ watchers' = [watchers EXCEPT ![w].select = "delete"]
  /\ UNCHANGED <<os, pidOf, used, pidfile, procs, entry, job, lock, past>>

\* The rendezvous on restartProc.
LoopReceives(w) ==
  /\ watchers[w].select = "send" /\ job["loop"].pc = "idle"
  /\ watchers' = [watchers EXCEPT ![w].select = "delete"]
  /\ job' = [job EXCEPT !["loop"] = [pc |-> "got", p |-> watchers[w].proc, w |-> 0]]
  /\ UNCHANGED <<os, pidOf, used, pidfile, procs, entry, lock, past>>

\* Without KeepAlive only the status text changes.
LoopUpdatesStatus ==
  /\ job["loop"].pc = "got" /\ job["loop"].p \notin KeepAlive
  /\ lock = "free" /\ Return("loop")
  /\ UNCHANGED <<os, pidOf, used, pidfile, procs, entry, watchers, past>>

\* restart does not look whether the Proc is still registered.  Its master.stop
\* finds no process to stop (RestartedIsDead): Delete is all it does.
LoopRestarts ==
  /\ job["loop"].pc = "got" /\ job["loop"].p \in KeepAlive /\ TakeLock("loop")
  /\ ~IsAlive(job["loop"].p)
  /\ pidfile' = 0
  /\ job' = [job EXCEPT !["loop"].pc = "start"]
  /\ UNCHANGED <<os, pidOf, used, procs, entry, watchers, past>>

\* Mutant: an early return that does not unlock.
RestartKeepsLock ==
  /\ job["loop"].pc = "start"
  /\ Started(job["loop"].p, TRUE) \/ (NotStarted /\ UNCHANGED pidfile)
  /\ job' = [job EXCEPT !["loop"] = Rest]
  /\ UNCHANGED <<used, procs, lock>>

RestartEnds ==
  /\ job["loop"].pc = "start"
  /\ Started(job["loop"].p, TRUE) \/ (NotStarted /\ UNCHANGED pidfile)
  /\ Return("loop")
  /\ UNCHANGED <<used, procs>>

-----------------------------------------------------------------------------
(* The operating system.                                                     *)

ProcessDies(i) ==
  /\ os[i].state = "running"
  /\ past.deaths < MaxDeaths /\ past' = [past EXCEPT !.deaths = @ + 1]
  /\ os' = [os EXCEPT ![i].state = Dead(i)]
  /\ UNCHANGED <<pidOf, used, pidfile, procs, entry, watchers, job, lock>>

\* Plugins have their own process group and outlive the daemon; init reaps them.
Crash ==
  /\ past.crashes < MaxCrashes /\ past' = [past EXCEPT !.crashes = @ + 1]
  /\ os' = [i \in Pids |-> [os[i] EXCEPT !.child = FALSE,
                              !.state = IF @ = "zombie" THEN "gone" ELSE @]]
  /\ procs' = NoProc /\ entry' = 0 /\ watchers' = <<>>
  /\ job' = [a \in Actors |-> Rest] /\ lock' = "free"
  /\ UNCHANGED <<pidOf, used, pidfile>>

-----------------------------------------------------------------------------
Watcher(w) == \/ WatchReturns(w) \/ SelectStatus(w) \/ SelectStop(w)
              \/ DeleteEntry(w) \/ HelperReceives(w)

Mpi == \/ StartProcess \/ RestoreProcess \/ Notify \/ SendStop \/ Kill \/ Await
       \/ StopProcessEnds

WatchProcs == LoopUpdatesStatus \/ LoopRestarts \/ RestartEnds

ProcNext ==
  \/ \E p \in Procs : MpiStart(p)
  \/ StopProcess \/ Mpi \/ WatchProcs
  \/ \E w \in Watchers : Watcher(w) \/ LoopReceives(w)
  \/ \E i \in Pids : ProcessDies(i)
  \/ Crash

\* Goroutines run; sync.Mutex is handed to whoever has waited long.  Nobody has to
\* start or stop a plugin, and plugins need not die.
MaxWatchers == MaxDeaths + Cardinality(Procs)
ProcFairness ==
  /\ SF_procVars(Mpi) /\ SF_procVars(WatchProcs)
  /\ \A w \in 1 .. MaxWatchers :
       /\ WF_procVars(w \in Watchers /\ Watcher(w))
       /\ SF_procVars(w \in Watchers /\ LoopReceives(w))

ProcSpec == ProcInit /\ [][ProcNext]_procVars
ProcFairSpec == ProcSpec /\ ProcFairness

-----------------------------------------------------------------------------
States == {"running", "zombie", "gone"}

ProcTypeOK ==
  /\ os \in Seq([state : States, child : BOOLEAN, owner : Procs,
                again : BOOLEAN])
  /\ pidOf \in [Procs -> 0 .. Len(os)] /\ used \subseteq Procs
  /\ pidfile \in 0 .. Len(os) /\ procs \in Procs \cup {NoProc}
  /\ entry \in 0 .. Len(watchers)
  /\ watchers \in Seq([proc : Procs, pid : Pids, notChild : BOOLEAN,
                       watching : BOOLEAN, status : {0, 1}, stop : {0, 1},
                       select : {"select", "send", "delete", "done"},
                       helper : {"none", "waiting", "done"}])
  /\ \A a \in Actors :
       /\ job[a].pc \in {"idle", "start", "restore", "got", "notify", "send",
                         "kill", "await", "delete"}
       /\ job[a].p \in used \cup {NoProc} /\ job[a].w \in 0 .. Len(watchers)
  /\ lock \in Actors \cup {"free"}

\* procwatcher.go:419 warns when a process it is about to restart "was supposed
\* to be dead, but it is alive": that never happens.
RestartedIsDead ==
  job["loop"].pc = "got" => ~IsAlive(job["loop"].p)

\* No two goroutines wait for one process (procwatcher.go:332-335).
WatchedOnce ==
  \A v, w \in Watchers :
    watchers[v].watching /\ watchers[w].watching
      /\ watchers[v].pid = watchers[w].pid => v = w

\* StopProcess ends the process that StartProcess started.  What may run on without
\* being registered is one that was restarted because its Proc was reported dead
\* (procwatcher.go:421-424 does not look at master.Procs), or one that a crashed
\* daemon has left.
StopStops ==
  \A i \in Pids :
    os[i].state = "running" /\ os[i].child /\ procs # os[i].owner =>
      os[i].again

\* StopProcess waits for a status that another goroutine took, or for the end of
\* another process than the one it killed, or for one that polling for a child
\* nobody reaps will never bring; or it sends a second value to a watcher that has
\* returned.
Hangs ==
  LET v == job["mpi"].w
      w == watchers[v]
      process == os[WatchedPid(v)].state
  IN \/ /\ job["mpi"].pc = "await" /\ w.helper = "waiting" /\ w.status = 0
        /\ \/ ~w.watching
           \/ process = "running"
           \/ w.notChild /\ process = "zombie"
     \/ job["mpi"].pc = "send" /\ w.stop = 1 /\ w.select # "select"

\* A plugin whose own watcher has seen it die, and that nobody stops, is restarted
\* (procwatcher.go:356-359, 409-428), whatever goroutines earlier stops, restarts
\* and a restore have left.
WatchedIsRestarted ==
  \A p \in KeepAlive :
    (/\ procs = p /\ pidOf[p] # 0 /\ ~IsAlive(p)
     /\ \E w \in Watchers : /\ watchers[w].proc = p /\ WatchedPid(w) = pidOf[p]
                            /\ watchers[w].status = 1 \/ watchers[w].select = "send")
      ~> (procs # p \/ IsAlive(p) \/ job["mpi"].pc # "idle" \/ past.fails > 0)

\* Start and Stop of the controller return, unless StopProcess hangs.
MpiReturns == job["mpi"].pc # "idle" ~> job["mpi"].pc = "idle" \/ Hangs

\* procwatcher.go:368, "Returns a channel that will be populated when the watcher
\* is finally done": so StopProcess, which waits for it, returns.
StopReturns == job["mpi"].pc # "idle" ~> job["mpi"].pc = "idle"

\* The watchers never act on the wrong process: each is waited for by one of them,
\* restarted only when dead, and ended when it is stopped (procwatcher.go:329-489).
WatcherInv == ProcTypeOK /\ RestartedIsDead /\ WatchedOnce /\ StopStops

=============================================================================
