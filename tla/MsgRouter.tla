------------------------------ MODULE MsgRouter -----------------------------
(***************************************************************************)
(* message.MessageRouter (common/message/message.go): the routes of one    *)
(* message type inside one machine.                                        *)
(*                                                                         *)
(* A module is one run of a driver or controller, with the queue it sends  *)
(* on and the queue it receives on.  AddListener gives each send queue a   *)
(* goroutine that takes a message and walks over RouteMap[type].  That is  *)
(* a Go slice, a length and a pointer to an array, which the walk copies   *)
(* once and the subscription methods change without taking the lock the    *)
(* walk holds: RemoveSubscriberQueue moves the later entries down inside   *)
(* the array the walk is reading.  The array is therefore part of the      *)
(* state, and each entry read or moved is a step of its own.               *)
(*                                                                         *)
(* A module starts and stops under Machine.mutex (MachineLife), so there   *)
(* is one subscription change at a time.                                   *)
(***************************************************************************)
EXTENDS FiniteSets, QueueOps, GoSlice

CONSTANTS Modules,    \* runs of drivers and controllers
          Stoppable,  \* the modules that may be stopped
          Senders,    \* the modules that send messages of this type
          Several,    \* modules that subscribe to this type first, then to another
          MayNotStart, \* modules whose Start may fail
          MaxSends    \* bound: messages one sender sends

ASSUME ModulesAssumption == IsFiniteSet(Modules)
ASSUME SubsetAssumption ==
  /\ Stoppable \subseteq Modules /\ Senders \subseteq Modules
  /\ Several \subseteq Modules /\ MayNotStart \subseteq Modules
ASSUME MaxSendsAssumption == MaxSends \in Nat

\* A message: who sent it and the version that makes its ID unique.
Messages == [from : Senders, version : 1 .. MaxSends]

VARIABLES phase,    \* life of each module
          worker,   \* the goroutine that takes messages from its receive queue
          snd, rcv, \* its two queues
          set,      \* RouteMap[type], a Go slice
          moving,   \* the entry RemoveSubscriberQueue writes next, 0 outside of it
          walk,     \* the listener goroutine of each module
          sent,     \* messages each module has sent
          log       \* messages each module received, in order

vars == <<phase, worker, snd, rcv, set, moving, walk, sent, log>>

\* "off": not started.  "on": subscribed, listener running.  "closed": Stop shut
\* its queues.  "leaving": RemoveSubscriberQueue is moving entries.  "gone".
Phases == {"off", "on", "closed", "leaving", "gone"}

\* "starting": the module is subscribed to this type, and startDrivers or
\* startControllers has more to do.  "refused": it returned at another subscription,
\* before AddListener and Start.  "failed": Start failed.
WorkerStates == {"none", "starting", "running", "refused", "failed"}

\* A listener: "idle" before Get, "got" between Get and the copy of the slice,
\* "visit" inside the range loop, "exited".  The rest is history.  due and visited:
\* the subscribers in the copied slice and those the loop has met; moved counts the
\* removals that touched the walk, again its turns that met somebody once more.
NoWalk == [pc |-> "idle", array |-> 1, len |-> 0, next |-> 1,
           due |-> {}, visited |-> {}, moved |-> 0, again |-> 0]

\* The modules RouteMap lists.
Subscribers == Elems(Listing(set))

Init ==
  /\ phase = [m \in Modules |-> "off"]
  /\ worker = [m \in Modules |-> "none"]
  /\ snd = [m \in Modules |-> NewQueue]
  /\ rcv = [m \in Modules |-> NewQueue]
  /\ set = NilSlice
  /\ moving = 0
  /\ walk = [m \in Modules |-> NoWalk]
  /\ sent = [m \in Modules |-> 0]
  /\ log = [m \in Modules |-> <<>>]

-----------------------------------------------------------------------------
(* Subscriptions. *)

\* Machine.mutex: nobody is starting or stopping a module.
Free ==
  /\ moving = 0
  /\ \A m \in Modules : worker[m] # "starting" /\ phase[m] \notin {"closed", "leaving"}

\* startDrivers/startControllers: AddSubscriberQueue, which does nothing when the
\* queue is subscribed already.
Start(m) ==
  /\ Free
  /\ phase[m] = "off"
  /\ phase' = [phase EXCEPT ![m] = "on"]
  /\ worker' = [worker EXCEPT ![m] = "starting"]
  /\ set' = IF m \in Subscribers THEN set ELSE SliceAppend(set, m)
  /\ UNCHANGED <<snd, rcv, moving, walk, sent, log>>

\* The other subscriptions, AddListener and Start.  A queue that a listener has
\* added a message to in the meantime is not taken for another subscription; the
\* one it has stays.
EndStart(m) ==
  /\ worker[m] = "starting"
  /\ \E end \in IF m \in Several /\ rcv[m].items # <<>> THEN {"refused"}
               ELSE {"running"} \cup (IF m \in MayNotStart THEN {"failed"} ELSE {}) :
       worker' = [worker EXCEPT ![m] = end]
  /\ UNCHANGED <<phase, snd, rcv, set, moving, walk, sent, log>>

\* The Stop of a driver or controller shuts both of its queues.
Close(m) ==
  /\ Free
  /\ phase[m] = "on" /\ m \in Stoppable
  /\ phase' = [phase EXCEPT ![m] = "closed"]
  /\ snd' = [snd EXCEPT ![m] = QShutDown(@)]
  /\ rcv' = [rcv EXCEPT ![m] = QShutDown(@)]
  /\ UNCHANGED <<worker, set, moving, walk, sent, log>>

\* Mutant of Position: one too far, unless m is the last.
PositionAfter(m) ==
  LET k == CHOOSE k \in 1 .. set.len : Listing(set)[k] = m
  IN IF k < set.len THEN k + 1 ELSE k

Position(m) == CHOOSE k \in 1 .. set.len : Listing(set)[k] = m

\* RemoveSubscriberQueue finds the entry; the queue is shut down by now.  The
\* walks that copied this slice are the ones the move will disturb.
Unsubscribe(m) ==
  /\ phase[m] = "closed" /\ rcv[m].closed
  /\ moving = 0
  /\ phase' = [phase EXCEPT ![m] = "leaving"]
  /\ moving' = Position(m)
  /\ walk' = [l \in Modules |->
                IF walk[l].pc = "visit" THEN [walk[l] EXCEPT !.moved = @ + 1]
                ELSE walk[l]]
  /\ UNCHANGED <<worker, snd, rcv, set, sent, log>>

\* append(set[:i], set[i+1:]...) moves the later entries down one by one.
MoveEntry ==
  /\ moving \in 1 .. set.len - 1
  /\ set' = SliceMove(set, moving)
  /\ moving' = moving + 1
  /\ UNCHANGED <<phase, worker, snd, rcv, walk, sent, log>>

\* Mutant of StoreSlice: the move is not over.
StoreSliceAgain(m) ==
  /\ phase[m] = "leaving"
  /\ moving = set.len
  /\ set' = SliceShrink(set)
  /\ phase' = [phase EXCEPT ![m] = "gone"]
  /\ UNCHANGED <<worker, snd, rcv, moving, walk, sent, log>>

\* The shorter slice is stored in RouteMap; the entry behind its end stays.
StoreSlice(m) ==
  /\ phase[m] = "leaving"
  /\ moving = set.len
  /\ set' = SliceShrink(set)
  /\ moving' = 0
  /\ phase' = [phase EXCEPT ![m] = "gone"]
  /\ UNCHANGED <<worker, snd, rcv, walk, sent, log>>

-----------------------------------------------------------------------------
(* Messages. *)

\* A module puts its next message in its send queue, which ignores it once shut.
Send(m) ==
  /\ worker[m] = "running" /\ m \in Senders
  /\ sent[m] < MaxSends
  /\ sent' = [sent EXCEPT ![m] = @ + 1]
  /\ snd' = [snd EXCEPT ![m] = QAdd(@, [from |-> m, version |-> sent[m] + 1])]
  /\ UNCHANGED <<phase, worker, rcv, set, moving, walk, log>>

\* The message the listener of m is forwarding.
Current(m) == CHOOSE i \in snd[m].processing : TRUE

ListenGet(m) ==
  /\ worker[m] \in {"running", "failed"} /\ walk[m].pc = "idle"
  /\ snd[m].items # <<>>
  /\ snd' = [snd EXCEPT ![m] = QTake(@)]
  /\ walk' = [walk EXCEPT ![m].pc = "got"]
  /\ UNCHANGED <<phase, worker, rcv, set, moving, sent, log>>

\* Mutant of ListenExit: the listener returns without draining its queue.
ListenExitAtOnce(m) ==
  /\ worker[m] \in {"running", "failed"} /\ walk[m].pc = "idle"
  /\ snd[m].closed
  /\ walk' = [walk EXCEPT ![m].pc = "exited"]
  /\ UNCHANGED <<phase, worker, snd, rcv, set, moving, sent, log>>

ListenExit(m) ==
  /\ worker[m] \in {"running", "failed"} /\ walk[m].pc = "idle"
  /\ snd[m].items = <<>> /\ snd[m].closed
  /\ walk' = [walk EXCEPT ![m].pc = "exited"]
  /\ UNCHANGED <<phase, worker, snd, rcv, set, moving, sent, log>>

\* set := m.RouteMap[msg.ID.Type], once for the whole range loop.
ListenCopy(m) ==
  /\ walk[m].pc = "got"
  /\ walk' = [walk EXCEPT ![m] =
       [pc |-> "visit", array |-> set.array, len |-> set.len, next |-> 1,
        due |-> Subscribers, visited |-> {},
        moved |-> IF moving = 0 THEN 0 ELSE 1, again |-> 0]]
  /\ UNCHANGED <<phase, worker, snd, rcv, set, moving, sent, log>>

Turn(w, target) ==
  [w EXCEPT !.next = @ + 1, !.visited = @ \cup {target},
            !.again = IF target \in w.visited THEN @ + 1 ELSE @]

\* Mutant of ListenVisit: the loop stops at the entry of the sender.
ListenVisitStops(m) ==
  LET w == walk[m]
      target == Entry(set, w, w.next)
  IN /\ w.pc = "visit" /\ w.next <= w.len
     /\ IF target = m
        THEN /\ walk' = [walk EXCEPT ![m].next = w.len + 1]
             /\ UNCHANGED rcv
        ELSE /\ walk' = [walk EXCEPT ![m] = Turn(w, target)]
             /\ rcv' = [rcv EXCEPT ![target] = QAdd(@, Current(m))]
     /\ UNCHANGED <<phase, worker, snd, set, moving, sent, log>>

\* One turn of the range loop: the entry is read from the array now, and the
\* queue the message came from is skipped.
ListenVisit(m) ==
  LET w == walk[m]
      target == Entry(set, w, w.next)
  IN /\ w.pc = "visit" /\ w.next <= w.len
     /\ walk' = [walk EXCEPT ![m] = Turn(w, target)]
     /\ rcv' = IF target = m THEN rcv
               ELSE [rcv EXCEPT ![target] = QAdd(@, Current(m))]
     /\ UNCHANGED <<phase, worker, snd, set, moving, sent, log>>

ListenDone(m) ==
  /\ walk[m].pc = "visit" /\ walk[m].next > walk[m].len
  /\ snd' = [snd EXCEPT ![m] = QDone(@, Current(m))]
  /\ walk' = [walk EXCEPT ![m] = NoWalk]
  /\ UNCHANGED <<phase, worker, rcv, set, moving, sent, log>>

Listen(m) == \/ ListenGet(m) \/ ListenExit(m) \/ ListenCopy(m)
             \/ ListenVisit(m) \/ ListenDone(m)

\* The worker of a module: Get, then the handling of the message begins.
Take(m) ==
  /\ worker[m] = "running"
  /\ rcv[m].processing = {} /\ rcv[m].items # <<>>
  /\ log' = [log EXCEPT ![m] = Append(@, Head(rcv[m].items))]
  /\ rcv' = [rcv EXCEPT ![m] = QTake(@)]
  /\ UNCHANGED <<phase, worker, snd, set, moving, walk, sent>>

\* The handling ends: Done queues the message once more when a listener that met
\* the module again has added it in the meantime, in a queue shut by now as well.
Finish(m) ==
  /\ \E i \in rcv[m].processing : rcv' = [rcv EXCEPT ![m] = QDone(@, i)]
  /\ UNCHANGED <<phase, worker, snd, set, moving, walk, sent, log>>

Receive(m) == Take(m) \/ Finish(m)

Next ==
  \/ \E m \in Modules :
       \/ Start(m) \/ EndStart(m) \/ Close(m) \/ Unsubscribe(m) \/ StoreSlice(m)
       \/ Send(m) \/ Listen(m) \/ Receive(m)
  \/ MoveEntry

\* Goroutines run, and a start that has begun comes to its end; nobody has to start,
\* stop or send.  The worker of a stopped module may return at once.
Fairness ==
  \A m \in Modules : /\ WF_vars(Listen(m)) /\ WF_vars(EndStart(m))
                    /\ WF_vars(phase[m] = "on" /\ Receive(m))

Spec == Init /\ [][Next]_vars
FairSpec == Spec /\ Fairness

-----------------------------------------------------------------------------
WalkType ==
  [pc : {"idle", "got", "visit", "exited"}, array : Nat, len : Nat, next : Nat,
   due : SUBSET Modules, visited : SUBSET Modules, moved : Nat, again : Nat]

TypeOK ==
  /\ phase \in [Modules -> Phases] /\ worker \in [Modules -> WorkerStates]
  /\ snd \in [Modules -> QueueType(Messages)]
  /\ rcv \in [Modules -> QueueType(Messages)]
  /\ set \in SliceType(Modules) /\ SliceInBounds(set)
  /\ moving \in 0 .. set.len
  /\ walk \in [Modules -> WalkType]
  /\ \A m \in Modules :
       SliceInBounds([set EXCEPT !.array = walk[m].array, !.len = walk[m].len])
  /\ sent \in [Modules -> 0 .. MaxSends]
  /\ log \in [Modules -> Seq(Messages)]

\* Between two calls RouteMap lists each subscribed module once and no other:
\* the slices removals left behind never come back (message.go:225-226, 245-246).
RoutesExact ==
  moving = 0 =>
    /\ Subscribers = {m \in Modules : phase[m] \in {"on", "closed"}}
    /\ Cardinality(Subscribers) = set.len

\* The subscribers that the copied slice listed, that stayed subscribed, and that
\* the finished loop of m passed over.
Missed(m) ==
  {t \in walk[m].due : phase[t] = "on" /\ t # m /\ t \notin walk[m].visited}

Finished(m) == walk[m].pc = "visit" /\ walk[m].next > walk[m].len

\* message.go:185, "Forward message to all subscriber queues": when the loop ends
\* it has called Add on every subscriber, except the sender, that was subscribed
\* from its start to its end.
ForwardedToAll == \A m \in Modules : Finished(m) => Missed(m) = {}

\* How far the code can be from that: without a removal that overlaps the loop no
\* subscriber misses its message, and each removal costs one, plus one for each turn
\* in which the loop met somebody once more: the loop and the move may overtake each
\* other several times (message.go:188 against 245).
MissesBounded ==
  \A m \in Modules : Finished(m) =>
    /\ Cardinality(Missed(m)) <= walk[m].moved + walk[m].again
    /\ walk[m].moved = 0 => Missed(m) = {}

\* The messages that a queue still has for its module: those queued, and the one in
\* process when it has been added again.
Awaited(q) == Len(q.items) + (IF q.dirty \cap q.processing = {} THEN 0 ELSE 1)

\* A slice copied before a removal still lists modules that have left and, after
\* an append in place, modules that came later.  Nothing reaches a module outside
\* its subscription: before it starts nothing is queued for it, and once Stop has
\* shut its queue no message comes to those that it already has, queued or to be
\* queued by Done (message.go:194 against 225, 245; queue.go:50, 93-94).
NothingOutsideSubscription ==
  [][\A m \in Modules : phase[m] # "on" => Awaited(rcv'[m]) <= Awaited(rcv[m])]_vars

Removed == \E m \in Modules : phase[m] \in {"leaving", "gone"}

\* A subscriber receives the messages of one sender in the order they were sent, each
\* once, until the first removal.  A loop that then meets it twice may have it receive
\* a message again, which Done has queued behind later ones: but whatever comes late is
\* something that it had before (queue.go:93-94, message.go:180-196).
InOrder ==
  \A t \in Modules : \A j, k \in DOMAIN log[t] :
    j < k /\ log[t][j].from = log[t][k].from =>
      \/ log[t][j].version < log[t][k].version
      \/ Removed /\ \E i \in 1 .. j : log[t][i] = log[t][k]

\* The listener returns only when its queue is drained: what was accepted before
\* Stop has been offered to the subscribers (message.go:180-184).
DrainedBeforeExit ==
  \A m \in Modules :
    walk[m].pc = "exited" => snd[m].items = <<>> /\ snd[m].processing = {}

\* Until the first removal a message accepted by a send queue reaches every
\* subscriber that has started (message.go:176-201; with a removal under way see
\* ForwardedToAll).  The start of one that subscribes to several types may be refused,
\* for a message that its first subscription has already got it (message.go:216).
Delivered ==
  \A i \in Messages, t \in Modules :
    (i \in snd[i.from].dirty /\ phase[t] = "on" /\ t # i.from)
      ~> \/ i \in Elems(log[t]) \/ phase[t] # "on" \/ Removed
         \/ worker[t] \in {"refused", "failed"}

\* Whatever the routes go through, they list who is subscribed, and a listener
\* leaves nothing behind (message.go:180-184, 225-246).
RouterInv == TypeOK /\ RoutesExact /\ DrainedBeforeExit

=============================================================================
