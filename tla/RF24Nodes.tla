------------------------------ MODULE RF24Nodes ------------------------------
(***************************************************************************)
(* What the master of the RF24 plugin (plugins/rf24networknode) knows of   *)
(* its child nodes.  Message handlers take heartbeats off the radio and    *)
(* keep the children known by them; the central router puts messages in    *)
(* the queue of each child that subscribes, and one worker for each child  *)
(* sends them.  A child whose sends fail is paused until its next          *)
(* heartbeat, one whose heartbeats cease is removed, and Stop removes all. *)
(*                                                                         *)
(* The frames of the radio and the queues from the daemon to the router    *)
(* are the surroundings: a heartbeat or a routed message may come at any   *)
(* moment.  Waiting inside Queue.Get is taken from MsgQueue.  Steps of one *)
(* goroutine that no other can tell apart are one action.                  *)
(***************************************************************************)
EXTENDS Naturals, FiniteSets, QueueOps, CentralRouter

CONSTANTS Msgs,      \* messages that are not heartbeats
          TypeOf,    \* the type of each
          Wants,     \* the subscriptions in the heartbeats of each node, which
                     \* has an ID other than that of the master
          Handlers,  \* the goroutines of messageHandler
          Reapers,   \* the goroutines of removeStaleRoutes
          MaxBeats,  \* bound: heartbeats that arrive
          MaxRouted, \* bound: messages that find a subscriber
          None

ASSUME RadioAssumption ==
  /\ TypeOf \in [Msgs -> Types] /\ Wants \in [Nodes -> SUBSET Types]
  /\ None \notin Msgs \cup Nodes \cup Handlers \cup Reapers
  /\ Handlers \cap Reapers = {} /\ MaxBeats \in Nat /\ MaxRouted \in Nat

VARIABLES beats,    \* how many heartbeats have arrived so far
          routed,   \* how many messages have found a subscriber so far
          handler,  \* what each messageHandler is doing
          nodeMU,   \* who holds RF24NetworkNodeMaster.mu across a step
          known,    \* master.nodes: a child object, 0 if there is none
          router,   \* the central router
          child,    \* the child objects made so far, with their send queues
          reaper,   \* what each removeStaleRoutes is doing
          stop      \* how far Stop is

vars == <<beats, routed, handler, nodeMU, known, router, child, reaper, stop>>

Children == 1 .. Len(child)
Exited == "exited"
Killed == stop.pc # "no"

\* afterwards: messages sent after the queue was shut down (history).
NewChild == [q |-> NewQueue, pc |-> "new", msg |-> None, paused |-> FALSE,
             afterwards |-> 0]
Idle == [pc |-> "idle", node |-> None]
NoReap == [pc |-> "idle", todo |-> {}, node |-> None]

Init ==
  /\ beats = 0 /\ routed = 0 /\ handler = [h \in Handlers |-> Idle]
  /\ nodeMU = None /\ known = [n \in Nodes |-> 0]
  /\ router = NewRouter /\ child = <<>>
  /\ reaper = [j \in Reapers |-> NoReap]
  /\ stop = [pc |-> "no", todo |-> {}]

-----------------------------------------------------------------------------
(* The child objects.                                                        *)

\* Mutant of Unpaused: nobody is told.
UnpausedSilently(c) == [c EXCEPT !.paused = FALSE]

\* unpause: whoever waits on the condition looks at it again.
Unpaused(c) == [c EXCEPT !.paused = FALSE,
                         !.pc = IF @ = "wait" THEN "check" ELSE @]

ShutDown(c) == [c EXCEPT !.q = QShutDown(@)]

\* Mutant of LooksAgain: the worker goes by the shutdown that Get reports, which
\* comes when the queue is drained.
LooksOnlyInGet(c) == IF c.paused /\ ~c.q.closed THEN "wait" ELSE "get"

\* A paused worker waits, unless its queue is shut down; then the worker leaves
\* without draining it.
LooksAgain(c) ==
  IF c.q.closed THEN Exited ELSE IF c.paused THEN "wait" ELSE "get"

Finished(c) == [c EXCEPT !.pc = "check", !.q = QDone(@, c.msg), !.msg = None]

Becomes(o, c) ==
  /\ child' = [child EXCEPT ![o] = c]
  /\ UNCHANGED <<beats, routed, handler, nodeMU, known, router, reaper, stop>>

Check(o) ==
  /\ child[o].pc = "check"
  /\ Becomes(o, [child[o] EXCEPT !.pc = LooksAgain(child[o])])

Get(o) ==
  LET c == child[o]
  IN /\ c.pc = "get"
     /\ \/ /\ c.q.items # <<>>
           /\ Becomes(o, [c EXCEPT !.pc = "send", !.msg = Head(c.q.items),
                                   !.q = QTake(@)])
        \/ /\ c.q.items = <<>> /\ c.q.closed
           /\ Becomes(o, [c EXCEPT !.pc = Exited])

\* A failed write loses the message.
SendFrame(o) ==
  LET c    == child[o]
      sent == [c EXCEPT !.afterwards = IF c.q.closed THEN @ + 1 ELSE @]
  IN /\ c.pc = "send"
     /\ \/ Becomes(o, Finished(sent))
        \/ Becomes(o, [sent EXCEPT !.pc = "pause"])

\* A heartbeat that comes between the failure and this pause is of no use.
Pause(o) ==
  /\ child[o].pc = "pause"
  /\ Becomes(o, Finished([child[o] EXCEPT !.paused = TRUE]))

ChildWorks(o) == Check(o) \/ Get(o) \/ SendFrame(o) \/ Pause(o)

\* A worker of the router reads the routes of a message and fills the queues
\* under the router's lock.
RouteMessage(m) ==
  /\ Targets(router, TypeOf[m]) # {} /\ routed < MaxRouted /\ routed' = routed + 1
  /\ child' = [o \in Children |->
                 IF o \in Targets(router, TypeOf[m])
                 THEN [child[o] EXCEPT !.q = QAdd(@, m)] ELSE child[o]]
  /\ UNCHANGED <<beats, handler, nodeMU, known, router, reaper, stop>>

-----------------------------------------------------------------------------
(* heartbeatHandler, under mu.  AddNode is a step of its own, for Stop does  *)
(* not take mu and may remove the node before its routes are added.          *)

HandlerTakes(h, n) ==
  /\ handler[h].pc = "idle" /\ beats < MaxBeats
  /\ beats' = beats + 1
  /\ handler' = [handler EXCEPT ![h] = [pc |-> "beat", node |-> n]]
  /\ UNCHANGED <<routed, nodeMU, known, router, child, reaper, stop>>

\* Where killChan and messageChan are both ready a select takes either.
HandlerExits(h) ==
  /\ handler[h].pc = "idle" /\ Killed
  /\ handler' = [handler EXCEPT ![h].pc = Exited]
  /\ UNCHANGED <<beats, routed, nodeMU, known, router, child, reaper, stop>>

\* Mutant of Beat: the timestamp is updated and the child is not unpaused.
BeatOnly(h) ==
  /\ handler[h].pc = "beat" /\ nodeMU = None /\ known[handler[h].node] # 0
  /\ handler' = [handler EXCEPT ![h] = Idle]
  /\ UNCHANGED <<beats, routed, nodeMU, known, router, child, reaper, stop>>

Beat(h) ==
  LET o == known[handler[h].node]
  IN /\ handler[h].pc = "beat" /\ nodeMU = None /\ o # 0
     /\ child' = [child EXCEPT ![o] = Unpaused(@)]
     /\ handler' = [handler EXCEPT ![h] = Idle]
     /\ UNCHANGED <<beats, routed, nodeMU, known, router, reaper, stop>>

Discover(h) ==
  LET n == handler[h].node
  IN /\ handler[h].pc = "beat" /\ nodeMU = None /\ known[n] = 0
     /\ nodeMU' = h
     /\ child' = Append(child, NewChild)
     /\ router' = RAddNode(router, n, Len(child) + 1)
     /\ handler' = [handler EXCEPT ![h].pc = "enter"]
     /\ UNCHANGED <<beats, routed, known, reaper, stop>>

\* The entry in nodes, the routes, the start of the worker, the unlock.
Enter(h) ==
  LET n == handler[h].node
  IN /\ handler[h].pc = "enter"
     /\ known' = [known EXCEPT ![n] = Len(child)]
     /\ router' = RAddRoutes(router, n, Wants[n])
     /\ child' = [child EXCEPT ![Len(child)].pc = "check"]
     /\ nodeMU' = None
     /\ handler' = [handler EXCEPT ![h] = Idle]
     /\ UNCHANGED <<beats, routed, reaper, stop>>

Handle(h) == Beat(h) \/ Discover(h) \/ Enter(h) \/ HandlerExits(h)

-----------------------------------------------------------------------------
(* removeStaleRoutes: all stale nodes are found and removed under mu.  Time  *)
(* is free: at any moment the last heartbeat of a node may be too long ago.  *)

Reap(j) ==
  /\ reaper[j].pc = "idle" /\ nodeMU = None
  /\ \E stale \in SUBSET {n \in Nodes : known[n] # 0} \ {{}} :
       reaper' = [reaper EXCEPT ![j] = [pc |-> "remove", todo |-> stale, node |-> None]]
  /\ nodeMU' = j
  /\ UNCHANGED <<beats, routed, handler, known, router, child, stop>>

\* router.RemoveNode: false, and nothing, if the node is not there.
RemoveNode(n) ==
  LET o == router.nodes[n]
  IN /\ router' = RRemoveNode(router, n)
     /\ child' = IF o = 0 THEN child ELSE [child EXCEPT ![o] = ShutDown(@)]

ReapRemove(j, n) ==
  /\ reaper[j].pc = "remove" /\ n \in reaper[j].todo
  /\ RemoveNode(n)
  /\ reaper' = [reaper EXCEPT ![j].pc = "stop", ![j].node = n]
  /\ UNCHANGED <<beats, routed, handler, nodeMU, known, stop>>

\* Mutant of ReapStop: the entry is set to nil and not deleted.
ReapStopLeavesNil(j) ==
  LET n == reaper[j].node  left == reaper[j].todo \ {n}
  IN /\ reaper[j].pc = "stop"
     /\ child' = [child EXCEPT ![known[n]] = Unpaused(@)]
     /\ known' = [known EXCEPT ![n] = None]
     /\ nodeMU' = IF left = {} THEN None ELSE nodeMU
     /\ reaper' = [reaper EXCEPT ![j] =
          IF left = {} THEN NoReap
          ELSE [pc |-> "remove", todo |-> left, node |-> None]]
     /\ UNCHANGED <<beats, routed, handler, router, stop>>

\* Mutant of ReapStop: the worker is left to notice the shutdown by itself.
ReapStopNoWake(j) ==
  LET n == reaper[j].node  left == reaper[j].todo \ {n}
  IN /\ reaper[j].pc = "stop"
     /\ UNCHANGED child
     /\ known' = [known EXCEPT ![n] = 0]
     /\ nodeMU' = IF left = {} THEN None ELSE nodeMU
     /\ reaper' = [reaper EXCEPT ![j] =
          IF left = {} THEN NoReap
          ELSE [pc |-> "remove", todo |-> left, node |-> None]]
     /\ UNCHANGED <<beats, routed, handler, router, stop>>

\* node.stop() and the delete; the loop ends with the last stale node.
ReapStop(j) ==
  LET n == reaper[j].node  left == reaper[j].todo \ {n}
  IN /\ reaper[j].pc = "stop"
     /\ child' = [child EXCEPT ![known[n]] = Unpaused(@)]
     /\ known' = [known EXCEPT ![n] = 0]
     /\ nodeMU' = IF left = {} THEN None ELSE nodeMU
     /\ reaper' = [reaper EXCEPT ![j] =
          IF left = {} THEN NoReap
          ELSE [pc |-> "remove", todo |-> left, node |-> None]]
     /\ UNCHANGED <<beats, routed, handler, router, stop>>

ReaperExits(j) ==
  /\ reaper[j].pc = "idle" /\ Killed
  /\ reaper' = [reaper EXCEPT ![j].pc = Exited]
  /\ UNCHANGED <<beats, routed, handler, nodeMU, known, router, child, stop>>

Clean(j) == ReapStop(j) \/ ReaperExits(j) \/ \E n \in Nodes : ReapRemove(j, n)

-----------------------------------------------------------------------------
(* Stop of the master, which does not take mu.                               *)

\* close(killChan), and the nodes over which router.Stop ranges.
StopBegins ==
  /\ stop.pc = "no"
  /\ stop' = [pc |-> "router", todo |-> {n \in Nodes : router.nodes[n] # 0}]
  /\ UNCHANGED <<beats, routed, handler, nodeMU, known, router, child, reaper>>

\* A node that is added meanwhile may be passed over.
StopNode(n) ==
  /\ stop.pc = "router" /\ (n \in stop.todo \/ router.nodes[n] # 0)
  /\ RemoveNode(n)
  /\ stop' = [stop EXCEPT !.todo = @ \ {n}]
  /\ UNCHANGED <<beats, routed, handler, nodeMU, known, reaper>>

StopChildren ==
  /\ stop.pc = "router" /\ stop.todo = {}
  /\ stop' = [pc |-> "children", todo |-> {n \in Nodes : known[n] # 0}]
  /\ UNCHANGED <<beats, routed, handler, nodeMU, known, router, child, reaper>>

StopChild(n) ==
  /\ stop.pc = "children" /\ (n \in stop.todo \/ known[n] # 0)
  /\ child' = IF known[n] = 0 THEN child ELSE [child EXCEPT ![known[n]] = Unpaused(@)]
  /\ stop' = [stop EXCEPT !.todo = @ \ {n}]
  /\ UNCHANGED <<beats, routed, handler, nodeMU, known, router, reaper>>

StopEnds ==
  /\ stop.pc = "children" /\ stop.todo = {}
  /\ stop' = [stop EXCEPT !.pc = "over"]
  /\ UNCHANGED <<beats, routed, handler, nodeMU, known, router, child, reaper>>

GoesOn == \/ StopChildren \/ StopEnds
          \/ \E n \in Nodes : StopNode(n) \/ StopChild(n)

-----------------------------------------------------------------------------
Next ==
  \/ \E o \in Children : ChildWorks(o)
  \/ \E m \in Msgs : RouteMessage(m)
  \/ \E h \in Handlers : Handle(h) \/ \E n \in Nodes : HandlerTakes(h, n)
  \/ \E j \in Reapers : Reap(j) \/ Clean(j)
  \/ StopBegins \/ GoesOn

Spec == Init /\ [][Next]_vars

\* Every goroutine that can go on does, and a Stop that was called ends.  No
\* heartbeat, message, stale node or Stop need come.  Each lock is given up by
\* whoever has it and is asked for finitely often, so weak fairness is enough.
Fairness ==
  /\ WF_vars(GoesOn)
  /\ \A h \in Handlers : WF_vars(Handle(h))
  /\ \A j \in Reapers : WF_vars(Clean(j))
  /\ \A o \in 1 .. MaxBeats : WF_vars(o \in Children /\ ChildWorks(o))

FairSpec == Spec /\ Fairness

-----------------------------------------------------------------------------
(* Properties.                                                               *)

HandlerType ==
  [pc : {"idle", "beat", "enter", Exited}, node : Nodes \cup {None}]
ChildType ==
  [q : QueueType(Msgs), msg : Msgs \cup {None}, paused : BOOLEAN, afterwards : Nat,
   pc : {"new", "check", "wait", "get", "send", "pause", Exited}]
ReaperType ==
  [pc : {"idle", "remove", "stop", Exited}, todo : SUBSET Nodes,
   node : Nodes \cup {None}]

\* The type of every variable; a child is made only by a heartbeat, so there are
\* no more of them than heartbeats (heartbeatHandler).
TypeOK ==
  /\ beats \in 0 .. MaxBeats /\ routed \in 0 .. MaxRouted
  /\ handler \in [Handlers -> HandlerType]
  /\ nodeMU \in Handlers \cup Reapers \cup {None}
  /\ known \in [Nodes -> 0 .. Len(child)]
  /\ router \in RouterType(0 .. Len(child))
  /\ child \in Seq(ChildType) /\ Len(child) <= beats
  /\ reaper \in [Reapers -> ReaperType]
  /\ stop.pc \in {"no", "router", "children", "over"} /\ stop.todo \subseteq Nodes

\* Whenever the lock of the nodes is free and Stop has not begun, the master and
\* the router agree: a node is known to both or to neither, its routes are those
\* of its subscriptions and lead to the queue of the child object that is current,
\* and the queues of all earlier ones are shut down (heartbeatHandler and
\* cleanupNode keep three maps in step).
NodesAgree ==
  nodeMU = None /\ ~Killed =>
    /\ router.nodes = known
    /\ \A t \in Types, n \in Nodes :
         router.routes[t][n] = IF t \in Wants[n] THEN known[n] ELSE 0
    /\ \A o \in Children : child[o].q.closed <=> \A n \in Nodes : known[n] # o

\* A worker sleeps only while its child is paused, and when the queue of a
\* sleeping worker is shut down, the one who did it, or Stop, is still to wake it:
\* no interleaving of pause, RemoveNode and stop loses the wake-up (the condition
\* is waited for under L, and childNode.stop comes after the shutdown).
WillBeWoken(o) ==
  \E n \in Nodes :
    /\ known[n] = o
    /\ \/ stop.pc = "router" \/ (stop.pc = "children" /\ n \in stop.todo)
       \/ \E j \in Reapers : n \in reaper[j].todo
NoLostWakeUp ==
  \A o \in Children : child[o].pc = "wait" =>
    child[o].paused /\ (child[o].q.closed => WillBeWoken(o))

\* After its queue is shut down a worker sends at most one more message, however
\* many are queued: "we want to exist immediately and not wait for queue to be
\* drained" (childNode.worker).
AtMostOneAfterRemoval == \A o \in Children : child[o].afterwards <= 1

\* While the plugin is not stopped, a heartbeat that is being handled lets a child
\* that is paused then send again, unless the child is removed first
\* (heartbeatHandler, pause).
PausedChild(n) == known[n] # 0 /\ child[known[n]].paused
HeartbeatResumes ==
  \A n \in Nodes, h \in Handlers :
    (PausedChild(n) /\ handler[h] = [pc |-> "beat", node |-> n]) ~> ~PausedChild(n)

\* The worker of a child whose queue is shut down returns, in whatever state the
\* shutdown finds it; only in a send after Stop may it be held up, for the lock of
\* the hook can then stay with Receive (cleanupNode, worker).
RemovedWorkersExit ==
  \A o \in 1 .. MaxBeats :
    (o \in Children /\ child[o].q.closed)
      ~> (o \in Children /\ (child[o].pc = Exited \/ (child[o].pc = "send" /\ Killed)))

\* The three maps of the master and its router (master.go:136-228).
NodesInv == TypeOK /\ NodesAgree

\* What a worker does around the shutdown of its queue: it is woken, and sends no
\* more than one message (master.go:230-290).
WorkersInv == NoLostWakeUp /\ AtMostOneAfterRemoval

=============================================================================
