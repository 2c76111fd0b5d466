-------------------------- MODULE RF24NodesProofs ---------------------------
(***************************************************************************)
(* The nodes of a radio network and the radio of one of them.              *)
(* Nodes, for any nodes, message types, messages, subscriptions, handlers, *)
(* reapers and bounds: the maps of the master and of its router agree      *)
(* whenever the lock is free, no worker sleeps past the shutdown of its    *)
(* queue, and a removed child is sent to once more at most.                *)
(* Radio, for any loads, reads and capacities: the frames that were sent   *)
(* arrive whole, and a child keeps the order of messages both ways.        *)
(***************************************************************************)
EXTENDS RF24Nodes, RF24Radio, DataLemmas, FiniteSetTheorems, SequenceTheorems

-----------------------------------------------------------------------------
(* The inductive invariant.                                                  *)

Beating == {h \in Handlers : handler[h].pc = "beat"}

\* A heartbeat that is being handled names a node, and makes one child at most.
BeatsCounted ==
  /\ IsFiniteSet(Beating) /\ Len(child) + Cardinality(Beating) <= beats
  /\ \A h \in Handlers : handler[h].pc \in {"beat", "enter"} => handler[h].node \in Nodes
  /\ stop \in [pc : {"no", "router", "children", "over"}, todo : SUBSET Nodes]

\* Whoever is between two steps of a critical section holds the lock.
LockHeld ==
  /\ \A h \in Handlers : handler[h].pc = "enter" <=> nodeMU = h
  /\ \A j \in Reapers : reaper[j].pc \in {"remove", "stop"} <=> nodeMU = j

\* A handler that is about to enter node n, and a reaper that has taken it out of
\* the router but not yet out of the master's map.
Entering(n) == \E h \in Handlers : handler[h].pc = "enter" /\ handler[h].node = n
Leaving(n) == \E j \in Reapers : reaper[j].pc = "stop" /\ reaper[j].node = n

\* The child made last is nobody's until its node is entered.
EntersNewest ==
  \A n \in Nodes : Entering(n) =>
    /\ Len(child) > 0 /\ child[Len(child)].pc = "new" /\ known[n] = 0
    /\ \A m \in Nodes : known[m] # Len(child)

\* A reaper works on nodes that are known, and takes each out of the router first.
ReapsKnown ==
  \A j \in Reapers :
    /\ \A n \in reaper[j].todo : known[n] # 0
    /\ reaper[j].pc \in {"idle", Exited} => reaper[j].todo = {}
    /\ reaper[j].pc = "stop" => /\ reaper[j].node \in reaper[j].todo
                                /\ router.nodes[reaper[j].node] = 0

\* No two nodes have one child; what the router knows is the master's, or new.
OneChildEach ==
  /\ \A m, n \in Nodes : known[m] = known[n] /\ known[n] # 0 => m = n
  /\ \A n \in Nodes : \/ router.nodes[n] \in {0, known[n]}
                      \/ Entering(n) /\ router.nodes[n] = Len(child)

\* Until Stop the two maps differ only where a lock is held, and the queues that are
\* open are those the router knows.
InStep ==
  ~Killed =>
    /\ \A n \in Nodes : router.nodes[n] = IF Entering(n) THEN Len(child)
                                          ELSE IF Leaving(n) THEN 0 ELSE known[n]
    /\ \A t \in Types, n \in Nodes :
         router.routes[t][n] = IF t \in Wants[n] /\ known[n] # 0
                               THEN router.nodes[n] ELSE 0
    /\ \A o \in Children : child[o].q.closed <=> \A n \in Nodes : router.nodes[n] # o

\* The one message after the shutdown brings the worker to its last look.
LastLookOf(c) ==
  \/ c.afterwards = 0
  \/ c.afterwards = 1 /\ c.q.closed /\ c.pc \in {"check", "pause", Exited}
LastLook ==
  \A o \in Children : LastLookOf(child[o])

IInv == /\ TypeOK /\ BeatsCounted /\ LockHeld /\ EntersNewest /\ ReapsKnown
        /\ OneChildEach /\ InStep /\ NoLostWakeUp /\ LastLook

-----------------------------------------------------------------------------
(* What the operators do.                                                    *)

\* One child is replaced by another.
LEMMA ChildChange ==
  ASSUME child \in Seq(ChildType), NEW o \in Children, NEW c \in ChildType,
         child' = [child EXCEPT ![o] = c]
  PROVE  /\ child' \in Seq(ChildType) /\ Len(child') = Len(child)
         /\ Children' = Children /\ child'[o] = c
         /\ \A p \in Children : p # o => child'[p] = child[p]
BY ExceptSeq DEF Children

\* A child is made.
LEMMA ChildMade ==
  ASSUME child \in Seq(ChildType), child' = Append(child, NewChild)
  PROVE  /\ child' \in Seq(ChildType) /\ Len(child') = Len(child) + 1
         /\ child'[Len(child')] = NewChild
         /\ \A p \in Children : p \in Children' /\ child'[p] = child[p]
<1>1. NewChild \in ChildType
  BY NewQueueType DEF NewChild, ChildType, Exited
<1> QED BY <1>1 DEF Children

\* The operations of a child keep its type; only ShutDown shuts its queue, and only
\* a worker starts to wait.
LEMMA UnpausedEffect ==
  ASSUME NEW c \in ChildType
  PROVE  /\ Unpaused(c) \in ChildType
         /\ Unpaused(c).q = c.q /\ Unpaused(c).pc # "wait"
         /\ Unpaused(c).pc = "new" <=> c.pc = "new"
         /\ LastLookOf(c) => LastLookOf(Unpaused(c))
BY DEF Unpaused, ChildType, LastLookOf, Exited

LEMMA ShutDownEffect ==
  ASSUME NEW c \in ChildType
  PROVE  /\ ShutDown(c) \in ChildType
         /\ ShutDown(c).pc = c.pc /\ ShutDown(c).paused = c.paused
         /\ ShutDown(c).q.closed
         /\ LastLookOf(c) => LastLookOf(ShutDown(c))
<1>1. QShutDown(c.q) \in QueueType(Msgs) /\ QShutDown(c.q).closed
  BY QShutDownType DEF ChildType
<1> QED BY <1>1 DEF ShutDown, ChildType, LastLookOf

\* A step of a worker: it never shuts the queue, and starts to wait only when the
\* child is paused and the queue is open.
LEMMA WorkerEffect ==
  ASSUME child \in Seq(ChildType), NEW o \in Children, ChildWorks(o)
  PROVE  \E c \in ChildType :
           /\ Becomes(o, c) /\ c.q.closed = child[o].q.closed
           /\ child[o].pc # "new" /\ c.pc # "new"
           /\ c.pc = "wait" => c.paused /\ ~c.q.closed
           /\ LastLookOf(child[o]) => LastLookOf(c)
<1>0. child[o] \in ChildType
  BY DEF Children
<1>1. CASE Check(o)
  <2> DEFINE c == [child[o] EXCEPT !.pc = LooksAgain(child[o])]
  <2>1. c \in ChildType /\ Becomes(o, c) /\ child[o].pc = "check"
    BY <1>0, <1>1 DEF Check, LooksAgain, ChildType, Exited
  <2>2. /\ c.q = child[o].q /\ c.pc # "new" /\ (c.pc = "wait" => c.paused /\ ~c.q.closed)
        /\ LastLookOf(child[o]) => LastLookOf(c)
    BY <1>0 DEF LooksAgain, ChildType, LastLookOf, Exited
  <2> QED BY <2>1, <2>2
<1>2. CASE Get(o)
  <2>1. child[o].pc = "get"
    BY <1>2 DEF Get
  <2>2. CASE child[o].q.items # <<>>
    <3> DEFINE c == [child[o] EXCEPT !.pc = "send", !.msg = Head(child[o].q.items),
                                     !.q = QTake(@)]
    <3>1. /\ QTake(child[o].q) \in QueueType(Msgs) /\ Head(child[o].q.items) \in Msgs
          /\ QTake(child[o].q).closed = child[o].q.closed
      BY <1>0, <2>2, QTakeType, OthersKeepClosed DEF ChildType
    <3>2. c \in ChildType /\ c.q.closed = child[o].q.closed /\ c.pc = "send"
      BY <1>0, <3>1 DEF ChildType
    <3>3. LastLookOf(child[o]) => LastLookOf(c)
      BY <1>0, <2>1, <3>2 DEF ChildType, LastLookOf, Exited
    <3>4. Becomes(o, c)
      BY <1>2, <2>2 DEF Get
    <3> QED BY <2>1, <3>2, <3>3, <3>4
  <2>3. CASE child[o].q.items = <<>>
    <3> DEFINE c == [child[o] EXCEPT !.pc = Exited]
    <3>1. c \in ChildType /\ c.q = child[o].q /\ c.pc = Exited /\ Becomes(o, c)
      BY <1>0, <1>2, <2>3 DEF Get, ChildType, Exited
    <3>2. LastLookOf(child[o]) => LastLookOf(c)
      BY <1>0, <2>1, <3>1 DEF ChildType, LastLookOf, Exited
    <3> QED BY <2>1, <3>1, <3>2 DEF Exited
  <2> QED BY <2>2, <2>3
<1>3. CASE SendFrame(o)
  <2> DEFINE sent == [child[o] EXCEPT !.afterwards = IF child[o].q.closed THEN @ + 1 ELSE @]
  <2>1. child[o].pc = "send"
    BY <1>3 DEF SendFrame
  <2>2. /\ sent \in ChildType /\ sent.q = child[o].q
        /\ LastLookOf(child[o]) =>
             sent.afterwards = 0 \/ (sent.afterwards = 1 /\ sent.q.closed)
    BY <1>0, <2>1 DEF ChildType, LastLookOf, Exited
  <2>3. CASE Becomes(o, Finished(sent))
    <3>1. /\ QDone(sent.q, sent.msg) \in QueueType(Msgs)
          /\ QDone(sent.q, sent.msg).closed = sent.q.closed
      BY <2>2, QDoneType, OthersKeepClosed DEF ChildType
    <3>2. /\ Finished(sent) \in ChildType /\ Finished(sent).pc = "check"
          /\ Finished(sent).q.closed = sent.q.closed
          /\ Finished(sent).afterwards = sent.afterwards
      BY <2>2, <3>1 DEF Finished, ChildType
    <3> QED BY <2>1, <2>2, <2>3, <3>2 DEF LastLookOf
  <2>4. CASE Becomes(o, [sent EXCEPT !.pc = "pause"])
    <3> DEFINE c == [sent EXCEPT !.pc = "pause"]
    <3>1. /\ c \in ChildType /\ c.pc = "pause" /\ c.q = sent.q
          /\ c.afterwards = sent.afterwards
      BY <2>2 DEF ChildType
    <3> QED BY <2>1, <2>2, <2>4, <3>1 DEF LastLookOf
  <2> QED BY <1>3, <2>3, <2>4 DEF SendFrame
<1>4. CASE Pause(o)
  <2> DEFINE c == [child[o] EXCEPT !.paused = TRUE]
  <2>1. /\ c \in ChildType /\ c.q = child[o].q /\ c.afterwards = child[o].afterwards
        /\ child[o].pc = "pause"
    BY <1>0, <1>4 DEF Pause, ChildType
  <2>2. /\ QDone(c.q, c.msg) \in QueueType(Msgs)
        /\ QDone(c.q, c.msg).closed = c.q.closed
    BY <2>1, QDoneType, OthersKeepClosed DEF ChildType
  <2>3. /\ Finished(c) \in ChildType /\ Finished(c).pc = "check"
        /\ Finished(c).q.closed = c.q.closed
        /\ Finished(c).afterwards = c.afterwards
    BY <2>1, <2>2 DEF Finished, ChildType
  <2> QED BY <1>4, <2>1, <2>3 DEF Pause, LastLookOf
<1> QED BY <1>1, <1>2, <1>3, <1>4 DEF ChildWorks

\* What the methods of the router do to its two maps.
LEMMA RAddNodeEffect ==
  ASSUME NEW Q, NEW r \in RouterType(Q), NEW n \in Nodes, NEW o \in Q
  PROVE  /\ RAddNode(r, n, o) \in RouterType(Q)
         /\ RAddNode(r, n, o).routes = r.routes
         /\ \A m \in Nodes : RAddNode(r, n, o).nodes[m] =
                               IF m = n /\ r.nodes[n] = 0 THEN o ELSE r.nodes[m]
BY DEF RAddNode, RouterType

LEMMA RAddRoutesEffect ==
  ASSUME NEW Q, NEW r \in RouterType(Q), NEW n \in Nodes, NEW ts \in SUBSET Types
  PROVE  /\ RAddRoutes(r, n, ts) \in RouterType(Q)
         /\ RAddRoutes(r, n, ts).nodes = r.nodes
         /\ \A t \in Types, m \in Nodes :
              RAddRoutes(r, n, ts).routes[t][m] =
                IF r.nodes[n] # 0 /\ t \in ts /\ m = n THEN r.nodes[n]
                ELSE r.routes[t][m]
BY DEF RAddRoutes, RouterType

LEMMA RRemoveNodeEffect ==
  ASSUME NEW Q, 0 \in Q, NEW r \in RouterType(Q), NEW n \in Nodes
  PROVE  /\ RRemoveNode(r, n) \in RouterType(Q)
         /\ \A m \in Nodes : RRemoveNode(r, n).nodes[m] =
                               IF m = n THEN 0 ELSE r.nodes[m]
         /\ \A t \in Types, m \in Nodes :
              RRemoveNode(r, n).routes[t][m] = IF m = n THEN 0 ELSE r.routes[t][m]
BY DEF RRemoveNode, RouterType

-----------------------------------------------------------------------------
(* Types.                                                                    *)

\* A message for every target, put in its queue.
LEMMA RouteEffect ==
  ASSUME child \in Seq(ChildType), NEW m \in Msgs, RouteMessage(m)
  PROVE  /\ child' \in Seq(ChildType) /\ Len(child') = Len(child)
         /\ \A o \in Children :
              \E q \in QueueType(Msgs) : /\ child'[o] = [child[o] EXCEPT !.q = q]
                                         /\ q.closed = child[o].q.closed
<1>1. \A o \in Children : child[o] \in ChildType
  BY DEF Children
<1>2. ASSUME NEW o \in Children
      PROVE  /\ child'[o] \in ChildType
             /\ \E q \in QueueType(Msgs) : /\ child'[o] = [child[o] EXCEPT !.q = q]
                                           /\ q.closed = child[o].q.closed
  <2>1. child[o].q \in QueueType(Msgs)
    BY <1>1 DEF ChildType
  <2>2. QAdd(child[o].q, m) \in QueueType(Msgs) /\ QAdd(child[o].q, m).closed = child[o].q.closed
    BY <2>1, QueueOpsType, OthersKeepClosed
  <2>3. CASE o \in Targets(router, TypeOf[m])
    <3>1. child'[o] = [child[o] EXCEPT !.q = QAdd(child[o].q, m)]
      BY <2>3 DEF RouteMessage
    <3> QED BY <1>1, <2>2, <3>1 DEF ChildType
  <2>4. CASE o \notin Targets(router, TypeOf[m])
    <3>1. child'[o] = [child[o] EXCEPT !.q = child[o].q]
      BY <1>1, <2>4 DEF RouteMessage, ChildType
    <3>2. child'[o] = child[o]
      BY <2>4 DEF RouteMessage
    <3> QED BY <1>1, <2>1, <3>1, <3>2
  <2> QED BY <2>3, <2>4
<1>3. DOMAIN child' = 1 .. Len(child) /\ Len(child) \in Nat
  BY DEF RouteMessage, Children
<1>4. child' = [o \in 1 .. Len(child) |-> child'[o]]
  BY DEF RouteMessage, Children
<1>5. child' \in Seq(ChildType) /\ Len(child') = Len(child)
  BY <1>2, <1>3, <1>4 DEF Children
<1> QED BY <1>2, <1>5

\* A node leaves the router: of the children only its queue's owner changes.
LEMMA RemoveNodeEffect ==
  ASSUME TypeOK, NEW n \in Nodes, RemoveNode(n)
  PROVE  /\ child' \in Seq(ChildType) /\ Len(child') = Len(child)
         /\ Children' = Children
         /\ router' \in RouterType(0 .. Len(child))
         /\ \A m \in Nodes : router'.nodes[m] = IF m = n THEN 0 ELSE router.nodes[m]
         /\ \A t \in Types, m \in Nodes :
              router'.routes[t][m] = IF m = n THEN 0 ELSE router.routes[t][m]
         /\ \A o \in Children :
              child'[o] = IF o = router.nodes[n] THEN ShutDown(child[o]) ELSE child[o]
<1>1. Len(child) \in Nat /\ router.nodes[n] \in 0 .. Len(child)
  BY DEF TypeOK, RouterType
<1>2. 0 \in 0 .. Len(child)
  BY <1>1
<1>3. /\ router' \in RouterType(0 .. Len(child))
      /\ \A m \in Nodes : router'.nodes[m] = IF m = n THEN 0 ELSE router.nodes[m]
      /\ \A t \in Types, m \in Nodes :
           router'.routes[t][m] = IF m = n THEN 0 ELSE router.routes[t][m]
  BY <1>2, RRemoveNodeEffect DEF RemoveNode, TypeOK
<1>4. CASE router.nodes[n] = 0
  BY <1>3, <1>4 DEF RemoveNode, TypeOK, Children
<1>5. CASE router.nodes[n] # 0
  <2>1. router.nodes[n] \in Children
    BY <1>1, <1>5 DEF Children
  <2>2. ShutDown(child[router.nodes[n]]) \in ChildType
    BY <2>1, ShutDownEffect DEF TypeOK, Children
  <2>3. child' = [child EXCEPT ![router.nodes[n]] = ShutDown(child[router.nodes[n]])]
    BY <1>5 DEF RemoveNode
  <2>4. /\ child' \in Seq(ChildType) /\ Len(child') = Len(child)
        /\ Children' = Children
        /\ child'[router.nodes[n]] = ShutDown(child[router.nodes[n]])
        /\ \A p \in Children : p # router.nodes[n] => child'[p] = child[p]
    BY <2>1, <2>2, <2>3, ChildChange DEF TypeOK
  <2> QED BY <1>3, <2>4
<1> QED BY <1>4, <1>5

\* A child is woken.
LEMMA WakeEffect ==
  ASSUME TypeOK, NEW o \in Children, child' = [child EXCEPT ![o] = Unpaused(@)]
  PROVE  /\ child' \in Seq(ChildType) /\ Len(child') = Len(child)
         /\ Children' = Children
         /\ \A p \in Children : child'[p] = IF p = o THEN Unpaused(child[p]) ELSE child[p]
<1>1. Unpaused(child[o]) \in ChildType
  BY UnpausedEffect DEF TypeOK, Children
<1> QED BY <1>1, ChildChange DEF TypeOK

\* A router of more children.
LEMMA RouterTypeGrows ==
  ASSUME NEW n \in Nat, NEW r \in RouterType(0 .. n)
  PROVE  r \in RouterType(0 .. n + 1)
<1>1. 0 .. n \subseteq 0 .. n + 1
  OBVIOUS
<1> QED BY <1>1 DEF RouterType

\* The set of handlers that are at a heartbeat, when one of them moves.
LEMMA BeatingMoves ==
  ASSUME IsFiniteSet(Beating), NEW h \in Handlers,
         handler \in [Handlers -> HandlerType],
         NEW r, handler' = [handler EXCEPT ![h] = r]
  PROVE  /\ IsFiniteSet(Beating') /\ Cardinality(Beating) \in Nat
         /\ Cardinality(Beating') \in Nat
         /\ Cardinality(Beating') <= Cardinality(Beating) + 1
         /\ r.pc # "beat" => Cardinality(Beating') <= Cardinality(Beating)
         /\ r.pc # "beat" /\ handler[h].pc = "beat" =>
              Cardinality(Beating') = Cardinality(Beating) - 1
<1>1. CASE r.pc = "beat"
  <2>1. Beating' = Beating \cup {h}
    BY <1>1 DEF Beating
  <2>2. /\ IsFiniteSet(Beating') /\ Cardinality(Beating) \in Nat
        /\ Cardinality(Beating') \in {Cardinality(Beating), Cardinality(Beating) + 1}
    BY <2>1, FS_AddElement, FS_CardinalityType
  <2> QED BY <1>1, <2>2
<1>2. CASE r.pc # "beat"
  <2>1. Beating' = Beating \ {h}
    BY <1>2 DEF Beating
  <2>2. h \in Beating <=> handler[h].pc = "beat"
    BY DEF Beating
  <2>3. /\ IsFiniteSet(Beating') /\ Cardinality(Beating) \in Nat
        /\ Cardinality(Beating') \in Nat
        /\ Cardinality(Beating') = IF h \in Beating THEN Cardinality(Beating) - 1
                                   ELSE Cardinality(Beating)
    BY <2>1, FS_RemoveElement, FS_CardinalityType
  <2> QED BY <1>2, <2>2, <2>3
<1> QED BY <1>1, <1>2

LEMMA TypeStep == IInv /\ [Next]_vars => TypeOK' /\ BeatsCounted'
<1> SUFFICES ASSUME IInv, [Next]_vars PROVE TypeOK' /\ BeatsCounted'
  OBVIOUS
<1>0. /\ TypeOK /\ BeatsCounted /\ LockHeld /\ EntersNewest /\ ReapsKnown
      /\ Len(child) \in Nat /\ beats \in Nat /\ MaxBeats \in Nat
      /\ Cardinality(Beating) \in Nat
      /\ IsFiniteSet(Beating) /\ handler \in [Handlers -> HandlerType]
      /\ known \in [Nodes -> 0 .. Len(child)]
      /\ 0 \in 0 .. Len(child) /\ Len(child) \in 0 .. Len(child)
  BY RadioAssumption, FS_CardinalityType DEF IInv, TypeOK, BeatsCounted
\* The children change and nothing else of what follows.
<1>1. ASSUME child' \in Seq(ChildType), Len(child') = Len(child),
             UNCHANGED <<beats, handler>>,
             routed' \in 0 .. MaxRouted, nodeMU' \in Handlers \cup Reapers \cup {None},
             known' \in [Nodes -> 0 .. Len(child)],
             router' \in RouterType(0 .. Len(child)),
             reaper' \in [Reapers -> ReaperType],
             stop' \in [pc : {"no", "router", "children", "over"}, todo : SUBSET Nodes]
      PROVE  TypeOK' /\ BeatsCounted'
  <2>1. Beating' = Beating
    BY <1>1 DEF Beating
  <2> QED BY <1>0, <1>1, <2>1 DEF TypeOK, BeatsCounted
<1>2. ASSUME NEW o \in Children, ChildWorks(o) PROVE TypeOK' /\ BeatsCounted'
  <2>1. PICK c \in ChildType : Becomes(o, c)
    BY <1>0, <1>2, WorkerEffect DEF TypeOK
  <2>2. child' \in Seq(ChildType) /\ Len(child') = Len(child)
    BY <1>0, <2>1, ChildChange DEF Becomes, TypeOK
  <2> QED BY <1>0, <1>1, <2>1, <2>2 DEF Becomes, TypeOK, BeatsCounted
<1>3. ASSUME NEW m \in Msgs, RouteMessage(m) PROVE TypeOK' /\ BeatsCounted'
  <2>1. child' \in Seq(ChildType) /\ Len(child') = Len(child)
    BY <1>0, <1>3, RouteEffect DEF TypeOK
  <2>2. routed' \in 0 .. MaxRouted
    BY <1>0, <1>3, RadioAssumption DEF RouteMessage, TypeOK
  <2> QED BY <1>0, <1>1, <1>3, <2>1, <2>2 DEF RouteMessage, TypeOK, BeatsCounted
<1>4. ASSUME NEW h \in Handlers, NEW n \in Nodes, HandlerTakes(h, n)
      PROVE  TypeOK' /\ BeatsCounted'
  <2> DEFINE r == [pc |-> "beat", node |-> n]
  <2>1. r \in HandlerType /\ handler' = [handler EXCEPT ![h] = r] /\ r.pc = "beat"
    BY <1>4 DEF HandlerTakes, HandlerType
  <2>2. /\ IsFiniteSet(Beating') /\ Cardinality(Beating') \in Nat
        /\ Cardinality(Beating') <= Cardinality(Beating) + 1
    <3> HIDE DEF r
    <3> QED BY <1>0, <2>1, BeatingMoves
  <2>3. beats' = beats + 1 /\ beats' \in 0 .. MaxBeats
    BY <1>0, <1>4 DEF HandlerTakes
  <2>4. TypeOK'
    BY <1>0, <1>4, <2>1, <2>3 DEF HandlerTakes, TypeOK
  <2>5. BeatsCounted'
    BY <1>0, <1>4, <2>1, <2>2, <2>3 DEF HandlerTakes, TypeOK, BeatsCounted
  <2> QED BY <2>4, <2>5
<1>5. ASSUME NEW h \in Handlers, HandlerExits(h) PROVE TypeOK' /\ BeatsCounted'
  <2> DEFINE r == [handler[h] EXCEPT !.pc = Exited]
  <2>1. /\ r \in HandlerType /\ handler' = [handler EXCEPT ![h] = r]
        /\ r.pc = Exited /\ handler[h].pc = "idle"
    BY <1>0, <1>5 DEF HandlerExits, HandlerType, TypeOK
  <2>2. /\ IsFiniteSet(Beating') /\ Cardinality(Beating') \in Nat
        /\ Cardinality(Beating') <= Cardinality(Beating)
    <3> HIDE DEF r
    <3>1. r.pc # "beat"
      BY <2>1 DEF Exited
    <3>2. handler' = [handler EXCEPT ![h] = r]
      BY <2>1
    <3> QED BY <1>0, <3>1, <3>2, BeatingMoves
  <2>3. TypeOK'
    BY <1>0, <1>5, <2>1 DEF HandlerExits, TypeOK
  <2>4. BeatsCounted'
    BY <1>0, <1>5, <2>1, <2>2 DEF HandlerExits, TypeOK, BeatsCounted, Exited
  <2> QED BY <2>3, <2>4
<1>6. ASSUME NEW h \in Handlers, Beat(h) PROVE TypeOK' /\ BeatsCounted'
  <2>1. known[handler[h].node] \in Children
    BY <1>0, <1>6 DEF Beat, TypeOK, BeatsCounted, Children
  <2>2. child' \in Seq(ChildType) /\ Len(child') = Len(child)
    BY <1>0, <1>6, <2>1, WakeEffect DEF Beat
  <2>3. Idle \in HandlerType /\ handler' = [handler EXCEPT ![h] = Idle] /\ Idle.pc = "idle"
    BY <1>6 DEF Beat, HandlerType, Idle
  <2>4. /\ IsFiniteSet(Beating') /\ Cardinality(Beating') \in Nat
        /\ Cardinality(Beating') <= Cardinality(Beating)
    BY <1>0, <2>3, BeatingMoves
  <2>5. TypeOK'
    BY <1>0, <1>6, <2>2, <2>3 DEF Beat, TypeOK
  <2>6. BeatsCounted'
    BY <1>0, <1>6, <2>2, <2>3, <2>4 DEF Beat, TypeOK, BeatsCounted
  <2> QED BY <2>5, <2>6
<1>7. ASSUME NEW h \in Handlers, Discover(h) PROVE TypeOK' /\ BeatsCounted'
  <2> DEFINE r == [handler[h] EXCEPT !.pc = "enter"]
  <2>1. /\ r \in HandlerType /\ handler' = [handler EXCEPT ![h] = r]
        /\ r.pc = "enter" /\ handler[h].pc = "beat" /\ handler[h].node \in Nodes
    BY <1>0, <1>7 DEF Discover, HandlerType, TypeOK, BeatsCounted
  <2>2. /\ IsFiniteSet(Beating') /\ Cardinality(Beating') \in Nat
        /\ Cardinality(Beating') = Cardinality(Beating) - 1
    <3> HIDE DEF r
    <3> QED BY <1>0, <2>1, BeatingMoves
  <2>3. child' \in Seq(ChildType) /\ Len(child') = Len(child) + 1
    BY <1>0, <1>7, ChildMade DEF Discover, TypeOK
  <2>4. router \in RouterType(0 .. Len(child) + 1)
    BY <1>0, RouterTypeGrows DEF TypeOK
  <2>5. router' \in RouterType(0 .. Len(child'))
    BY <1>0, <1>7, <2>1, <2>3, <2>4, RAddNodeEffect DEF Discover
  <2>6. /\ Len(child') <= beats
        /\ Len(child') + Cardinality(Beating') <= beats
    BY <1>0, <2>2, <2>3 DEF BeatsCounted
  <2>7. TypeOK'
    BY <1>0, <1>7, <2>1, <2>3, <2>5, <2>6 DEF Discover, TypeOK
  <2>8. BeatsCounted'
    BY <1>0, <1>7, <2>1, <2>2, <2>6 DEF Discover, TypeOK, BeatsCounted
  <2> QED BY <2>7, <2>8
<1>8. ASSUME NEW h \in Handlers, Enter(h) PROVE TypeOK' /\ BeatsCounted'
  <2>1. /\ handler[h].node \in Nodes /\ Len(child) \in Children
        /\ child[Len(child)] \in ChildType
    BY <1>0, <1>8 DEF Enter, TypeOK, BeatsCounted, EntersNewest, Entering, Children
  <2>2. child' \in Seq(ChildType) /\ Len(child') = Len(child)
    <3> DEFINE c == [child[Len(child)] EXCEPT !.pc = "check"]
    <3>1. c \in ChildType /\ child' = [child EXCEPT ![Len(child)] = c]
      BY <1>8, <2>1 DEF Enter, ChildType
    <3> QED BY <1>0, <2>1, <3>1, ChildChange DEF TypeOK
  <2>3. Idle \in HandlerType /\ handler' = [handler EXCEPT ![h] = Idle] /\ Idle.pc = "idle"
    BY <1>8 DEF Enter, HandlerType, Idle
  <2>4. /\ IsFiniteSet(Beating') /\ Cardinality(Beating') \in Nat
        /\ Cardinality(Beating') <= Cardinality(Beating)
    BY <1>0, <2>3, BeatingMoves
  <2>5. router' \in RouterType(0 .. Len(child))
    <3>1. Wants[handler[h].node] \in SUBSET Types
      BY <2>1, RadioAssumption
    <3> QED BY <1>0, <1>8, <2>1, <3>1, RAddRoutesEffect DEF Enter, TypeOK
  <2>6. known' \in [Nodes -> 0 .. Len(child)]
    BY <1>0, <1>8 DEF Enter
  <2>7. TypeOK'
    BY <1>0, <1>8, <2>2, <2>3, <2>5, <2>6 DEF Enter, TypeOK
  <2>8. BeatsCounted'
    BY <1>0, <1>8, <2>2, <2>3, <2>4 DEF Enter, TypeOK, BeatsCounted
  <2> QED BY <2>7, <2>8
<1>9. ASSUME NEW j \in Reapers, Reap(j) PROVE TypeOK' /\ BeatsCounted'
  <2>1. reaper' \in [Reapers -> ReaperType]
    BY <1>0, <1>9 DEF Reap, TypeOK, ReaperType
  <2> QED BY <1>0, <1>1, <1>9, <2>1 DEF Reap, TypeOK, BeatsCounted
<1>10. ASSUME NEW j \in Reapers, ReapStop(j) PROVE TypeOK' /\ BeatsCounted'
  <2>1. reaper[j].node \in Nodes /\ known[reaper[j].node] \in Children
    BY <1>0, <1>10 DEF ReapStop, TypeOK, ReaperType, ReapsKnown, Children
  <2>2. child' \in Seq(ChildType) /\ Len(child') = Len(child)
    BY <1>0, <1>10, <2>1, WakeEffect DEF ReapStop
  <2>3. reaper' \in [Reapers -> ReaperType]
    BY <1>0, <1>10 DEF ReapStop, TypeOK, ReaperType, NoReap
  <2>4. known' \in [Nodes -> 0 .. Len(child)]
    BY <1>0, <1>10 DEF ReapStop
  <2>5. nodeMU' \in Handlers \cup Reapers \cup {None}
    BY <1>0, <1>10 DEF ReapStop, TypeOK
  <2> QED BY <1>0, <1>1, <1>10, <2>2, <2>3, <2>4, <2>5
          DEF ReapStop, TypeOK, BeatsCounted
<1>11. ASSUME NEW j \in Reapers, ReaperExits(j) PROVE TypeOK' /\ BeatsCounted'
  <2>1. reaper' \in [Reapers -> ReaperType]
    BY <1>0, <1>11 DEF ReaperExits, TypeOK, ReaperType
  <2> QED BY <1>0, <1>1, <1>11, <2>1 DEF ReaperExits, TypeOK, BeatsCounted
<1>12. ASSUME NEW j \in Reapers, NEW n \in Nodes, ReapRemove(j, n)
       PROVE  TypeOK' /\ BeatsCounted'
  <2>1. /\ child' \in Seq(ChildType) /\ Len(child') = Len(child)
        /\ router' \in RouterType(0 .. Len(child))
    BY <1>0, <1>12, RemoveNodeEffect DEF ReapRemove
  <2>2. reaper' \in [Reapers -> ReaperType]
    BY <1>0, <1>12 DEF ReapRemove, TypeOK, ReaperType
  <2> QED BY <1>0, <1>1, <1>12, <2>1, <2>2 DEF ReapRemove, TypeOK, BeatsCounted
<1>13. ASSUME NEW n \in Nodes, StopNode(n) PROVE TypeOK' /\ BeatsCounted'
  <2>1. /\ child' \in Seq(ChildType) /\ Len(child') = Len(child)
        /\ router' \in RouterType(0 .. Len(child))
    BY <1>0, <1>13, RemoveNodeEffect DEF StopNode
  <2>2. stop' \in [pc : {"no", "router", "children", "over"}, todo : SUBSET Nodes]
    BY <1>0, <1>13 DEF StopNode, BeatsCounted
  <2> QED BY <1>0, <1>1, <1>13, <2>1, <2>2 DEF StopNode, TypeOK
<1>14. ASSUME NEW n \in Nodes, StopChild(n) PROVE TypeOK' /\ BeatsCounted'
  <2>1. child' \in Seq(ChildType) /\ Len(child') = Len(child)
    <3>1. known[n] # 0 => known[n] \in Children
      BY <1>0 DEF TypeOK, Children
    <3> QED BY <1>0, <1>14, <3>1, WakeEffect DEF StopChild, TypeOK
  <2>2. stop' \in [pc : {"no", "router", "children", "over"}, todo : SUBSET Nodes]
    BY <1>0, <1>14 DEF StopChild, BeatsCounted
  <2> QED BY <1>0, <1>1, <1>14, <2>1, <2>2 DEF StopChild, TypeOK
<1>15. ASSUME StopBegins \/ StopChildren \/ StopEnds PROVE TypeOK' /\ BeatsCounted'
  <2>1. stop' \in [pc : {"no", "router", "children", "over"}, todo : SUBSET Nodes]
    BY <1>0, <1>15 DEF StopBegins, StopChildren, StopEnds, BeatsCounted
  <2> QED BY <1>0, <1>1, <1>15, <2>1 DEF StopBegins, StopChildren, StopEnds, TypeOK
<1>16. ASSUME UNCHANGED vars PROVE TypeOK' /\ BeatsCounted'
  BY <1>0, <1>1, <1>16 DEF vars, TypeOK, BeatsCounted
<1> QED
  BY <1>2, <1>3, <1>4, <1>5, <1>6, <1>7, <1>8, <1>9, <1>10, <1>11, <1>12, <1>13,
     <1>14, <1>15, <1>16
  DEF Next, Handle, Clean, GoesOn

-----------------------------------------------------------------------------
(* The lock.                                                                 *)

LEMMA LockStep == IInv /\ [Next]_vars => LockHeld'
<1> SUFFICES ASSUME IInv, [Next]_vars PROVE LockHeld'
  OBVIOUS
<1>0. /\ LockHeld /\ handler \in [Handlers -> HandlerType]
      /\ reaper \in [Reapers -> ReaperType]
      /\ None \notin Handlers /\ None \notin Reapers /\ Handlers \cap Reapers = {}
  BY RadioAssumption DEF IInv, TypeOK
<1>1. CASE UNCHANGED <<handler, nodeMU, reaper>>
  BY <1>0, <1>1 DEF LockHeld
<1>2. ASSUME NEW o \in Children, ChildWorks(o) PROVE LockHeld'
  <2>1. PICK c \in ChildType : Becomes(o, c)
    BY <1>2, WorkerEffect DEF IInv, TypeOK
  <2> QED BY <1>1, <2>1 DEF Becomes
<1>3. ASSUME NEW m \in Msgs, RouteMessage(m) PROVE LockHeld'
  BY <1>1, <1>3 DEF RouteMessage
<1>4. ASSUME NEW h \in Handlers, NEW n \in Nodes, HandlerTakes(h, n) PROVE LockHeld'
  BY <1>0, <1>4 DEF HandlerTakes, LockHeld
<1>5. ASSUME NEW h \in Handlers, HandlerExits(h) PROVE LockHeld'
  BY <1>0, <1>5 DEF HandlerExits, LockHeld, HandlerType, Exited
<1>6. ASSUME NEW h \in Handlers, Beat(h) PROVE LockHeld'
  BY <1>0, <1>6 DEF Beat, LockHeld, Idle
<1>7. ASSUME NEW h \in Handlers, Discover(h) PROVE LockHeld'
  BY <1>0, <1>7 DEF Discover, LockHeld, HandlerType
<1>8. ASSUME NEW h \in Handlers, Enter(h) PROVE LockHeld'
  <2>1. nodeMU = h /\ nodeMU' = None /\ reaper' = reaper
    BY <1>0, <1>8 DEF Enter, LockHeld
  <2>2. handler' = [handler EXCEPT ![h] = Idle]
    BY <1>8 DEF Enter
  <2> QED BY <1>0, <2>1, <2>2 DEF LockHeld, Idle
<1>9. ASSUME NEW j \in Reapers, Reap(j) PROVE LockHeld'
  <2>1. PICK stale : reaper' = [reaper EXCEPT ![j] =
                                  [pc |-> "remove", todo |-> stale, node |-> None]]
    BY <1>9 DEF Reap
  <2> QED BY <1>0, <1>9, <2>1 DEF Reap, LockHeld
<1>10. ASSUME NEW j \in Reapers, ReapStop(j) PROVE LockHeld'
  <2>1. nodeMU = j /\ handler' = handler
    BY <1>0, <1>10 DEF ReapStop, LockHeld
  <2>2. \/ /\ nodeMU' = None /\ reaper' = [reaper EXCEPT ![j] = NoReap]
        \/ /\ nodeMU' = nodeMU
           /\ \E left : reaper' = [reaper EXCEPT ![j] =
                                     [pc |-> "remove", todo |-> left, node |-> None]]
    BY <1>10 DEF ReapStop
  <2> QED BY <1>0, <2>1, <2>2 DEF LockHeld, NoReap
<1>11. ASSUME NEW j \in Reapers, ReaperExits(j) PROVE LockHeld'
  BY <1>0, <1>11 DEF ReaperExits, LockHeld, ReaperType, Exited
<1>12. ASSUME NEW j \in Reapers, NEW n \in Nodes, ReapRemove(j, n) PROVE LockHeld'
  <2>1. /\ reaper' = [reaper EXCEPT ![j].pc = "stop", ![j].node = n]
        /\ reaper[j].pc = "remove" /\ nodeMU' = nodeMU /\ handler' = handler
    BY <1>12 DEF ReapRemove
  <2> QED BY <1>0, <2>1 DEF LockHeld, ReaperType
<1>13. ASSUME NEW n \in Nodes, StopNode(n) \/ StopChild(n) PROVE LockHeld'
  BY <1>1, <1>13 DEF StopNode, StopChild
<1>14. ASSUME StopBegins \/ StopChildren \/ StopEnds PROVE LockHeld'
  BY <1>1, <1>14 DEF StopBegins, StopChildren, StopEnds
<1>15. ASSUME UNCHANGED vars PROVE LockHeld'
  BY <1>1, <1>15 DEF vars
<1> QED
  BY <1>2, <1>3, <1>4, <1>5, <1>6, <1>7, <1>8, <1>9, <1>10, <1>11, <1>12, <1>13,
     <1>14, <1>15
  DEF Next, Handle, Clean, GoesOn

-----------------------------------------------------------------------------
(* The maps.                                                                 *)

\* A step that leaves the maps alone, or changes only what the reapers are to do.
LEMMA MapsStay ==
  ASSUME IInv, UNCHANGED <<known, router>>, ReapsKnown', Killed => Killed',
         child' \in Seq(ChildType), Len(child') = Len(child),
         \A o \in Children : child'[o].q.closed = child[o].q.closed,
         Len(child) > 0 /\ child[Len(child)].pc = "new" => child'[Len(child)].pc = "new",
         \A n \in Nodes : Entering(n)' <=> Entering(n),
         \A n \in Nodes : Leaving(n)' <=> Leaving(n)
  PROVE  (EntersNewest /\ ReapsKnown /\ OneChildEach /\ InStep)'
<1>1. EntersNewest'
  BY DEF IInv, EntersNewest
<1>2. OneChildEach'
  BY DEF IInv, OneChildEach
<1>3. InStep'
  BY DEF IInv, InStep, Children
<1> QED BY <1>1, <1>2, <1>3

\* Whoever holds the lock is the only one between two steps.
LEMMA OneHolds ==
  ASSUME IInv
  PROVE  /\ nodeMU = None => \A n \in Nodes : ~Entering(n) /\ ~Leaving(n)
         /\ nodeMU \in Handlers => /\ \A n \in Nodes : ~Leaving(n)
                                   /\ \A n \in Nodes : Entering(n) <=>
                                        /\ handler[nodeMU].pc = "enter"
                                        /\ handler[nodeMU].node = n
         /\ nodeMU \in Reapers => /\ \A n \in Nodes : ~Entering(n)
                                  /\ \A n \in Nodes : Leaving(n) <=>
                                       /\ reaper[nodeMU].pc = "stop"
                                       /\ reaper[nodeMU].node = n
         /\ \A j \in Reapers : nodeMU # j => reaper[j].todo = {}
<1>1. \A j \in Reapers : reaper[j].pc \in {"idle", "remove", "stop", Exited}
  BY DEF IInv, TypeOK, ReaperType
<1> QED BY <1>1, RadioAssumption DEF IInv, LockHeld, ReapsKnown, Entering, Leaving

\* The steps of heartbeatHandler that change the maps.
LEMMA DiscoverMaps ==
  ASSUME IInv, NEW h \in Handlers, Discover(h), LockHeld', TypeOK'
  PROVE  (EntersNewest /\ ReapsKnown /\ OneChildEach /\ InStep)'
<1> DEFINE n == handler[h].node
<1>1. /\ nodeMU = None /\ nodeMU' = h /\ n \in Nodes /\ known[n] = 0
      /\ handler' = [handler EXCEPT ![h].pc = "enter"]
      /\ handler'[h].pc = "enter" /\ handler'[h].node = n
      /\ UNCHANGED <<known, reaper, stop>> /\ Len(child) \in Nat
      /\ known \in [Nodes -> 0 .. Len(child)]
  BY DEF Discover, IInv, TypeOK, BeatsCounted, HandlerType
<1>2. \A m \in Nodes : ~Entering(m) /\ ~Leaving(m) /\ ~Leaving(m)'
  BY <1>1, OneHolds DEF Leaving
<1>3. \A m \in Nodes : Entering(m)' <=> m = n
  <2>1. \A g \in Handlers : g # h => handler'[g].pc # "enter"
    BY <1>1 DEF LockHeld
  <2> QED BY <1>1, <2>1 DEF Entering
<1>4. router.nodes[n] = 0
  BY <1>1, <1>2 DEF IInv, OneChildEach
<1>5. /\ child' \in Seq(ChildType) /\ Len(child') = Len(child) + 1
      /\ child'[Len(child')] = NewChild
      /\ \A o \in Children : child'[o] = child[o]
  BY ChildMade DEF Discover, IInv, TypeOK
<1>6. /\ router'.routes = router.routes
      /\ \A m \in Nodes : router'.nodes[m] = IF m = n THEN Len(child) + 1 ELSE router.nodes[m]
  <2>1. router \in RouterType(0 .. Len(child) + 1) /\ Len(child) + 1 \in 0 .. Len(child) + 1
    BY SMTT(30), <1>1, RouterTypeGrows DEF IInv, TypeOK
  <2> QED BY <1>1, <1>4, <2>1, RAddNodeEffect DEF Discover
<1>7. EntersNewest'
  BY <1>1, <1>3, <1>5 DEF EntersNewest, NewChild
<1>8. ReapsKnown'
  <2>1. \A j \in Reapers : reaper[j].pc # "stop"
    BY <1>1, RadioAssumption DEF IInv, LockHeld
  <2> QED BY <1>1, <2>1 DEF IInv, ReapsKnown
<1>9. OneChildEach'
  BY <1>1, <1>2, <1>3, <1>5, <1>6 DEF IInv, OneChildEach
<1>10. ASSUME ~Killed' PROVE InStep'
  <2>1. ~Killed
    BY <1>1, <1>10 DEF Killed
  <2>2. /\ \A m \in Nodes : router.nodes[m] = known[m]
        /\ \A t \in Types, m \in Nodes :
             router.routes[t][m] = IF t \in Wants[m] /\ known[m] # 0
                                   THEN router.nodes[m] ELSE 0
        /\ \A o \in Children : child[o].q.closed <=> \A m \in Nodes : router.nodes[m] # o
    BY <1>2, <2>1 DEF IInv, InStep
  <2>3. \A o \in Children' : child'[o].q.closed <=> \A m \in Nodes : router'.nodes[m] # o
    <3>1. ~child'[Len(child) + 1].q.closed /\ router'.nodes[n] = Len(child) + 1
      BY <1>1, <1>5, <1>6 DEF NewChild, NewQueue
    <3>2. ASSUME NEW o \in Children
          PROVE  child'[o].q.closed <=> \A m \in Nodes : router'.nodes[m] # o
      <4>1. o # Len(child) + 1 /\ o # 0
        BY <1>1 DEF Children
      <4>2. (\A m \in Nodes : router'.nodes[m] # o) <=> \A m \in Nodes : router.nodes[m] # o
        BY <1>1, <1>4, <1>6, <4>1
      <4> QED BY <1>5, <2>2, <4>2
    <3>3. Children' = Children \cup {Len(child) + 1}
      BY <1>1, <1>5 DEF Children
    <3> QED BY <1>1, <3>1, <3>2, <3>3
  <2>4. \A t \in Types, m \in Nodes :
          router'.routes[t][m] = IF t \in Wants[m] /\ known'[m] # 0
                                 THEN router'.nodes[m] ELSE 0
    BY <1>1, <1>6, <2>2
  <2>5. \A m \in Nodes : router'.nodes[m] = IF Entering(m)' THEN Len(child')
                                            ELSE IF Leaving(m)' THEN 0 ELSE known'[m]
    BY <1>1, <1>2, <1>3, <1>5, <1>6, <2>2
  <2> QED BY <2>3, <2>4, <2>5 DEF InStep
<1> QED BY <1>7, <1>8, <1>9, <1>10 DEF InStep

LEMMA EnterMaps ==
  ASSUME IInv, NEW h \in Handlers, Enter(h), LockHeld', TypeOK'
  PROVE  (EntersNewest /\ ReapsKnown /\ OneChildEach /\ InStep)'
<1> DEFINE n == handler[h].node
<1>1. /\ nodeMU = h /\ nodeMU' = None /\ n \in Nodes /\ handler[h].pc = "enter"
      /\ handler' = [handler EXCEPT ![h] = Idle]
      /\ known' = [known EXCEPT ![n] = Len(child)]
      /\ UNCHANGED <<reaper, stop>> /\ Len(child) \in Nat
      /\ known \in [Nodes -> 0 .. Len(child)]
  BY DEF Enter, IInv, TypeOK, BeatsCounted, LockHeld
<1>2. \A m \in Nodes : ~Leaving(m) /\ ~Leaving(m)' /\ (Entering(m) <=> m = n)
  BY <1>1, OneHolds DEF Leaving
<1>3. \A m \in Nodes : ~Entering(m)'
  <2>1. \A g \in Handlers : g # None
    BY RadioAssumption
  <2> QED BY <1>1, <2>1 DEF Entering, LockHeld
<1>4. /\ Len(child) > 0 /\ Len(child) \in Children /\ known[n] = 0
      /\ \A m \in Nodes : known[m] # Len(child)
  BY <1>1, <1>2 DEF IInv, EntersNewest, Children
<1>5. /\ Len(child') = Len(child)
      /\ \A o \in Children : child'[o].q = child[o].q
  <2> DEFINE c == [child[Len(child)] EXCEPT !.pc = "check"]
  <2>1. c \in ChildType /\ c.q = child[Len(child)].q
    <3>1. child[Len(child)] \in ChildType
      BY <1>4 DEF IInv, TypeOK, Children
    <3> QED BY <3>1 DEF ChildType
  <2>2. child' = [child EXCEPT ![Len(child)] = c]
    BY DEF Enter
  <2>3. /\ Len(child') = Len(child) /\ child'[Len(child)] = c
        /\ \A p \in Children : p # Len(child) => child'[p] = child[p]
    <3> HIDE DEF c
    <3> QED BY <1>4, <2>1, <2>2, ChildChange DEF IInv, TypeOK
  <2> QED BY <2>1, <2>3
<1>6. /\ router'.nodes = router.nodes
      /\ \A t \in Types, m \in Nodes :
           router'.routes[t][m] =
             IF router.nodes[n] # 0 /\ t \in Wants[n] /\ m = n THEN router.nodes[n]
             ELSE router.routes[t][m]
  <2>1. Wants[n] \in SUBSET Types
    BY <1>1, RadioAssumption
  <2> HIDE DEF n
  <2>2. router' = RAddRoutes(router, n, Wants[n])
    BY DEF Enter, n
  <2> QED BY <1>1, <2>1, <2>2, RAddRoutesEffect DEF IInv, TypeOK
<1>7. EntersNewest'
  BY <1>3 DEF EntersNewest
<1>8. ReapsKnown'
  BY <1>1, <1>4, <1>6 DEF IInv, ReapsKnown, TypeOK, ReaperType
<1>9. OneChildEach'
  BY <1>1, <1>2, <1>3, <1>4, <1>5, <1>6 DEF IInv, OneChildEach
<1>10. ASSUME ~Killed' PROVE InStep'
  <2>1. ~Killed
    BY <1>1, <1>10 DEF Killed
  <2>2. /\ \A m \in Nodes : router.nodes[m] = IF m = n THEN Len(child) ELSE known[m]
        /\ \A t \in Types, m \in Nodes :
             router.routes[t][m] = IF t \in Wants[m] /\ known[m] # 0
                                   THEN router.nodes[m] ELSE 0
        /\ \A o \in Children : child[o].q.closed <=> \A m \in Nodes : router.nodes[m] # o
    BY <1>2, <2>1 DEF IInv, InStep
  <2>3. \A o \in Children' : child'[o].q.closed <=> \A m \in Nodes : router'.nodes[m] # o
    BY <1>5, <1>6, <2>2 DEF Children
  <2>4. \A t \in Types, m \in Nodes :
          router'.routes[t][m] = IF t \in Wants[m] /\ known'[m] # 0
                                 THEN router'.nodes[m] ELSE 0
    BY <1>1, <1>4, <1>6, <2>2
  <2>5. \A m \in Nodes : router'.nodes[m] = IF Entering(m)' THEN Len(child')
                                            ELSE IF Leaving(m)' THEN 0 ELSE known'[m]
    BY <1>1, <1>2, <1>3, <1>6, <2>2
  <2> QED BY <2>3, <2>4, <2>5 DEF InStep
<1> QED BY <1>7, <1>8, <1>9, <1>10 DEF InStep

\* The steps of cleanupNode that change the maps.
LEMMA ReapStopMaps ==
  ASSUME IInv, NEW j \in Reapers, ReapStop(j), LockHeld', TypeOK'
  PROVE  (EntersNewest /\ ReapsKnown /\ OneChildEach /\ InStep)'
<1> DEFINE n == reaper[j].node
<1>1. /\ nodeMU = j /\ n \in Nodes /\ n \in reaper[j].todo /\ router.nodes[n] = 0
      /\ known[n] \in Children /\ known' = [known EXCEPT ![n] = 0]
      /\ child' = [child EXCEPT ![known[n]] = Unpaused(@)]
      /\ UNCHANGED <<router, stop, handler>>
      /\ known \in [Nodes -> 0 .. Len(child)]
  BY DEF ReapStop, IInv, TypeOK, ReaperType, LockHeld, ReapsKnown, Children
<1>2. /\ reaper'[j].todo = reaper[j].todo \ {n} /\ reaper'[j].pc # "stop"
      /\ reaper'[j].pc = "idle" => reaper'[j].todo = {}
      /\ reaper'[j].pc # Exited
      /\ \A i \in Reapers : i # j => reaper'[i] = reaper[i]
  BY DEF ReapStop, NoReap, IInv, TypeOK, Exited
<1>3. /\ \A m \in Nodes : ~Entering(m) /\ ~Entering(m)'
      /\ \A m \in Nodes : Leaving(m) <=> m = n
      /\ \A i \in Reapers : i # j => reaper[i].todo = {} /\ reaper[i].pc # "stop"
  <2>1. reaper[j].pc = "stop"
    BY DEF ReapStop
  <2>2. \A i \in Reapers : i # j => reaper[i].pc # "stop"
    BY <1>1 DEF IInv, LockHeld
  <2> QED BY <1>1, <2>1, <2>2, OneHolds DEF Entering
<1>4. \A m \in Nodes : ~Leaving(m)'
  BY <1>2, <1>3 DEF Leaving
<1>5. /\ Len(child') = Len(child) /\ Children' = Children
      /\ \A o \in Children : child'[o].q = child[o].q
  BY <1>1, WakeEffect, UnpausedEffect DEF IInv, TypeOK, Children
<1>6. EntersNewest'
  BY <1>3 DEF EntersNewest
<1>7. ReapsKnown'
  <2>1. \A m \in reaper[j].todo \ {n} : m \in Nodes /\ m # n /\ known[m] # 0
    BY DEF IInv, ReapsKnown, TypeOK, ReaperType
  <2>2. \A m \in reaper'[j].todo : known'[m] # 0
    BY <1>1, <1>2, <2>1
  <2> QED BY <1>2, <1>3, <2>2 DEF ReapsKnown
<1>8. OneChildEach'
  BY <1>1, <1>3 DEF IInv, OneChildEach
<1>9. ASSUME ~Killed' PROVE InStep'
  <2>1. ~Killed
    BY <1>1, <1>9 DEF Killed
  <2>2. /\ \A m \in Nodes : router.nodes[m] = IF m = n THEN 0 ELSE known[m]
        /\ \A t \in Types, m \in Nodes :
             router.routes[t][m] = IF t \in Wants[m] /\ known[m] # 0
                                   THEN router.nodes[m] ELSE 0
        /\ \A o \in Children : child[o].q.closed <=> \A m \in Nodes : router.nodes[m] # o
    BY <1>3, <2>1 DEF IInv, InStep
  <2>3. \A o \in Children' : child'[o].q.closed <=> \A m \in Nodes : router'.nodes[m] # o
    BY <1>1, <1>5, <2>2
  <2>4. \A t \in Types, m \in Nodes :
          router'.routes[t][m] = IF t \in Wants[m] /\ known'[m] # 0
                                 THEN router'.nodes[m] ELSE 0
    BY <1>1, <2>2
  <2>5. \A m \in Nodes : router'.nodes[m] = IF Entering(m)' THEN Len(child')
                                            ELSE IF Leaving(m)' THEN 0 ELSE known'[m]
    BY <1>1, <1>3, <1>4, <2>2
  <2> QED BY <2>3, <2>4, <2>5 DEF InStep
<1> QED BY <1>6, <1>7, <1>8, <1>9 DEF InStep

LEMMA ReapRemoveMaps ==
  ASSUME IInv, NEW j \in Reapers, NEW n \in Nodes, ReapRemove(j, n), LockHeld', TypeOK'
  PROVE  (EntersNewest /\ ReapsKnown /\ OneChildEach /\ InStep)'
<1>1. /\ nodeMU = j /\ reaper[j].pc = "remove" /\ n \in reaper[j].todo
      /\ reaper' = [reaper EXCEPT ![j].pc = "stop", ![j].node = n]
      /\ UNCHANGED <<known, stop, handler>>
      /\ known \in [Nodes -> 0 .. Len(child)]
  BY DEF ReapRemove, IInv, TypeOK, LockHeld
<1>2. /\ reaper'[j].pc = "stop" /\ reaper'[j].node = n /\ reaper'[j].todo = reaper[j].todo
      /\ \A i \in Reapers : i # j => reaper'[i] = reaper[i]
  BY <1>1 DEF IInv, TypeOK, ReaperType
<1>3. /\ \A m \in Nodes : ~Entering(m) /\ ~Entering(m)' /\ ~Leaving(m)
      /\ \A i \in Reapers : i # j => reaper[i].pc # "stop"
  <2>1. \A i \in Reapers : i # j => reaper[i].pc # "stop"
    BY <1>1 DEF IInv, LockHeld
  <2> QED BY <1>1, <2>1, OneHolds DEF Entering
<1>4. \A m \in Nodes : Leaving(m)' <=> m = n
  BY <1>2, <1>3 DEF Leaving
<1>5. /\ Len(child') = Len(child) /\ Children' = Children
      /\ \A m \in Nodes : router'.nodes[m] = IF m = n THEN 0 ELSE router.nodes[m]
      /\ \A t \in Types, m \in Nodes :
           router'.routes[t][m] = IF m = n THEN 0 ELSE router.routes[t][m]
      /\ \A o \in Children :
           child'[o] = IF o = router.nodes[n] THEN ShutDown(child[o]) ELSE child[o]
  BY RemoveNodeEffect DEF ReapRemove, IInv
<1>6. EntersNewest'
  BY <1>3 DEF EntersNewest
<1>7. ReapsKnown'
  <2>1. \A i \in Reapers : \A m \in reaper'[i].todo : known'[m] # 0
    BY <1>1, <1>2 DEF IInv, ReapsKnown
  <2>2. \A i \in Reapers : reaper'[i].pc \in {"idle", Exited} => reaper'[i].todo = {}
    BY <1>2 DEF IInv, ReapsKnown, Exited
  <2>3. \A i \in Reapers : reaper'[i].pc = "stop" =>
          reaper'[i].node \in reaper'[i].todo /\ router'.nodes[reaper'[i].node] = 0
    BY ZenonT(40), <1>1, <1>2, <1>3, <1>5
  <2> QED BY <2>1, <2>2, <2>3 DEF ReapsKnown
<1>8. OneChildEach'
  BY <1>1, <1>3, <1>5 DEF IInv, OneChildEach
<1>9. ASSUME ~Killed' PROVE InStep'
  <2>1. ~Killed
    BY <1>1, <1>9 DEF Killed
  <2>2. /\ \A m \in Nodes : router.nodes[m] = known[m]
        /\ \A t \in Types, m \in Nodes :
             router.routes[t][m] = IF t \in Wants[m] /\ known[m] # 0
                                   THEN router.nodes[m] ELSE 0
        /\ \A o \in Children : child[o].q.closed <=> \A m \in Nodes : router.nodes[m] # o
    BY <1>3, <2>1 DEF IInv, InStep
  <2>3. ASSUME NEW o \in Children
        PROVE  child'[o].q.closed <=> \A m \in Nodes : router'.nodes[m] # o
    <3>0. o # 0 /\ child[o] \in ChildType
      BY DEF IInv, TypeOK, Children
    <3>1. CASE o = router.nodes[n]
      <4>1. child'[o].q.closed
        BY <1>5, <3>0, <3>1, ShutDownEffect
      <4>2. \A m \in Nodes : m # n => router.nodes[m] # o
        BY <2>2, <3>0, <3>1 DEF IInv, OneChildEach
      <4> QED BY <1>5, <3>0, <4>1, <4>2
    <3>2. CASE o # router.nodes[n]
      BY <1>5, <2>2, <3>0, <3>2
    <3> QED BY <3>1, <3>2
  <2>4. \A t \in Types, m \in Nodes :
          router'.routes[t][m] = IF t \in Wants[m] /\ known'[m] # 0
                                 THEN router'.nodes[m] ELSE 0
    BY <1>1, <1>5, <2>2
  <2>5. \A m \in Nodes : router'.nodes[m] = IF Entering(m)' THEN Len(child')
                                            ELSE IF Leaving(m)' THEN 0 ELSE known'[m]
    BY <1>1, <1>3, <1>4, <1>5, <2>2
  <2> QED BY <1>5, <2>3, <2>4, <2>5 DEF InStep
<1> QED BY <1>6, <1>7, <1>8, <1>9 DEF InStep

\* Stop removes nodes without the lock.
LEMMA StopNodeMaps ==
  ASSUME IInv, NEW n \in Nodes, StopNode(n)
  PROVE  (EntersNewest /\ ReapsKnown /\ OneChildEach /\ InStep)'
<1>1. /\ Killed' /\ UNCHANGED <<known, reaper, handler>>
      /\ \A m \in Nodes : Entering(m)' <=> Entering(m)
  BY DEF StopNode, Killed, Entering, IInv, BeatsCounted
<1>2. /\ Len(child') = Len(child) /\ Children' = Children /\ Len(child) \in Nat
      /\ \A m \in Nodes : router'.nodes[m] = IF m = n THEN 0 ELSE router.nodes[m]
      /\ \A o \in Children : child[o] \in ChildType /\
           child'[o] = IF o = router.nodes[n] THEN ShutDown(child[o]) ELSE child[o]
  BY RemoveNodeEffect DEF StopNode, IInv, TypeOK, Children
<1>3. \A o \in Children : child'[o].pc = child[o].pc
  BY <1>2, ShutDownEffect
<1>4. EntersNewest'
  BY <1>1, <1>2, <1>3 DEF IInv, EntersNewest, Children
<1>5. ReapsKnown'
  BY <1>1, <1>2 DEF IInv, ReapsKnown, TypeOK, ReaperType
<1>6. OneChildEach'
  BY <1>1, <1>2 DEF IInv, OneChildEach
<1> QED BY <1>1, <1>4, <1>5, <1>6 DEF InStep

\* Every step.
LEMMA MapsStep ==
  IInv /\ [Next]_vars /\ TypeOK' /\ LockHeld' =>
    (EntersNewest /\ ReapsKnown /\ OneChildEach /\ InStep)'
<1> DEFINE Maps == EntersNewest /\ ReapsKnown /\ OneChildEach /\ InStep
<1> SUFFICES ASSUME IInv, [Next]_vars, TypeOK', LockHeld' PROVE Maps'
  OBVIOUS
<1>0. /\ TypeOK /\ ReapsKnown /\ child' \in Seq(ChildType) /\ Len(child) \in Nat
      /\ \A o \in Children : child[o] \in ChildType
      /\ Len(child) > 0 => Len(child) \in Children
  BY DEF IInv, TypeOK, Children
<1>1. ASSUME UNCHANGED <<known, router, child>>, ReapsKnown', Killed => Killed',
             \A n \in Nodes : Entering(n)' <=> Entering(n),
             \A n \in Nodes : Leaving(n)' <=> Leaving(n)
      PROVE  Maps'
  BY <1>0, <1>1, MapsStay
<1>2. ASSUME UNCHANGED <<known, router, reaper, stop>>, Len(child') = Len(child),
             \A o \in Children : /\ child'[o].q.closed = child[o].q.closed
                                 /\ child[o].pc = "new" => child'[o].pc = "new",
             \A n \in Nodes : Entering(n)' <=> Entering(n)
      PROVE  Maps'
  <2>1. ReapsKnown' /\ (Killed => Killed')
    BY <1>0, <1>2 DEF ReapsKnown, Killed
  <2>2. \A n \in Nodes : Leaving(n)' <=> Leaving(n)
    BY <1>2 DEF Leaving
  <2> QED BY <1>0, <1>2, <2>1, <2>2, MapsStay
<1>3. ASSUME NEW o \in Children, ChildWorks(o) PROVE Maps'
  <2>1. PICK c \in ChildType : /\ Becomes(o, c) /\ c.q.closed = child[o].q.closed
                               /\ child[o].pc # "new"
    BY <1>0, <1>3, WorkerEffect DEF TypeOK
  <2>2. /\ Len(child') = Len(child)
        /\ \A p \in Children : /\ child'[p].q.closed = child[p].q.closed
                               /\ child[p].pc = "new" => child'[p].pc = "new"
    BY <1>0, <2>1, ChildChange DEF Becomes, TypeOK
  <2> QED BY <1>2, <2>1, <2>2 DEF Becomes, Entering
<1>4. ASSUME NEW m \in Msgs, RouteMessage(m) PROVE Maps'
  <2>1. /\ Len(child') = Len(child)
        /\ \A o \in Children :
             \E q \in QueueType(Msgs) : /\ child'[o] = [child[o] EXCEPT !.q = q]
                                        /\ q.closed = child[o].q.closed
    BY <1>0, <1>4, RouteEffect DEF TypeOK
  <2>2. \A o \in Children : /\ child'[o].q.closed = child[o].q.closed
                            /\ child[o].pc = "new" => child'[o].pc = "new"
    BY <1>0, <2>1 DEF ChildType
  <2> QED BY <1>2, <1>4, <2>1, <2>2 DEF RouteMessage, Entering
<1>5. ASSUME NEW h \in Handlers, NEW r, handler[h].pc # "enter", r.pc # "enter",
             handler' = [handler EXCEPT ![h] = r]
      PROVE  \A n \in Nodes : Entering(n)' <=> Entering(n)
  BY <1>0, <1>5 DEF TypeOK, Entering
<1>6. ASSUME NEW h \in Handlers, NEW n \in Nodes, HandlerTakes(h, n) PROVE Maps'
  <2>1. \A m \in Nodes : Entering(m)' <=> Entering(m)
    BY <1>5, <1>6 DEF HandlerTakes
  <2> QED BY <1>2, <1>6, <2>1 DEF HandlerTakes
<1>7. ASSUME NEW h \in Handlers, HandlerExits(h) PROVE Maps'
  <2>1. \A m \in Nodes : Entering(m)' <=> Entering(m)
    BY <1>0, <1>7 DEF HandlerExits, Entering, TypeOK, HandlerType, Exited
  <2> QED BY <1>2, <1>7, <2>1 DEF HandlerExits
<1>8. ASSUME NEW h \in Handlers, Beat(h) PROVE Maps'
  <2>1. \A m \in Nodes : Entering(m)' <=> Entering(m)
    BY <1>5, <1>8 DEF Beat, Idle
  <2>2. known[handler[h].node] \in Children
    BY <1>0, <1>8 DEF Beat, TypeOK, IInv, BeatsCounted, Children
  <2>3. /\ Len(child') = Len(child)
        /\ \A o \in Children : /\ child'[o].q.closed = child[o].q.closed
                               /\ child[o].pc = "new" => child'[o].pc = "new"
    BY <1>0, <1>8, <2>2, WakeEffect, UnpausedEffect DEF Beat
  <2> QED BY <1>2, <1>8, <2>1, <2>3 DEF Beat
<1>9. ASSUME NEW h \in Handlers, Discover(h) \/ Enter(h) PROVE Maps'
  BY <1>9, DiscoverMaps, EnterMaps
<1>10. ASSUME NEW j \in Reapers, Reap(j) PROVE Maps'
  <2>1. PICK stale \in SUBSET {n \in Nodes : known[n] # 0} :
          reaper' = [reaper EXCEPT ![j] = [pc |-> "remove", todo |-> stale, node |-> None]]
    BY <1>10 DEF Reap
  <2>2. ReapsKnown'
    BY <1>0, <1>10, <2>1 DEF Reap, ReapsKnown, TypeOK, Exited
  <2>3. \A n \in Nodes : (Entering(n)' <=> Entering(n)) /\ (Leaving(n)' <=> Leaving(n))
    BY <1>0, <1>10, <2>1 DEF Reap, Entering, Leaving, TypeOK
  <2> QED BY <1>1, <1>10, <2>2, <2>3 DEF Reap, Killed
<1>11. ASSUME NEW j \in Reapers, ReaperExits(j) PROVE Maps'
  <2>1. ReapsKnown'
    BY <1>0, <1>11 DEF ReaperExits, ReapsKnown, TypeOK, ReaperType, Exited
  <2>2. \A n \in Nodes : (Entering(n)' <=> Entering(n)) /\ (Leaving(n)' <=> Leaving(n))
    BY <1>0, <1>11 DEF ReaperExits, Entering, Leaving, TypeOK, ReaperType, Exited
  <2> QED BY <1>1, <1>11, <2>1, <2>2 DEF ReaperExits, Killed
<1>12. ASSUME NEW j \in Reapers, ReapStop(j) \/ \E n \in Nodes : ReapRemove(j, n)
       PROVE  Maps'
  BY <1>12, ReapStopMaps, ReapRemoveMaps
<1>13. ASSUME NEW n \in Nodes, StopNode(n) PROVE Maps'
  BY <1>13, StopNodeMaps
<1>14. ASSUME NEW n \in Nodes, StopChild(n) PROVE Maps'
  <2>1. UNCHANGED <<known, router, reaper, handler>> /\ (Killed => Killed')
    BY <1>14 DEF StopChild, Killed, IInv, BeatsCounted
  <2>2. ReapsKnown' /\ \A m \in Nodes : (Entering(m)' <=> Entering(m)) /\ (Leaving(m)' <=> Leaving(m))
    BY <1>0, <2>1 DEF ReapsKnown, Entering, Leaving
  <2>3. /\ Len(child') = Len(child)
        /\ \A o \in Children : /\ child'[o].q.closed = child[o].q.closed
                               /\ child[o].pc = "new" => child'[o].pc = "new"
    <3>1. CASE known[n] = 0
      BY <1>14, <3>1 DEF StopChild
    <3>2. CASE known[n] # 0
      <4>1. known[n] \in Children /\ child' = [child EXCEPT ![known[n]] = Unpaused(@)]
        BY <1>0, <1>14, <3>2 DEF StopChild, TypeOK, Children
      <4> QED BY <1>0, <4>1, WakeEffect, UnpausedEffect
    <3> QED BY <3>1, <3>2
  <2> QED BY <1>0, <2>1, <2>2, <2>3, MapsStay
<1>15. ASSUME StopBegins \/ StopChildren \/ StopEnds PROVE Maps'
  <2>1. UNCHANGED <<known, router, reaper, handler, child>> /\ Killed'
    BY <1>15 DEF StopBegins, StopChildren, StopEnds, Killed, IInv, BeatsCounted
  <2>2. ReapsKnown' /\ \A m \in Nodes : (Entering(m)' <=> Entering(m)) /\ (Leaving(m)' <=> Leaving(m))
    BY <1>0, <2>1 DEF ReapsKnown, Entering, Leaving
  <2> QED BY <1>1, <2>1, <2>2
<1>16. ASSUME UNCHANGED vars PROVE Maps'
  BY <1>16 DEF vars, IInv, EntersNewest, ReapsKnown, OneChildEach, InStep, Entering,
               Leaving, Killed, Children
<1> QED
  BY <1>3, <1>4, <1>6, <1>7, <1>8, <1>9, <1>10, <1>11, <1>12, <1>13, <1>14, <1>15, <1>16
  DEF Next, Handle, Clean, GoesOn

-----------------------------------------------------------------------------
(* The workers.                                                              *)

\* A step after which whoever waits has waited, for the same reason, and whoever
\* was to be woken is to be.
LEMMA WaitersStay ==
  ASSUME NoLostWakeUp,
         \A o \in Children' : child'[o].pc = "wait" =>
           /\ o \in Children /\ child[o].pc = "wait"
           /\ child'[o].paused = child[o].paused
           /\ child'[o].q.closed => child[o].q.closed \/ WillBeWoken(o)'
           /\ WillBeWoken(o) => WillBeWoken(o)'
  PROVE  NoLostWakeUp'
BY DEF NoLostWakeUp

\* A child that is woken does not wait.
LEMMA WakesOne ==
  ASSUME TypeOK, NEW o \in Children, child' = [child EXCEPT ![o] = Unpaused(@)]
  PROVE  /\ Children' = Children
         /\ \A p \in Children : child'[p].pc = "wait" => child'[p] = child[p] /\ p # o
<1>1. Unpaused(child[o]).pc # "wait"
  BY UnpausedEffect DEF TypeOK, Children
<1> QED BY <1>1, WakeEffect

LEMMA WakeStep == IInv /\ [Next]_vars => NoLostWakeUp'
<1> SUFFICES ASSUME IInv, [Next]_vars PROVE NoLostWakeUp'
  OBVIOUS
<1>0. /\ TypeOK /\ NoLostWakeUp /\ Len(child) \in Nat
      /\ child \in Seq(ChildType) /\ \A o \in Children : child[o] \in ChildType
      /\ \A o \in Children : o # 0
      /\ known \in [Nodes -> 0 .. Len(child)] /\ reaper \in [Reapers -> ReaperType]
      /\ \A n \in Nodes : known[n] # 0 => known[n] \in Children
  BY DEF IInv, TypeOK, Children
\* Those who wake are the same, and the children change.
<1>1. ASSUME UNCHANGED <<known, stop, reaper>>, Len(child') = Len(child),
             \A o \in Children : child'[o].pc = "wait" =>
               \/ /\ child[o].pc = "wait" /\ child'[o].paused = child[o].paused
                  /\ child'[o].q.closed = child[o].q.closed
               \/ child'[o].paused /\ ~child'[o].q.closed
      PROVE  NoLostWakeUp'
  BY <1>0, <1>1 DEF NoLostWakeUp, WillBeWoken, Children
<1>2. ASSUME NEW o \in Children, ChildWorks(o) PROVE NoLostWakeUp'
  <2>1. PICK c \in ChildType : /\ Becomes(o, c)
                               /\ c.pc = "wait" => c.paused /\ ~c.q.closed
    BY <1>0, <1>2, WorkerEffect
  <2>2. /\ Len(child') = Len(child) /\ child'[o] = c
        /\ \A p \in Children : p # o => child'[p] = child[p]
    BY <1>0, <2>1, ChildChange DEF Becomes
  <2> QED BY <1>1, <2>1, <2>2 DEF Becomes
<1>3. ASSUME NEW m \in Msgs, RouteMessage(m) PROVE NoLostWakeUp'
  <2>1. /\ Len(child') = Len(child)
        /\ \A o \in Children :
             \E q \in QueueType(Msgs) : /\ child'[o] = [child[o] EXCEPT !.q = q]
                                        /\ q.closed = child[o].q.closed
    BY <1>0, <1>3, RouteEffect
  <2>2. \A o \in Children : /\ child'[o].pc = child[o].pc
                            /\ child'[o].paused = child[o].paused
                            /\ child'[o].q.closed = child[o].q.closed
    BY <1>0, <2>1 DEF ChildType
  <2> QED BY <1>1, <1>3, <2>1, <2>2 DEF RouteMessage
<1>4. CASE UNCHANGED <<child, known, stop, reaper>>
  BY <1>0, <1>4 DEF NoLostWakeUp, WillBeWoken, Children
<1>5. ASSUME NEW h \in Handlers, NEW n \in Nodes, HandlerTakes(h, n) PROVE NoLostWakeUp'
  BY <1>4, <1>5 DEF HandlerTakes
<1>6. ASSUME NEW h \in Handlers, HandlerExits(h) PROVE NoLostWakeUp'
  BY <1>4, <1>6 DEF HandlerExits
<1>7. ASSUME NEW h \in Handlers, Beat(h) PROVE NoLostWakeUp'
  <2>1. known[handler[h].node] \in Children
    BY <1>0, <1>7 DEF Beat, IInv, BeatsCounted
  <2>2. /\ Len(child') = Len(child)
        /\ \A o \in Children : child'[o].pc = "wait" => child'[o] = child[o]
    BY <1>0, <1>7, <2>1, WakeEffect, UnpausedEffect DEF Beat
  <2> QED BY <1>1, <1>7, <2>2 DEF Beat
<1>8. ASSUME NEW h \in Handlers, Discover(h) PROVE NoLostWakeUp'
  <2>1. /\ Len(child') = Len(child) + 1 /\ child'[Len(child')] = NewChild
        /\ \A o \in Children : child'[o] = child[o]
    BY <1>0, <1>8, ChildMade DEF Discover
  <2>2. \A o \in Children' : child'[o].pc = "wait" => o \in Children /\ child'[o] = child[o]
    <3>1. Children' = Children \cup {Len(child')} /\ NewChild.pc # "wait"
      BY <1>0, <2>1 DEF Children, NewChild
    <3> QED BY <2>1, <3>1
  <2>3. \A o \in Children : WillBeWoken(o) => WillBeWoken(o)'
    BY <1>8 DEF Discover, WillBeWoken
  <2> QED BY <1>0, <2>2, <2>3, WaitersStay
<1>9. ASSUME NEW h \in Handlers, Enter(h) PROVE NoLostWakeUp'
  <2>1. /\ handler[h].node \in Nodes /\ known[handler[h].node] = 0 /\ Len(child) \in Children
    BY <1>0, <1>9 DEF Enter, IInv, BeatsCounted, EntersNewest, Entering, Children
  <2>2. /\ Len(child') = Len(child) /\ Children' = Children
        /\ \A o \in Children : child'[o].pc = "wait" => child'[o] = child[o]
    <3> DEFINE c == [child[Len(child)] EXCEPT !.pc = "check"]
    <3>1. c \in ChildType /\ c.pc = "check" /\ child' = [child EXCEPT ![Len(child)] = c]
      BY <1>0, <1>9, <2>1 DEF Enter, ChildType
    <3> HIDE DEF c
    <3> QED BY ZenonT(40), <1>0, <2>1, <3>1, ChildChange
  <2>3. \A o \in Children : WillBeWoken(o) => WillBeWoken(o)'
    BY <1>0, <1>9, <2>1 DEF Enter, WillBeWoken
  <2> QED BY <1>0, <2>2, <2>3, WaitersStay
<1>10. ASSUME NEW j \in Reapers, Reap(j) PROVE NoLostWakeUp'
  <2>1. UNCHANGED <<child, known, stop>> /\ reaper[j].todo = {}
    BY <1>10 DEF Reap, IInv, ReapsKnown
  <2>2. \A i \in Reapers : i # j => reaper'[i] = reaper[i]
    BY <1>0, <1>10 DEF Reap
  <2> QED BY <1>0, <2>1, <2>2 DEF NoLostWakeUp, WillBeWoken, Children
<1>11. ASSUME NEW j \in Reapers, ReaperExits(j) PROVE NoLostWakeUp'
  <2>1. UNCHANGED <<child, known, stop>> /\ \A i \in Reapers : reaper'[i].todo = reaper[i].todo
    BY <1>0, <1>11 DEF ReaperExits, ReaperType
  <2> QED BY <1>0, <2>1 DEF NoLostWakeUp, WillBeWoken, Children
<1>12. ASSUME NEW j \in Reapers, ReapStop(j) PROVE NoLostWakeUp'
  <2> DEFINE n == reaper[j].node
  <2>1. /\ n \in Nodes /\ known[n] \in Children /\ known' = [known EXCEPT ![n] = 0]
        /\ child' = [child EXCEPT ![known[n]] = Unpaused(@)] /\ stop' = stop
    BY <1>0, <1>12 DEF ReapStop, IInv, ReapsKnown, ReaperType
  <2>2. /\ Children' = Children
        /\ \A o \in Children : child'[o].pc = "wait" => child'[o] = child[o] /\ o # known[n]
    BY <1>0, <2>1, WakesOne
  <2>3. \A i \in Reapers : reaper[i].todo \ {n} \subseteq reaper'[i].todo
    BY <1>0, <1>12 DEF ReapStop, NoReap
  <2>4. \A o \in Children : o # known[n] /\ WillBeWoken(o) => WillBeWoken(o)'
    <3> SUFFICES ASSUME NEW o \in Children, o # known[n], WillBeWoken(o) PROVE WillBeWoken(o)'
      OBVIOUS
    <3>1. PICK m \in Nodes :
            /\ known[m] = o
            /\ \/ stop.pc = "router" \/ (stop.pc = "children" /\ m \in stop.todo)
               \/ \E i \in Reapers : m \in reaper[i].todo
      BY DEF WillBeWoken
    <3>2. m # n /\ known'[m] = o
      BY <1>0, <2>1, <3>1
    <3> QED BY <2>1, <2>3, <3>1, <3>2 DEF WillBeWoken
  <2> QED BY <1>0, <2>2, <2>4, WaitersStay
<1>13. ASSUME NEW j \in Reapers, NEW n \in Nodes, ReapRemove(j, n) PROVE NoLostWakeUp'
  <2>1. /\ Children' = Children /\ UNCHANGED <<known, stop>>
        /\ \A i \in Reapers : reaper'[i].todo = reaper[i].todo
        /\ n \in reaper[j].todo
        /\ \A o \in Children :
             child'[o] = IF o = router.nodes[n] THEN ShutDown(child[o]) ELSE child[o]
    BY <1>0, <1>13, RemoveNodeEffect DEF ReapRemove, ReaperType
  <2>2. \A o \in Children : WillBeWoken(o) => WillBeWoken(o)'
    BY <2>1 DEF WillBeWoken
  <2>3. ~Entering(n)
    BY <1>13, OneHolds DEF ReapRemove, IInv, LockHeld
  <2>4. ASSUME NEW o \in Children, o = router.nodes[n] PROVE WillBeWoken(o)'
    <3>1. known[n] = o
      BY <1>0, <2>3, <2>4 DEF IInv, OneChildEach
    <3> QED BY <2>1, <3>1 DEF WillBeWoken
  <2>5. \A o \in Children : child'[o].pc = child[o].pc /\ child'[o].paused = child[o].paused
    BY <1>0, <2>1, ShutDownEffect
  <2> QED BY <1>0, <2>1, <2>2, <2>4, <2>5, WaitersStay
<1>14. ASSUME NEW n \in Nodes, StopNode(n) PROVE NoLostWakeUp'
  <2>1. /\ Children' = Children /\ UNCHANGED <<known, reaper>>
        /\ stop.pc = "router" /\ stop'.pc = "router"
        /\ \A o \in Children :
             child'[o] = IF o = router.nodes[n] THEN ShutDown(child[o]) ELSE child[o]
    BY <1>0, <1>14, RemoveNodeEffect DEF StopNode, IInv, BeatsCounted
  <2>2. \A o \in Children : WillBeWoken(o) => WillBeWoken(o)'
    BY <2>1 DEF WillBeWoken
  <2>3. \A o \in Children : child'[o].pc = child[o].pc /\ child'[o].paused = child[o].paused
    BY <1>0, <2>1, ShutDownEffect
  <2>4. ASSUME NEW o \in Children, o = router.nodes[n], child[o].pc = "wait"
        PROVE  WillBeWoken(o)'
    <3>1. ~(Entering(n) /\ o = Len(child))
      BY <2>4 DEF IInv, EntersNewest
    <3>2. known[n] = o
      BY <1>0, <2>4, <3>1 DEF IInv, OneChildEach
    <3> QED BY <2>1, <3>2 DEF WillBeWoken
  <2> QED BY <1>0, <2>1, <2>2, <2>3, <2>4, WaitersStay
<1>15. ASSUME NEW n \in Nodes, StopChild(n) PROVE NoLostWakeUp'
  <2>1. /\ stop.pc = "children" /\ stop'.pc = "children" /\ stop'.todo = stop.todo \ {n}
        /\ UNCHANGED <<known, reaper>>
    BY <1>15 DEF StopChild, IInv, BeatsCounted
  <2>2. /\ Children' = Children
        /\ \A o \in Children : child'[o].pc = "wait" => child'[o] = child[o] /\ o # known[n]
    <3>1. CASE known[n] = 0
      BY <1>0, <1>15, <3>1 DEF StopChild, Children
    <3>2. CASE known[n] # 0
      BY <1>0, <1>15, <3>2, WakesOne DEF StopChild
    <3> QED BY <3>1, <3>2
  <2>3. \A o \in Children : o # known[n] /\ WillBeWoken(o) => WillBeWoken(o)'
    BY <2>1 DEF WillBeWoken
  <2> QED BY <1>0, <2>2, <2>3, WaitersStay
<1>16. ASSUME StopBegins \/ StopChildren \/ StopEnds PROVE NoLostWakeUp'
  <2>1. UNCHANGED <<child, known, reaper>>
    BY <1>16 DEF StopBegins, StopChildren, StopEnds
  <2>2. \A o \in Children : WillBeWoken(o) => WillBeWoken(o)'
    <3>1. CASE StopBegins
      BY <3>1 DEF StopBegins, WillBeWoken
    <3>2. CASE StopChildren
      BY <1>0, <3>2 DEF StopChildren, WillBeWoken
    <3>3. CASE StopEnds
      BY <3>3 DEF StopEnds, WillBeWoken
    <3> QED BY <1>16, <3>1, <3>2, <3>3
  <2> QED BY <1>0, <2>1, <2>2 DEF NoLostWakeUp, Children
<1>17. ASSUME UNCHANGED vars PROVE NoLostWakeUp'
  BY <1>4, <1>17 DEF vars
<1> QED
  BY <1>2, <1>3, <1>5, <1>6, <1>7, <1>8, <1>9, <1>10, <1>11, <1>12, <1>13, <1>14,
     <1>15, <1>16, <1>17
  DEF Next, Handle, Clean, GoesOn

LEMMA LastLookStep == IInv /\ [Next]_vars => LastLook'
<1> SUFFICES ASSUME IInv, [Next]_vars PROVE LastLook'
  OBVIOUS
<1>0. /\ TypeOK /\ LastLook /\ Len(child) \in Nat
      /\ child \in Seq(ChildType) /\ \A o \in Children : child[o] \in ChildType
      /\ \A n \in Nodes : known[n] # 0 => known[n] \in Children
  BY DEF IInv, TypeOK, Children
<1>1. CASE UNCHANGED child
  BY <1>0, <1>1 DEF LastLook, Children
<1>2. ASSUME NEW o \in Children, child' = [child EXCEPT ![o] = Unpaused(@)] PROVE LastLook'
  <2>1. LastLookOf(Unpaused(child[o]))
    BY <1>0, UnpausedEffect DEF LastLook
  <2> QED BY ZenonT(40), <1>0, <1>2, <2>1, WakeEffect DEF LastLook
<1>3. ASSUME NEW n \in Nodes, RemoveNode(n) PROVE LastLook'
  <2>1. \A o \in Children : LastLookOf(ShutDown(child[o]))
    BY <1>0, ShutDownEffect DEF LastLook
  <2> QED BY <1>0, <1>3, <2>1, RemoveNodeEffect DEF LastLook
<1>4. ASSUME NEW o \in Children, ChildWorks(o) PROVE LastLook'
  <2>1. PICK c \in ChildType : Becomes(o, c) /\ (LastLookOf(child[o]) => LastLookOf(c))
    BY <1>0, <1>4, WorkerEffect
  <2> QED BY <1>0, <2>1, ChildChange DEF Becomes, LastLook
<1>5. ASSUME NEW m \in Msgs, RouteMessage(m) PROVE LastLook'
  <2>1. /\ Len(child') = Len(child)
        /\ \A o \in Children :
             \E q \in QueueType(Msgs) : /\ child'[o] = [child[o] EXCEPT !.q = q]
                                        /\ q.closed = child[o].q.closed
    BY <1>0, <1>5, RouteEffect
  <2>2. \A o \in Children : LastLookOf(child'[o])
    BY <1>0, <2>1 DEF ChildType, LastLook, LastLookOf
  <2> QED BY <2>1, <2>2 DEF LastLook, Children
<1>6. ASSUME NEW h \in Handlers, Beat(h) PROVE LastLook'
  <2>1. known[handler[h].node] \in Children
    BY <1>0, <1>6 DEF Beat, IInv, BeatsCounted
  <2> QED BY <1>2, <1>6, <2>1 DEF Beat
<1>7. ASSUME NEW h \in Handlers, Discover(h) PROVE LastLook'
  <2>1. LastLookOf(NewChild)
    BY DEF LastLookOf, NewChild
  <2>2. /\ Len(child') = Len(child) + 1 /\ child'[Len(child')] = NewChild
        /\ \A p \in Children : child'[p] = child[p]
    BY <1>0, <1>7, ChildMade DEF Discover
  <2>3. Children' = Children \cup {Len(child')}
    BY <1>0, <2>2 DEF Children
  <2> QED BY <1>0, <2>1, <2>2, <2>3 DEF LastLook
<1>8. ASSUME NEW h \in Handlers, Enter(h) PROVE LastLook'
  <2> DEFINE c == [child[Len(child)] EXCEPT !.pc = "check"]
  <2>1. Len(child) \in Children /\ child[Len(child)] \in ChildType
    BY <1>0, <1>8 DEF Enter, IInv, BeatsCounted, EntersNewest, Entering, Children
  <2>2. c \in ChildType /\ LastLookOf(c)
    BY <1>0, <2>1 DEF ChildType, LastLook, LastLookOf
  <2>3. child' = [child EXCEPT ![Len(child)] = c]
    BY <1>8 DEF Enter
  <2> HIDE DEF c
  <2> QED BY ZenonT(40), <1>0, <2>1, <2>2, <2>3, ChildChange DEF LastLook
<1>9. ASSUME NEW j \in Reapers, ReapStop(j) PROVE LastLook'
  <2>1. known[reaper[j].node] \in Children
    BY <1>0, <1>9 DEF ReapStop, IInv, TypeOK, ReapsKnown, ReaperType
  <2> QED BY <1>2, <1>9, <2>1 DEF ReapStop
<1>10. ASSUME NEW j \in Reapers, NEW n \in Nodes, ReapRemove(j, n) PROVE LastLook'
  BY <1>3, <1>10 DEF ReapRemove
<1>11. ASSUME NEW n \in Nodes, StopNode(n) PROVE LastLook'
  BY <1>3, <1>11 DEF StopNode
<1>12. ASSUME NEW n \in Nodes, StopChild(n) PROVE LastLook'
  BY <1>0, <1>1, <1>2, <1>12 DEF StopChild
<1>13. ASSUME NEW h \in Handlers, HandlerExits(h) \/ \E n \in Nodes : HandlerTakes(h, n)
       PROVE  LastLook'
  BY <1>1, <1>13 DEF HandlerExits, HandlerTakes
<1>14. ASSUME NEW j \in Reapers, Reap(j) \/ ReaperExits(j) PROVE LastLook'
  BY <1>1, <1>14 DEF Reap, ReaperExits
<1>15. ASSUME StopBegins \/ StopChildren \/ StopEnds \/ UNCHANGED vars PROVE LastLook'
  BY <1>1, <1>15 DEF StopBegins, StopChildren, StopEnds, vars
<1> QED
  BY <1>4, <1>5, <1>6, <1>7, <1>8, <1>9, <1>10, <1>11, <1>12, <1>13, <1>14, <1>15
  DEF Next, Handle, Clean, GoesOn

-----------------------------------------------------------------------------
(* The theorems.                                                             *)

\* The invariant is inductive.
THEOREM Inductive == Spec => []IInv
<1>1. Init => IInv
  <2> SUFFICES ASSUME Init PROVE IInv
    OBVIOUS
  <2>1. /\ child = <<>> /\ Len(child) = 0 /\ Children = {} /\ Beating = {}
        /\ \A h \in Handlers : handler[h].pc = "idle"
        /\ \A j \in Reapers : reaper[j].pc = "idle" /\ reaper[j].todo = {}
    BY DEF Init, Children, Beating, Idle, NoReap
  <2>2. IsFiniteSet(Beating) /\ Cardinality(Beating) = 0
    BY <2>1, FS_EmptySet
  <2>3. router \in RouterType(0 .. 0) /\ child \in Seq(ChildType)
    BY <2>1 DEF Init, NewRouter, RouterType
  <2>4. TypeOK
    BY <2>1, <2>3, RadioAssumption
    DEF Init, TypeOK, HandlerType, ReaperType, Idle, NoReap
  <2>5. BeatsCounted
    BY <2>1, <2>2 DEF Init, BeatsCounted
  <2>6. LockHeld
    BY <2>1, RadioAssumption DEF Init, LockHeld
  <2>7. EntersNewest /\ ReapsKnown /\ OneChildEach /\ NoLostWakeUp /\ LastLook
    BY <2>1 DEF Init, EntersNewest, ReapsKnown, OneChildEach, NoLostWakeUp, LastLook,
                Entering, NewRouter, Exited
  <2>8. InStep
    BY <2>1 DEF Init, InStep, Entering, Leaving, NewRouter
  <2> QED BY <2>4, <2>5, <2>6, <2>7, <2>8 DEF IInv
<1>2. IInv /\ [Next]_vars => IInv'
  BY TypeStep, LockStep, MapsStep, WakeStep, LastLookStep DEF IInv
<1> QED BY <1>1, <1>2, PTL DEF Spec

\* In every reachable state, for any number of nodes, handlers and reapers: the three
\* maps of master and router agree whenever the lock is free and Stop has not begun
\* (heartbeatHandler, cleanupNode).
THEOREM MapsAgree == Spec => []NodesInv
<1>1. IInv => NodesInv
  <2> SUFFICES ASSUME IInv, nodeMU = None, ~Killed
               PROVE  NodesAgree
    BY DEF IInv, NodesInv, NodesAgree
  <2>1. /\ \A n \in Nodes : router.nodes[n] = known[n]
        /\ \A t \in Types, n \in Nodes :
             router.routes[t][n] = IF t \in Wants[n] /\ known[n] # 0
                                   THEN router.nodes[n] ELSE 0
        /\ \A o \in Children : child[o].q.closed <=> \A n \in Nodes : router.nodes[n] # o
    BY OneHolds DEF IInv, InStep
  <2>2. router.nodes = known
    BY <2>1 DEF IInv, TypeOK, RouterType
  <2> QED BY <2>1, <2>2 DEF NodesAgree
<1> QED BY <1>1, Inductive, PTL

\* In every reachable state: no interleaving of a failed send, a heartbeat, the
\* removal of the node and Stop loses the wake-up of a worker whose queue is shut
\* down, and none sends more than one message after that (childNode.worker).
THEOREM WorkersEnd == Spec => []WorkersInv
<1>1. IInv => WorkersInv
  BY DEF IInv, WorkersInv, LastLook, LastLookOf, AtMostOneAfterRemoval
<1> QED BY <1>1, Inductive, PTL

-----------------------------------------------------------------------------
(* The radio.                                                                *)

\* The frames that have been sent on frameChan, and those a routine has decoded.
Pushed == (heard - Len(buf)) \div 2
Decoded == Pushed - Len(frameChan)

\* The buffer begins where a frame does and goes on to the byte heard last; whatever
\* was in it before a read is no whole frame; frameChan holds the last frames sent.
BytesKept ==
  /\ Len(buf) <= heard /\ heard - Len(buf) = 2 * Pushed /\ prevEnd <= 1
  /\ \A k \in DOMAIN buf : buf[k] = Byte(2 * Pushed + k)
  /\ Len(frameChan) <= Pushed
  /\ \A k \in DOMAIN frameChan : frameChan[k] = <<Decoded + k, 0>>

\* A routine has a message only between two of its steps; an envelope that messages
\* are still taken for has room.
HandsKept ==
  /\ load \in Loads
  /\ \A w \in Workers(load.role) : /\ proc[w].pc # "send" => proc[w].msg = 0
                                   /\ hand[w].pc # "add" => hand[w].msg = 0
                                   /\ sender[w].pc # "send" => sender[w].msg = 0
  /\ up \in [pc : {"top", "get", "send", "exited"}, env : Seq(1 .. load.frames)]
  /\ up.pc = "top" => up.env = <<>>
  /\ up.pc = "get" => Len(up.env) < maxMessagesPerEnv
  /\ sndQ.processing = {}

\* The empty message, 0, has no place in the order.
InOrder(s) == \A i, j \in DOMAIN s : i < j /\ s[i] # 0 /\ s[j] # 0 => s[i] < s[j]
Before(S, T) == \A m \in S, n \in T : m # 0 /\ n # 0 => m < n

\* The messages of a child that have come as far as the send queue.
Queued == Elems(delivered) \cup Elems(up.env) \cup Elems(sndQ.items)

\* What is further on its way to the daemon came first.
UpKept ==
  load.role = "child" =>
    /\ InOrder(sndQ.items) /\ InOrder(up.env) /\ InOrder(delivered)
    /\ Before(Elems(delivered), Elems(up.env))
    /\ Before(Elems(delivered) \cup Elems(up.env), Elems(sndQ.items))
    /\ Before(Queued, {hand[1].msg}) /\ Before(Queued \cup {hand[1].msg}, {proc[1].msg})
    /\ \A m \in Queued \cup {hand[1].msg, proc[1].msg} : m <= Decoded

\* So it is on the way to the radio; and a message that waits a second time is the
\* empty one, for the queue takes each other one once.
OutKept ==
  IF load.role = "master" THEN written = <<>>
  ELSE /\ InOrder(rcvQ.items) /\ InOrder(written)
       /\ Before(Elems(written), Elems(rcvQ.items))
       /\ Before(Elems(written), {sender[1].msg})
       /\ Before({sender[1].msg}, Elems(rcvQ.items))
       /\ \A m \in Elems(written) \cup Elems(rcvQ.items) \cup {sender[1].msg} : m <= came
       /\ rcvQ.processing = IF sender[1].pc = "send" THEN {sender[1].msg} ELSE {}
       /\ \A m \in rcvQ.dirty : m # 0 => m \in Elems(rcvQ.items)

RadioIInv == RadioTypeOK /\ BytesKept /\ HandsKept /\ UpKept /\ OutKept

-----------------------------------------------------------------------------
(* Sequences in order.                                                       *)

LEMMA InOrderAppend ==
  ASSUME NEW s \in Seq(Nat), NEW m \in Nat, InOrder(s), Before(Elems(s), {m})
  PROVE  InOrder(Append(s, m))
<1>1. /\ Append(s, m) \in Seq(Nat) /\ DOMAIN Append(s, m) = 1 .. Len(s) + 1
      /\ \A k \in 1 .. Len(s) : Append(s, m)[k] = s[k]
      /\ Append(s, m)[Len(s) + 1] = m /\ DOMAIN s = 1 .. Len(s) /\ Len(s) \in Nat
  OBVIOUS
<1>2. \A k \in 1 .. Len(s) : s[k] \in Elems(s)
  BY <1>1 DEF Elems
<1>3. SUFFICES ASSUME NEW i \in 1 .. Len(s) + 1, NEW j \in 1 .. Len(s) + 1, i < j,
                      Append(s, m)[i] # 0, Append(s, m)[j] # 0
               PROVE  Append(s, m)[i] < Append(s, m)[j]
  BY <1>1 DEF InOrder
<1>4. i \in 1 .. Len(s)
  BY <1>1, <1>3
<1>5. CASE j = Len(s) + 1
  BY <1>1, <1>2, <1>3, <1>4, <1>5 DEF Before
<1>6. CASE j \in 1 .. Len(s)
  BY <1>1, <1>3, <1>4, <1>6 DEF InOrder
<1> QED BY <1>1, <1>5, <1>6

LEMMA InOrderTail ==
  ASSUME NEW s \in Seq(Nat), s # <<>>, InOrder(s)
  PROVE  InOrder(Tail(s)) /\ Before({Head(s)}, Elems(Tail(s)))
<1>1. /\ Tail(s) \in Seq(Nat) /\ DOMAIN Tail(s) = 1 .. Len(s) - 1 /\ Head(s) = s[1]
      /\ \A k \in 1 .. Len(s) - 1 : Tail(s)[k] = s[k + 1]
      /\ DOMAIN s = 1 .. Len(s) /\ Len(s) \in Nat \ {0}
  OBVIOUS
<1>2. \A k \in 1 .. Len(s) - 1 : k + 1 \in DOMAIN s /\ 1 \in DOMAIN s /\ 1 < k + 1
  BY <1>1
<1>3. InOrder(Tail(s))
  BY SMTT(30), <1>1, <1>2 DEF InOrder
<1>4. Before({Head(s)}, Elems(Tail(s)))
  BY <1>1, <1>2 DEF InOrder, Before, Elems
<1> QED BY <1>3, <1>4

LEMMA InOrderCat ==
  ASSUME NEW s \in Seq(Nat), NEW t \in Seq(Nat), InOrder(s), InOrder(t),
         Before(Elems(s), Elems(t))
  PROVE  InOrder(s \o t) /\ Elems(s \o t) = Elems(s) \cup Elems(t)
<1> DEFINE u == s \o t
<1>1. /\ u \in Seq(Nat) /\ DOMAIN u = 1 .. Len(s) + Len(t)
      /\ \A k \in 1 .. Len(s) : u[k] = s[k]
      /\ \A k \in Len(s) + 1 .. Len(s) + Len(t) : u[k] = t[k - Len(s)]
      /\ DOMAIN s = 1 .. Len(s) /\ Len(s) \in Nat /\ DOMAIN t = 1 .. Len(t) /\ Len(t) \in Nat
  OBVIOUS
<1>2. \A k \in 1 .. Len(t) : k + Len(s) \in DOMAIN u /\ u[k + Len(s)] = t[k]
  BY <1>1
<1>3. /\ \A k \in 1 .. Len(s) : s[k] \in Elems(s)
      /\ \A k \in 1 .. Len(t) : t[k] \in Elems(t)
  BY <1>1 DEF Elems
<1> HIDE DEF u
<1>4. Elems(u) = Elems(s) \cup Elems(t)
  <2>1. \A x \in Elems(u) : x \in Elems(s) \cup Elems(t)
    <3>1. SUFFICES ASSUME NEW k \in DOMAIN u PROVE u[k] \in Elems(s) \cup Elems(t)
      BY DEF Elems
    <3>2. CASE k \in 1 .. Len(s)
      BY <1>1, <1>3, <3>2
    <3>3. CASE k \in Len(s) + 1 .. Len(s) + Len(t)
      <4>1. k - Len(s) \in 1 .. Len(t) /\ u[k] = t[k - Len(s)]
        BY <1>1, <3>3
      <4> QED BY <1>3, <4>1
    <3> QED BY <1>1, <3>1, <3>2, <3>3
  <2>2. \A x \in Elems(s) : x \in Elems(u)
    <3>1. \A k \in 1 .. Len(s) : k \in DOMAIN u /\ s[k] = u[k]
      BY <1>1
    <3> QED BY <1>1, <3>1 DEF Elems
  <2>3. \A x \in Elems(t) : x \in Elems(u)
    <3>1. SUFFICES ASSUME NEW k \in DOMAIN t PROVE t[k] \in Elems(u)
      BY DEF Elems
    <3>2. k + Len(s) \in DOMAIN u /\ u[k + Len(s)] = t[k]
      BY <1>1, <1>2
    <3> QED BY <3>2 DEF Elems
  <2> QED BY <2>1, <2>2, <2>3
<1>5. InOrder(u)
  <2>1. SUFFICES ASSUME NEW i \in DOMAIN u, NEW j \in DOMAIN u, i < j, u[i] # 0, u[j] # 0
                 PROVE  u[i] < u[j]
    BY DEF InOrder
  <2>2. CASE j \in 1 .. Len(s)
    <3>1. i \in DOMAIN s /\ j \in DOMAIN s /\ u[i] = s[i] /\ u[j] = s[j]
      BY <1>1, <2>1, <2>2
    <3> QED BY <2>1, <3>1 DEF InOrder
  <2>3. CASE i \in 1 .. Len(s) /\ j \in Len(s) + 1 .. Len(s) + Len(t)
    <3>1. j - Len(s) \in 1 .. Len(t) /\ u[j] = t[j - Len(s)] /\ u[i] = s[i]
      BY SMTT(30), <1>1, <2>3
    <3>2. u[i] \in Elems(s) /\ u[j] \in Elems(t)
      BY <1>3, <2>3, <3>1
    <3> QED BY <2>1, <3>2 DEF Before
  <2>4. CASE i \in Len(s) + 1 .. Len(s) + Len(t) /\ j \in Len(s) + 1 .. Len(s) + Len(t)
    <3> DEFINE a == i - Len(s)
               b == j - Len(s)
    <3>1. a \in DOMAIN t /\ b \in DOMAIN t /\ a < b /\ u[i] = t[a] /\ u[j] = t[b]
      BY SMTT(30), <1>1, <2>1, <2>4
    <3> QED BY <2>1, <3>1 DEF InOrder
  <2> QED BY SMTT(30), <1>1, <2>1, <2>2, <2>3, <2>4
<1> QED BY <1>4, <1>5 DEF u

LEMMA EmptyInOrder == InOrder(<<>>) /\ Elems(<<>>) = {}
BY DEF InOrder, Elems

-----------------------------------------------------------------------------
(* Bytes.                                                                    *)

LEMMA ByteIs ==
  ASSUME NEW c \in Nat
  PROVE  /\ Byte(2 * c + 1) = c + 1 /\ Byte(2 * c + 2) = 0
         /\ (2 * c) \div 2 = c
BY DEF Byte

LEMMA ByteType ==
  ASSUME NEW k \in Nat
  PROVE  Byte(k) \in Nat
BY DEF Byte

-----------------------------------------------------------------------------
(* What a step leaves alone.                                                 *)

LEMMA RadioFacts ==
  ASSUME RadioTypeOK, load \in Loads
  PROVE  /\ load.role \in {"child", "master"} /\ load.frames \in Nat /\ load.msgs \in Nat
         /\ load.beats \in Nat /\ load.bad \subseteq Nat
         /\ Workers(load.role) \subseteq 1 .. 2 /\ 1 \in Workers(load.role)
         /\ load.role = "child" => Workers(load.role) = {1}
         /\ Len(buf) \in Nat /\ Len(frameChan) \in Nat /\ heard \in Nat /\ prevEnd \in Nat
         /\ sndQ.items \in Seq(0 .. load.frames) /\ rcvQ.items \in Seq(0 .. load.msgs)
<1>1. /\ load.role \in {"child", "master"} /\ load.frames \in Nat /\ load.msgs \in Nat
      /\ load.beats \in Nat /\ load.bad \subseteq Nat
  BY LoadsAssumption
<1>2. /\ Workers(load.role) \subseteq 1 .. 2 /\ 1 \in Workers(load.role)
      /\ load.role = "child" => Workers(load.role) = {1}
  BY <1>1 DEF Workers
<1>3. sndQ.items \in Seq(0 .. load.frames) /\ rcvQ.items \in Seq(0 .. load.msgs)
  BY DEF RadioTypeOK, QueueType
<1>4. Len(buf) \in Nat /\ Len(frameChan) \in Nat /\ heard \in Nat /\ prevEnd \in Nat
  BY <1>1 DEF RadioTypeOK
<1> QED BY <1>1, <1>2, <1>3, <1>4

LEMMA BytesSame ==
  ASSUME BytesKept, UNCHANGED <<heard, buf, prevEnd, frameChan>>
  PROVE  BytesKept' /\ Decoded' = Decoded
BY DEF BytesKept, Pushed, Decoded

LEMMA UpSame ==
  ASSUME UpKept, UNCHANGED <<load, proc, hand, sndQ, up, delivered>>, Decoded' = Decoded
  PROVE  UpKept'
BY DEF UpKept, Queued, InOrder, Before, Elems

LEMMA OutSame ==
  ASSUME OutKept, UNCHANGED <<load, came, rcvQ, sender, written>>
  PROVE  OutKept'
BY DEF OutKept, InOrder, Before, Elems

\* A step that changes only where Stop, the stream, the lock or the heartbeats are.
LEMMA AsideKeeps ==
  ASSUME RadioIInv, UNCHANGED <<load, heard, buf, prevEnd, frameChan, proc, upVars, came,
                                rcvQ, sender, written>>,
         stopping' \in {"no", "queues", "killed", "over", "crashed"}, stream' \in BOOLEAN,
         mu' \in {"free", "update", "receive"},
         beat' \in [pc : {"none", "wait", "send", "exited"}, version : 0 .. load.beats]
  PROVE  RadioIInv'
<1>1. BytesKept' /\ Decoded' = Decoded
  BY BytesSame DEF RadioIInv
<1>2. UpKept' /\ OutKept'
  BY <1>1, UpSame, OutSame DEF RadioIInv, upVars
<1>3. HandsKept'
  BY DEF RadioIInv, HandsKept, upVars
<1>4. RadioTypeOK'
  BY DEF RadioIInv, RadioTypeOK, upVars
<1> QED BY <1>1, <1>2, <1>3, <1>4 DEF RadioIInv

LEMMA AsideSteps ==
  ASSUME RadioIInv,
         \/ ReceiveStarts \/ ReceiveEnds \/ UpPanics \/ StreamBreaks \/ BeatTicks \/ BeatWrites
         \/ BeatExits \/ StopKills \/ MainReturns
         \/ \E w \in Workers(load.role) : DecodePanics(w) \/ SenderPanics(w)
  PROVE  RadioIInv'
<1>1. /\ stopping \in {"no", "queues", "killed", "over", "crashed"} /\ stream \in BOOLEAN
      /\ mu \in {"free", "update", "receive"}
      /\ beat \in [pc : {"none", "wait", "send", "exited"}, version : 0 .. load.beats]
      /\ load.beats \in Nat
  BY RadioFacts DEF RadioIInv, RadioTypeOK, HandsKept
<1>2. CASE ReceiveStarts \/ ReceiveEnds
  BY <1>1, <1>2, AsideKeeps DEF ReceiveStarts, ReceiveEnds, upVars, outVars
<1>3. CASE UpPanics \/ \E w \in Workers(load.role) : DecodePanics(w) \/ SenderPanics(w)
  BY <1>1, <1>3, AsideKeeps DEF UpPanics, DecodePanics, SenderPanics, rfVars, upVars, outVars
<1>4. CASE StreamBreaks \/ StopKills \/ MainReturns
  BY <1>1, <1>4, AsideKeeps DEF StreamBreaks, StopKills, MainReturns, rfVars, upVars, outVars
<1>5. CASE BeatTicks \/ BeatWrites \/ BeatExits
  <2>1. beat' \in [pc : {"none", "wait", "send", "exited"}, version : 0 .. load.beats]
    BY <1>1, <1>5 DEF BeatTicks, BeatWrites, BeatExits
  <2> QED BY <1>1, <1>5, <2>1, AsideKeeps
          DEF BeatTicks, BeatWrites, BeatExits, rfVars, upVars, outVars
<1> QED BY <1>2, <1>3, <1>4, <1>5

-----------------------------------------------------------------------------
(* The buffer.                                                               *)

\* What is not whole when a read begins is less than a frame.
LEMMA NothingWhole ==
  ASSUME BytesKept, RadioTypeOK, load \in Loads
  PROVE  /\ Pushed \in Nat /\ Decoded \in Nat
         /\ Ends # {} => Len(buf) >= 2 /\ 2 \in Ends /\ \A i \in Ends : 2 <= i
         /\ Ends = {} => Len(buf) <= 1
<1>1. Len(buf) \in Nat /\ heard \in Nat /\ prevEnd \in {0, 1} /\ Len(frameChan) \in Nat
  BY RadioFacts DEF BytesKept
<1>2. Pushed \in Int /\ heard - Len(buf) = 2 * Pushed /\ heard - Len(buf) >= 0
  BY <1>1 DEF BytesKept, Pushed
<1>3. Pushed \in Nat
  BY <1>1, <1>2
<1>4. Decoded \in Nat
  BY <1>1, <1>3 DEF BytesKept, Decoded
<1>5. /\ DOMAIN buf = 1 .. Len(buf)
      /\ Byte(2 * Pushed + 1) = Pushed + 1 /\ Byte(2 * Pushed + 2) = 0
  BY <1>3, ByteIs DEF RadioTypeOK
<1>6. /\ Len(buf) >= 1 => buf[1] = Pushed + 1
      /\ Len(buf) >= 2 => buf[2] = 0
  BY <1>1, <1>5 DEF BytesKept
<1>7. \A i \in Ends : i \in 1 .. Len(buf) /\ i # 1
  BY <1>1, <1>3, <1>6 DEF Ends
<1>8. Len(buf) >= 2 => 2 \in Ends
  BY <1>1, <1>6 DEF Ends
<1> QED BY <1>1, <1>3, <1>4, <1>7, <1>8

LEMMA ReadsKeeps ==
  ASSUME RadioIInv, Reads
  PROVE  RadioIInv'
<1>1. PICK n \in 1 .. ReadMax :
        /\ heard + n <= 2 * load.frames /\ heard' = heard + n
        /\ buf' = buf \o [k \in 1 .. n |-> Byte(heard + k)] /\ prevEnd' = Len(buf)
  BY DEF Reads
<1>2. /\ Len(buf) \in Nat /\ heard \in Nat /\ load.frames \in Nat /\ ReadMax \in Nat
      /\ buf \in Seq(Nat) /\ n \in Nat /\ n >= 1
  BY RadioFacts, LoadsAssumption DEF RadioIInv, HandsKept, RadioTypeOK
<1>3. Len(buf) <= 1 /\ Pushed \in Nat
  BY NothingWhole DEF RadioIInv, HandsKept, Reads
<1> DEFINE new == [k \in 1 .. n |-> Byte(heard + k)]
<1>4. /\ new \in Seq(Nat) /\ Len(new) = n /\ \A k \in 1 .. n : new[k] = Byte(heard + k)
  BY <1>2, ByteType, FunctionIsSeq
<1> HIDE DEF new
<1>5. /\ buf' \in Seq(Nat) /\ Len(buf') = Len(buf) + n
      /\ \A k \in 1 .. Len(buf) : buf'[k] = buf[k]
      /\ \A k \in Len(buf) + 1 .. Len(buf) + n : buf'[k] = new[k - Len(buf)]
  BY <1>1, <1>2, <1>4 DEF new
<1>6. Pushed' = Pushed /\ frameChan' = frameChan /\ Decoded' = Decoded
  <2>1. heard' - Len(buf') = heard - Len(buf)
    BY <1>1, <1>2, <1>5
  <2> QED BY <2>1 DEF Pushed, Decoded, Reads
<1>7. \A k \in DOMAIN buf' : buf'[k] = Byte(2 * Pushed + k)
  <2>1. SUFFICES ASSUME NEW k \in 1 .. Len(buf) + n PROVE buf'[k] = Byte(2 * Pushed + k)
    BY <1>5
  <2>2. CASE k \in 1 .. Len(buf)
    <3>1. k \in DOMAIN buf
      BY <1>2, <2>2
    <3> QED BY <1>5, <2>2, <3>1 DEF RadioIInv, BytesKept
  <2>3. CASE k \in Len(buf) + 1 .. Len(buf) + n
    <3>1. k - Len(buf) \in 1 .. n /\ heard + (k - Len(buf)) = 2 * Pushed + k
      BY <1>2, <1>3, <2>3 DEF RadioIInv, BytesKept
    <3> QED BY <1>4, <1>5, <2>3, <3>1
  <2> QED BY <1>2, <2>1, <2>2, <2>3
<1>8. BytesKept'
  <2>1. /\ Len(buf') <= heard' /\ heard' - Len(buf') = 2 * Pushed' /\ prevEnd' <= 1
        /\ Len(frameChan') <= Pushed'
    BY <1>1, <1>2, <1>3, <1>5, <1>6 DEF RadioIInv, BytesKept
  <2>2. \A k \in DOMAIN frameChan' : frameChan'[k] = <<Decoded' + k, 0>>
    BY <1>6 DEF RadioIInv, BytesKept
  <2> QED BY <1>6, <1>7, <2>1, <2>2 DEF BytesKept
<1>9. UpKept' /\ OutKept'
  BY <1>6, UpSame, OutSame DEF RadioIInv, Reads, upVars, outVars
<1>10. HandsKept'
  BY DEF RadioIInv, HandsKept, Reads, upVars, outVars
<1>11. RadioTypeOK'
  BY SMTT(30), <1>1, <1>2, <1>5 DEF RadioIInv, RadioTypeOK, Reads, upVars, outVars
<1> QED BY <1>8, <1>9, <1>10, <1>11 DEF RadioIInv

\* A frame goes to frameChan from its first byte to its mark.
LEMMA PushesKeeps ==
  ASSUME RadioIInv, Pushes
  PROVE  RadioIInv'
<1>1. /\ Len(buf) \in Nat /\ heard \in Nat /\ load.frames \in Nat /\ Len(frameChan) \in Nat
      /\ buf \in Seq(Nat) /\ frameChan \in Seq(Seq(Nat))
  BY RadioFacts DEF RadioIInv, HandsKept, RadioTypeOK
<1>2. /\ Len(buf) >= 2 /\ 2 \in Ends /\ \A i \in Ends : 2 <= i
      /\ Pushed \in Nat /\ Decoded \in Nat
  BY NothingWhole DEF RadioIInv, HandsKept, Pushes
<1>3. Min(Ends) = 2
  <2>1. \A i \in Ends : i \in Int
    BY <1>1 DEF Ends, RadioIInv, RadioTypeOK
  <2>2. \A x \in Ends : (\A y \in Ends : x =< y) => x = 2
    BY <1>2, <2>1
  <2> QED BY <1>2, <2>2 DEF Min
<1>4. buf[1] = Pushed + 1 /\ buf[2] = 0
  <2>1. 1 \in DOMAIN buf /\ 2 \in DOMAIN buf
    BY <1>1, <1>2
  <2> QED BY <1>2, <2>1, ByteIs DEF RadioIInv, BytesKept
<1> DEFINE frame == SubSeq(buf, 1, 2)
           rest == SubSeq(buf, 3, Len(buf))
<1>5. frame \in Seq(Nat) /\ frame = <<Pushed + 1, 0>>
  <2>1. /\ frame \in Seq(Nat) /\ Len(frame) = 2 /\ frame[1] = buf[1] /\ frame[2] = buf[2]
    BY <1>1, <1>2
  <2>2. <<Pushed + 1, 0>> \in Seq(Nat)
    BY <1>2
  <2> HIDE DEF frame
  <2>3. \A k \in 1 .. Len(frame) : frame[k] = <<Pushed + 1, 0>>[k]
    BY <1>4, <2>1
  <2> QED BY <2>1, <2>2, <2>3, SeqEqual
<1>6. /\ rest \in Seq(Nat) /\ Len(rest) = Len(buf) - 2
      /\ \A k \in 1 .. Len(buf) - 2 : rest[k] = buf[k + 2]
  <2>1. rest = [k \in 1 .. Len(buf) - 2 |-> buf[k + 2]]
    BY <1>1, <1>2
  <2>2. \A k \in 1 .. Len(buf) - 2 : buf[k + 2] \in Nat
    BY <1>1, <1>2
  <2> HIDE DEF rest
  <2>3. rest \in [1 .. Len(buf) - 2 -> Nat] /\ Len(buf) - 2 \in Nat
    BY <1>1, <1>2, <2>1, <2>2
  <2> QED BY <2>1, <2>3, FunctionIsSeq
<1>7. frameChan' = Append(frameChan, frame) /\ buf' = rest /\ prevEnd' = 0 /\ heard' = heard
  BY <1>3 DEF Pushes
<1> HIDE DEF frame, rest
<1>8. /\ buf' \in Seq(Nat) /\ Len(buf') = Len(buf) - 2 /\ DOMAIN buf' = 1 .. Len(buf) - 2
      /\ \A k \in 1 .. Len(buf) - 2 : buf'[k] = buf[k + 2]
  BY <1>6, <1>7
<1>9. heard - Len(buf) = 2 * Pushed /\ Len(frameChan) <= Pushed
  BY DEF RadioIInv, BytesKept
<1>10. /\ frameChan' \in Seq(Seq(Nat)) /\ Len(frameChan') = Len(frameChan) + 1
       /\ \A k \in 1 .. Len(frameChan) : frameChan'[k] = frameChan[k]
       /\ frameChan'[Len(frameChan) + 1] = <<Pushed + 1, 0>>
  BY <1>1, <1>5, <1>7
<1>11. Pushed' = Pushed + 1
  <2>1. heard' - Len(buf') = 2 * (Pushed + 1)
    BY <1>1, <1>2, <1>7, <1>8, <1>9
  <2> QED BY <1>2, <2>1, ByteIs DEF Pushed
<1>12. Decoded' = Decoded
  BY <1>1, <1>2, <1>10, <1>11 DEF Decoded
<1>13. BytesKept'
  <2>1. /\ Len(buf') <= heard' /\ heard' - Len(buf') = 2 * Pushed' /\ prevEnd' <= 1
        /\ Len(frameChan') <= Pushed'
    BY <1>1, <1>2, <1>7, <1>10, <1>11, <1>8, <1>9
  <2>2. \A k \in DOMAIN buf' : buf'[k] = Byte(2 * Pushed' + k)
    <3>1. SUFFICES ASSUME NEW k \in 1 .. Len(buf) - 2 PROVE buf'[k] = Byte(2 * Pushed' + k)
      BY <1>8
    <3>2. k + 2 \in DOMAIN buf /\ 2 * Pushed + (k + 2) = 2 * Pushed' + k
      BY <1>1, <1>2, <1>11
    <3> QED BY <1>8, <3>2 DEF RadioIInv, BytesKept
  <2>3. \A k \in DOMAIN frameChan' : frameChan'[k] = <<Decoded' + k, 0>>
    <3>1. SUFFICES ASSUME NEW k \in 1 .. Len(frameChan) + 1
                   PROVE  frameChan'[k] = <<Decoded + k, 0>>
      <4>1. DOMAIN frameChan' = 1 .. Len(frameChan) + 1
        BY <1>10
      <4> QED BY <1>12, <4>1
    <3>2. CASE k \in 1 .. Len(frameChan)
      <4>1. k \in DOMAIN frameChan
        BY <1>1, <3>2
      <4> QED BY <1>10, <3>2, <4>1 DEF RadioIInv, BytesKept
    <3>3. CASE k = Len(frameChan) + 1
      <4>1. Decoded + k = Pushed + 1
        BY <1>1, <1>2, <3>3 DEF Decoded
      <4>2. frameChan'[k] = <<Pushed + 1, 0>>
        BY <1>10, <3>3
      <4> QED BY <4>1, <4>2
    <3>4. k \in 1 .. Len(frameChan) \/ k = Len(frameChan) + 1
      BY <1>1
    <3> QED BY <3>2, <3>3, <3>4
  <2> QED BY <2>1, <2>2, <2>3 DEF BytesKept
<1>14. UpKept' /\ OutKept'
  BY <1>12, UpSame, OutSame DEF RadioIInv, Pushes, upVars, outVars
<1>15. HandsKept'
  BY DEF RadioIInv, HandsKept, Pushes, upVars, outVars
<1>16. RadioTypeOK'
  <2>1. Len(frameChan') <= frameChanCapacity
    BY <1>1, <1>10, LoadsAssumption DEF Pushes
  <2>2. buf' \in Seq(Nat) /\ prevEnd' \in 0 .. Len(buf')
    BY <1>1, <1>2, <1>7, <1>8
  <2> QED BY <1>10, <2>1, <2>2 DEF RadioIInv, RadioTypeOK, Pushes, upVars, outVars
<1> QED BY <1>13, <1>14, <1>15, <1>16 DEF RadioIInv

-----------------------------------------------------------------------------
(* From frameChan to the daemon.                                             *)

\* A message with a frame of its own, or the empty one; later than all before it.
LEMMA DecodesKeeps ==
  ASSUME RadioIInv, NEW w \in Workers(load.role), Decodes(w)
  PROVE  RadioIInv'
<1>1. /\ load.frames \in Nat /\ Len(frameChan) \in Nat /\ Len(buf) \in Nat /\ heard \in Nat
      /\ frameChan \in Seq(Seq(Nat)) /\ frameChan # <<>> /\ load.bad \subseteq Nat
      /\ proc \in [Workers(load.role) -> Routine(load.frames)]
  BY RadioFacts DEF RadioIInv, HandsKept, RadioTypeOK, Decodes
<1>2. Pushed \in Nat /\ Decoded \in Nat /\ Len(frameChan) <= Pushed
  BY NothingWhole DEF RadioIInv, HandsKept, BytesKept
<1> DEFINE m == Decode(Head(frameChan))
<1>3. m \in {0, Decoded + 1} /\ m <= load.frames
  <2>1. Head(frameChan) = <<Decoded + 1, 0>>
    <3>1. 1 \in DOMAIN frameChan /\ Head(frameChan) = frameChan[1]
      BY <1>1
    <3> QED BY <3>1 DEF RadioIInv, BytesKept
  <2>2. m \in {0, Decoded + 1}
    BY <2>1 DEF Decode, ConvertToInternalFormat
  <2>3. Decoded + 1 <= load.frames
    <3>1. heard - Len(buf) = 2 * Pushed /\ heard <= 2 * load.frames /\ Len(frameChan) >= 1
      BY <1>1 DEF RadioIInv, BytesKept, RadioTypeOK
    <3> QED BY <1>1, <1>2, <3>1 DEF Decoded
  <2> QED BY <1>1, <2>2, <2>3
<1> HIDE DEF m
<1>4. /\ proc' = [proc EXCEPT ![w] = [pc |-> "send", msg |-> m]] /\ frameChan' = Tail(frameChan)
      /\ proc[w].pc = "select"
  BY DEF Decodes, m
<1>5. /\ frameChan' \in Seq(Seq(Nat)) /\ Len(frameChan') = Len(frameChan) - 1
      /\ DOMAIN frameChan' = 1 .. Len(frameChan) - 1
      /\ \A k \in 1 .. Len(frameChan) - 1 : frameChan'[k] = frameChan[k + 1]
  BY <1>1, <1>4
<1>6. Pushed' = Pushed /\ Decoded' = Decoded + 1
  BY <1>1, <1>2, <1>5 DEF Pushed, Decoded, Decodes
<1>7. BytesKept'
  <2>1. \A k \in DOMAIN frameChan' : frameChan'[k] = <<Decoded' + k, 0>>
    <3>1. SUFFICES ASSUME NEW k \in 1 .. Len(frameChan) - 1
                   PROVE  frameChan'[k] = <<Decoded' + k, 0>>
      BY <1>5
    <3>2. k + 1 \in DOMAIN frameChan /\ Decoded + (k + 1) = Decoded' + k
      BY <1>1, <1>2, <1>6
    <3> QED BY <1>5, <3>2 DEF RadioIInv, BytesKept
  <2>2. Len(frameChan') <= Pushed'
    BY <1>1, <1>2, <1>5, <1>6
  <2> QED BY <1>6, <2>1, <2>2 DEF RadioIInv, BytesKept, Decodes
<1>8. UpKept'
  <2>1. SUFFICES ASSUME load.role = "child" PROVE UpKept'
    BY DEF UpKept, Decodes
  <2>2. w = 1 /\ 1 \in Workers(load.role)
    BY <2>1, RadioFacts DEF RadioIInv, HandsKept
  <2>3. proc[1].msg = 0 /\ proc'[1].msg = m
    BY <1>1, <1>4, <2>2 DEF RadioIInv, HandsKept, Routine
  <2>4. /\ Queued' = Queued /\ sndQ' = sndQ /\ up' = up /\ delivered' = delivered /\ hand' = hand
        /\ load' = load
    BY DEF Decodes, upVars, Queued, Elems
  <2>5. \A x \in Queued \cup {hand[1].msg} : x \in Nat /\ x <= Decoded
    <3>1. /\ hand \in [Workers(load.role) -> Routine(load.frames)]
          /\ delivered \in Seq(1 .. load.frames) /\ up.env \in Seq(1 .. load.frames)
          /\ sndQ.items \in Seq(0 .. load.frames)
      BY RadioFacts DEF RadioIInv, HandsKept, RadioTypeOK
    <3>2. Queued \cup {hand[1].msg} \subseteq Nat
      BY SMTT(30), <1>1, <2>2, <3>1 DEF Queued, Elems, Routine
    <3> QED BY <2>1, <3>2 DEF RadioIInv, UpKept
  <2>6. Before(Queued \cup {hand[1].msg}, {m})
    BY <1>2, <1>3, <2>5 DEF Before
  <2>7. \A x \in Queued \cup {hand[1].msg, m} : x <= Decoded + 1
    BY <1>2, <1>3, <2>5
  <2> QED BY <1>6, <2>1, <2>3, <2>4, <2>6, <2>7 DEF RadioIInv, UpKept
<1>9. OutKept'
  BY OutSame DEF RadioIInv, Decodes, outVars
<1>10. HandsKept'
  BY <1>1, <1>4 DEF RadioIInv, HandsKept, Decodes, upVars, outVars
<1>11. RadioTypeOK'
  <2>1. [pc |-> "send", msg |-> m] \in Routine(load.frames)
    BY <1>1, <1>2, <1>3 DEF Routine
  <2>2. proc' \in [Workers(load.role) -> Routine(load.frames)]
    BY <1>1, <1>4, <2>1
  <2>3. Len(frameChan') <= frameChanCapacity
    BY <1>1, <1>5, LoadsAssumption DEF RadioIInv, RadioTypeOK
  <2> QED BY <1>5, <2>2, <2>3 DEF RadioIInv, RadioTypeOK, Decodes, upVars, outVars
<1> QED BY <1>7, <1>8, <1>9, <1>10, <1>11 DEF RadioIInv

LEMMA HandsOverKeeps ==
  ASSUME RadioIInv, NEW w \in Workers(load.role), NEW h \in Workers(load.role), HandsOver(w, h)
  PROVE  RadioIInv'
<1>1. /\ load.frames \in Nat /\ proc \in [Workers(load.role) -> Routine(load.frames)]
      /\ hand \in [Workers(load.role) -> Routine(load.frames)]
  BY RadioFacts DEF RadioIInv, HandsKept, RadioTypeOK
<1>2. /\ proc' = [proc EXCEPT ![w] = [pc |-> "select", msg |-> 0]]
      /\ hand' = [hand EXCEPT ![h] = [pc |-> "add", msg |-> proc[w].msg]]
      /\ proc[w].pc = "send" /\ hand[h].pc = "select" /\ load' = load
  BY DEF HandsOver
<1>3. BytesKept' /\ Decoded' = Decoded
  BY BytesSame DEF RadioIInv, HandsOver
<1>4. UpKept'
  <2>1. SUFFICES ASSUME load.role = "child" PROVE UpKept'
    BY DEF UpKept, HandsOver
  <2>2. w = 1 /\ h = 1 /\ 1 \in Workers(load.role)
    BY <2>1, RadioFacts DEF RadioIInv, HandsKept
  <2>3. hand[1].msg = 0 /\ hand'[1].msg = proc[1].msg /\ proc'[1].msg = 0
    BY <1>1, <1>2, <2>2 DEF RadioIInv, HandsKept
  <2>4. Queued' = Queued /\ sndQ' = sndQ /\ up' = up /\ delivered' = delivered
    BY DEF HandsOver, Queued, Elems
  <2>5. Before(Queued, {proc[1].msg}) /\ Before(Queued \cup {proc[1].msg}, {0})
    BY <2>1 DEF RadioIInv, UpKept, Before
  <2>6. \A x \in Queued \cup {proc[1].msg, 0} : x <= Decoded
    BY <2>1, <2>3 DEF RadioIInv, UpKept
  <2> QED BY <1>2, <1>3, <2>1, <2>3, <2>4, <2>5, <2>6 DEF RadioIInv, UpKept
<1>5. OutKept'
  BY OutSame DEF RadioIInv, HandsOver, outVars
<1>6. HandsKept'
  BY <1>1, <1>2 DEF RadioIInv, HandsKept, HandsOver, outVars
<1>7. RadioTypeOK'
  <2>1. /\ [pc |-> "select", msg |-> 0] \in Routine(load.frames)
        /\ [pc |-> "add", msg |-> proc[w].msg] \in Routine(load.frames)
    BY <1>1 DEF Routine
  <2>2. /\ proc' \in [Workers(load.role) -> Routine(load.frames)]
        /\ hand' \in [Workers(load.role) -> Routine(load.frames)]
    BY <1>1, <1>2, <2>1
  <2> QED BY <2>2 DEF RadioIInv, RadioTypeOK, HandsOver, outVars
<1> QED BY <1>3, <1>4, <1>5, <1>6, <1>7 DEF RadioIInv

\* What the handler has goes to the end of the queue, or, where the queue has the same
\* empty message already, nowhere.
LEMMA HandlerAddsKeeps ==
  ASSUME RadioIInv, NEW h \in Workers(load.role), HandlerAdds(h)
  PROVE  RadioIInv'
<1> DEFINE m == hand[h].msg
<1>1. /\ load.frames \in Nat /\ hand \in [Workers(load.role) -> Routine(load.frames)]
      /\ sndQ \in QueueType(0 .. load.frames) /\ m \in 0 .. load.frames
  BY RadioFacts DEF RadioIInv, HandsKept, RadioTypeOK, Routine
<1>2. /\ hand' = [hand EXCEPT ![h] = [pc |-> "select", msg |-> 0]]
      /\ sndQ' = QAdd(sndQ, m) /\ load' = load
  BY DEF HandlerAdds
<1>3. BytesKept' /\ Decoded' = Decoded
  BY BytesSame DEF RadioIInv, HandlerAdds, rfVars
<1>4. /\ sndQ' \in QueueType(0 .. load.frames) /\ sndQ'.processing = {}
      /\ sndQ'.items = sndQ.items \/ sndQ'.items = Append(sndQ.items, m)
  <2>1. sndQ' \in QueueType(0 .. load.frames)
    BY <1>1, <1>2, QueueOpsType
  <2>2. sndQ.processing = {}
    BY DEF RadioIInv, HandsKept
  <2> QED BY <1>1, <1>2, <2>1, <2>2 DEF QAdd, QueueType
<1>5. UpKept'
  <2>1. SUFFICES ASSUME load.role = "child" PROVE UpKept'
    BY DEF UpKept, HandlerAdds
  <2>2. h = 1 /\ 1 \in Workers(load.role)
    BY <2>1, RadioFacts DEF RadioIInv, HandsKept
  <2>3. hand'[1].msg = 0 /\ proc' = proc /\ up' = up /\ delivered' = delivered
    BY <1>1, <1>2, <2>2 DEF HandlerAdds, rfVars
  <2>4. sndQ.items \in Seq(Nat) /\ sndQ.items \in Seq(0 .. load.frames) /\ m \in Nat
    BY <1>1 DEF QueueType
  <2>5. Elems(sndQ'.items) \subseteq Elems(sndQ.items) \cup {m}
    <3>1. Elems(Append(sndQ.items, m)) = Elems(sndQ.items) \cup {m}
      BY <2>4, ElemsAppend
    <3> QED BY <1>4, <3>1
  <2>6. Before(Queued, {m}) /\ Queued' \subseteq Queued \cup {m}
    BY <2>1, <2>2, <2>3, <2>5 DEF RadioIInv, UpKept, Queued
  <2>7. InOrder(sndQ'.items)
    <3>1. Before(Elems(sndQ.items), {m}) /\ InOrder(sndQ.items)
      BY <2>1, <2>6 DEF RadioIInv, UpKept, Queued, Before
    <3> QED BY <1>4, <2>4, <3>1, InOrderAppend
  <2>8. Before(Elems(delivered) \cup Elems(up.env), Elems(sndQ'.items))
    BY <2>1, <2>5, <2>6 DEF RadioIInv, UpKept, Queued, Before
  <2>9. Before(Queued', {0}) /\ Before(Queued' \cup {0}, {proc[1].msg})
    BY <2>1, <2>2, <2>6 DEF RadioIInv, UpKept, Before
  <2>10. \A x \in Queued' \cup {0, proc[1].msg} : x <= Decoded
    <3>1. Decoded \in Nat
      BY NothingWhole DEF RadioIInv, HandsKept
    <3> QED BY <2>1, <2>2, <2>6, <3>1 DEF RadioIInv, UpKept
  <2> QED BY <1>2, <1>3, <2>1, <2>3, <2>7, <2>8, <2>9, <2>10 DEF RadioIInv, UpKept
<1>6. OutKept'
  BY OutSame DEF RadioIInv, HandlerAdds, outVars
<1>7. HandsKept'
  BY <1>1, <1>2, <1>4 DEF RadioIInv, HandsKept, HandlerAdds, rfVars, outVars
<1>8. RadioTypeOK'
  <2>1. [pc |-> "select", msg |-> 0] \in Routine(load.frames)
    BY <1>1 DEF Routine
  <2>2. hand' \in [Workers(load.role) -> Routine(load.frames)]
    BY <1>1, <1>2, <2>1
  <2> QED BY <1>4, <2>2 DEF RadioIInv, RadioTypeOK, HandlerAdds, rfVars, outVars
<1> QED BY <1>3, <1>5, <1>6, <1>7, <1>8 DEF RadioIInv

LEMMA RoutineExitsKeeps ==
  ASSUME RadioIInv, NEW w \in Workers(load.role), RoutineExits(w)
  PROVE  RadioIInv'
<1>1. /\ load.frames \in Nat /\ proc \in [Workers(load.role) -> Routine(load.frames)]
      /\ hand \in [Workers(load.role) -> Routine(load.frames)]
  BY RadioFacts DEF RadioIInv, HandsKept, RadioTypeOK
<1>2. /\ proc' \in [Workers(load.role) -> Routine(load.frames)]
      /\ hand' \in [Workers(load.role) -> Routine(load.frames)]
      /\ \A v \in Workers(load.role) :
           /\ proc'[v].msg = proc[v].msg /\ hand'[v].msg = hand[v].msg
           /\ proc'[v].pc # "send" => proc[v].pc # "send"
           /\ hand'[v].pc # "add" => hand[v].pc # "add"
  <2>1. CASE proc[w].pc = "select" /\ proc' = [proc EXCEPT ![w].pc = "exited"] /\ hand' = hand
    <3>1. proc' \in [Workers(load.role) -> Routine(load.frames)]
      BY <1>1, <2>1 DEF Routine
    <3> QED BY <1>1, <2>1, <3>1 DEF Routine
  <2>2. CASE hand[w].pc = "select" /\ hand' = [hand EXCEPT ![w].pc = "exited"] /\ proc' = proc
    <3>1. hand' \in [Workers(load.role) -> Routine(load.frames)]
      BY <1>1, <2>2 DEF Routine
    <3> QED BY <1>1, <2>2, <3>1 DEF Routine
  <2> QED BY <2>1, <2>2 DEF RoutineExits
<1>3. BytesKept' /\ Decoded' = Decoded
  BY BytesSame DEF RadioIInv, RoutineExits
<1>4. 1 \in Workers(load.role)
  BY RadioFacts DEF RadioIInv, HandsKept
<1>5. UpKept'
  BY <1>2, <1>3, <1>4 DEF RadioIInv, UpKept, RoutineExits, Queued, InOrder, Before, Elems
<1>6. OutKept'
  BY OutSame DEF RadioIInv, RoutineExits, outVars
<1>7. HandsKept'
  BY <1>2 DEF RadioIInv, HandsKept, RoutineExits, outVars
<1>8. RadioTypeOK'
  BY <1>2 DEF RadioIInv, RadioTypeOK, RoutineExits, outVars
<1> QED BY <1>3, <1>5, <1>6, <1>7, <1>8 DEF RadioIInv

\* What the envelopes take is the head of the queue, never the empty message.
LEMMA UpGetsKeeps ==
  ASSUME RadioIInv, UpGets
  PROVE  RadioIInv'
<1> DEFINE m == Head(sndQ.items)
<1>1. /\ load.frames \in Nat /\ sndQ \in QueueType(0 .. load.frames) /\ sndQ.items # <<>>
      /\ sndQ.items \in Seq(0 .. load.frames) /\ up.env \in Seq(1 .. load.frames)
      /\ delivered \in Seq(1 .. load.frames) /\ up.pc = "get"
  BY RadioFacts DEF RadioIInv, HandsKept, RadioTypeOK, UpGets
<1>2. m \in 1 .. load.frames
  BY <1>1 DEF UpGets, HasExternalFormat
<1>3. /\ sndQ' \in QueueType(0 .. load.frames) /\ sndQ'.items = Tail(sndQ.items)
      /\ sndQ'.processing = {}
  <2>1. sndQ.processing = {}
    BY DEF RadioIInv, HandsKept
  <2> QED BY <1>1, <2>1, TakeAndDone DEF UpGets
<1>4. /\ up'.env = Append(up.env, m) /\ up'.pc \in {"send", "get"}
      /\ up' \in [pc : {"top", "get", "send", "exited"}, env : Seq(1 .. load.frames)]
      /\ Len(up'.env) = Len(up.env) + 1
      /\ up'.pc = "get" => Len(up'.env) # maxMessagesPerEnv
  <2>1. Append(up.env, m) \in Seq(1 .. load.frames) /\ Len(Append(up.env, m)) = Len(up.env) + 1
    BY <1>1, <1>2
  <2>2. up' = [pc |-> IF Len(Append(up.env, m)) = maxMessagesPerEnv \/ sndQ'.items = <<>>
                      THEN "send" ELSE "get", env |-> Append(up.env, m)]
    BY DEF UpGets
  <2> QED BY <2>1, <2>2
<1>5. BytesKept' /\ Decoded' = Decoded
  BY BytesSame DEF RadioIInv, UpGets, rfVars
<1>6. UpKept'
  <2>1. SUFFICES ASSUME load.role = "child" PROVE UpKept'
    BY DEF UpKept, UpGets
  <2>2. hand' = hand /\ proc' = proc /\ delivered' = delivered /\ load' = load
    BY DEF UpGets, rfVars
  <2>3. sndQ.items \in Seq(Nat) /\ up.env \in Seq(Nat) /\ m \in Nat
    BY <1>1, <1>2
  <2>4. /\ Elems(up'.env) = Elems(up.env) \cup {m}
        /\ m \in Elems(sndQ.items) /\ Elems(sndQ'.items) \subseteq Elems(sndQ.items)
    BY <1>1, <1>3, <1>4, <2>3, ElemsAppend, ElemsTail
  <2>5. Queued' \subseteq Queued
    BY <2>2, <2>4 DEF Queued
  <2>6. InOrder(sndQ'.items) /\ Before({m}, Elems(sndQ'.items))
    BY <1>1, <1>3, <2>1, <2>3, InOrderTail DEF RadioIInv, UpKept
  <2>7. InOrder(up'.env)
    <3>1. Before(Elems(up.env), {m}) /\ InOrder(up.env)
      BY <2>1, <2>4 DEF RadioIInv, UpKept, Before
    <3> QED BY <1>4, <2>3, <3>1, InOrderAppend
  <2>8. Before(Elems(delivered), Elems(up'.env))
    BY <2>1, <2>4 DEF RadioIInv, UpKept, Before
  <2>9. Before(Elems(delivered) \cup Elems(up'.env), Elems(sndQ'.items))
    BY <2>1, <2>4, <2>6 DEF RadioIInv, UpKept, Before
  <2>10. Before(Queued', {hand[1].msg}) /\ Before(Queued' \cup {hand[1].msg}, {proc[1].msg})
    BY <2>1, <2>5 DEF RadioIInv, UpKept, Before
  <2>11. InOrder(delivered) /\ \A x \in Queued' \cup {hand[1].msg, proc[1].msg} : x <= Decoded
    BY <2>1, <2>5 DEF RadioIInv, UpKept
  <2> QED BY <1>5, <2>2, <2>6, <2>7, <2>8, <2>9, <2>10, <2>11 DEF UpKept
<1>7. OutKept'
  BY OutSame DEF RadioIInv, UpGets, outVars
<1>8. Len(up.env) < maxMessagesPerEnv /\ Len(up.env) \in Nat /\ maxMessagesPerEnv \in Nat
  BY <1>1, LoadsAssumption DEF RadioIInv, HandsKept
<1>9. HandsKept'
  <2>1. up'.pc # "top" /\ (up'.pc = "get" => Len(up'.env) < maxMessagesPerEnv)
    BY <1>4, <1>8
  <2> QED BY <1>3, <1>4, <2>1 DEF RadioIInv, HandsKept, UpGets, rfVars, outVars
<1>10. RadioTypeOK'
  <2>1. Len(up'.env) <= maxMessagesPerEnv
    BY <1>4, <1>8
  <2> QED BY <1>3, <1>4, <2>1 DEF RadioIInv, RadioTypeOK, UpGets, rfVars, outVars
<1> QED BY <1>5, <1>6, <1>7, <1>9, <1>10 DEF RadioIInv

LEMMA UpSendsKeeps ==
  ASSUME RadioIInv, UpSends
  PROVE  RadioIInv'
<1>1. /\ load.frames \in Nat /\ sndQ.items \in Seq(0 .. load.frames)
      /\ up.env \in Seq(1 .. load.frames) /\ delivered \in Seq(1 .. load.frames)
  BY RadioFacts DEF RadioIInv, HandsKept, RadioTypeOK
<1>2. /\ up' = [pc |-> "top", env |-> <<>>]
      /\ delivered' = delivered \o up.env \/ delivered' = delivered
  BY DEF UpSends
<1>3. delivered' \in Seq(1 .. load.frames)
  BY <1>1, <1>2, ConcatProperties
<1>4. BytesKept' /\ Decoded' = Decoded
  BY BytesSame DEF RadioIInv, UpSends, rfVars
<1>5. UpKept'
  <2>1. SUFFICES ASSUME load.role = "child" PROVE UpKept'
    BY DEF UpKept, UpSends
  <2>2. hand' = hand /\ proc' = proc /\ sndQ' = sndQ /\ load' = load /\ up'.env = <<>>
    BY <1>2 DEF UpSends, rfVars
  <2>3. /\ InOrder(delivered) /\ InOrder(up.env) /\ Before(Elems(delivered), Elems(up.env))
        /\ delivered \in Seq(Nat) /\ up.env \in Seq(Nat)
    BY <1>1, <2>1 DEF RadioIInv, UpKept
  <2>4. InOrder(delivered') /\ Elems(delivered') \subseteq Elems(delivered) \cup Elems(up.env)
    BY <1>2, <2>3, InOrderCat
  <2>5. Elems(up'.env) = {} /\ InOrder(up'.env)
    BY <2>2, EmptyInOrder
  <2>6. Queued' \subseteq Queued
    BY <2>2, <2>4, <2>5 DEF Queued
  <2>7. /\ Before(Elems(delivered'), Elems(up'.env))
        /\ Before(Elems(delivered') \cup Elems(up'.env), Elems(sndQ.items))
    BY <2>1, <2>4, <2>5 DEF RadioIInv, UpKept, Before
  <2>8. Before(Queued', {hand[1].msg}) /\ Before(Queued' \cup {hand[1].msg}, {proc[1].msg})
    BY <2>1, <2>6 DEF RadioIInv, UpKept, Before
  <2>9. /\ InOrder(sndQ.items)
        /\ \A x \in Queued' \cup {hand[1].msg, proc[1].msg} : x <= Decoded
    BY <2>1, <2>6 DEF RadioIInv, UpKept
  <2> QED BY <1>4, <2>2, <2>4, <2>5, <2>7, <2>8, <2>9 DEF UpKept
<1>6. OutKept'
  BY OutSame DEF RadioIInv, UpSends, outVars
<1>7. HandsKept'
  <2>1. up' \in [pc : {"top", "get", "send", "exited"}, env : Seq(1 .. load.frames)]
    BY <1>2
  <2> QED BY <1>2, <2>1 DEF RadioIInv, HandsKept, UpSends, rfVars, outVars
<1>8. RadioTypeOK'
  <2>1. Len(up'.env) <= maxMessagesPerEnv /\ up'.pc \in {"top", "get", "send", "exited"}
    BY <1>2, LoadsAssumption
  <2> QED BY <1>3, <2>1 DEF RadioIInv, RadioTypeOK, UpSends, rfVars, outVars
<1> QED BY <1>4, <1>5, <1>6, <1>7, <1>8 DEF RadioIInv

\* The other steps of the sending routine, and Stop, leave what is in the queues and in
\* the envelope.
LEMMA UpTurnsKeeps ==
  ASSUME RadioIInv, UpTop \/ UpExits \/ StopQueues
  PROVE  RadioIInv'
<1>1. /\ load.frames \in Nat /\ load.msgs \in Nat /\ sndQ \in QueueType(0 .. load.frames)
      /\ rcvQ \in QueueType(0 .. load.msgs)
      /\ up \in [pc : {"top", "get", "send", "exited"}, env : Seq(1 .. load.frames)]
  BY RadioFacts DEF RadioIInv, HandsKept, RadioTypeOK
<1>2. /\ sndQ' \in QueueType(0 .. load.frames) /\ rcvQ' \in QueueType(0 .. load.msgs)
      /\ sndQ'.items = sndQ.items /\ sndQ'.processing = sndQ.processing
      /\ rcvQ'.items = rcvQ.items /\ rcvQ'.processing = rcvQ.processing
      /\ rcvQ'.dirty = rcvQ.dirty
  <2>1. CASE UpTop \/ UpExits
    BY <1>1, <2>1 DEF UpTop, UpExits, outVars
  <2>2. CASE StopQueues
    BY <1>1, <2>2 DEF StopQueues, QShutDown, QueueType
  <2> QED BY <2>1, <2>2
<1>3. /\ up' \in [pc : {"top", "get", "send", "exited"}, env : Seq(1 .. load.frames)]
      /\ up'.env = up.env
      /\ up'.pc = "top" => up'.env = <<>>
      /\ up'.pc = "get" => Len(up'.env) < maxMessagesPerEnv
  <2>1. CASE UpTop
    <3>1. up.env = <<>>
      BY <2>1 DEF UpTop, RadioIInv, HandsKept
    <3>2. Len(up.env) = 0 /\ 0 < maxMessagesPerEnv
      BY <3>1, LoadsAssumption
    <3> QED BY <1>1, <2>1, <3>1, <3>2 DEF UpTop
  <2>2. CASE UpExits
    BY <1>1, <2>2 DEF UpExits
  <2>3. CASE StopQueues
    BY <1>1, <2>3 DEF StopQueues, RadioIInv, HandsKept
  <2> QED BY <2>1, <2>2, <2>3
<1>4. UNCHANGED <<load, stream, rfVars, hand, delivered, came, sender, written, beat>>
  BY DEF UpTop, UpExits, StopQueues, outVars
<1>5. BytesKept' /\ Decoded' = Decoded
  BY <1>4, BytesSame DEF RadioIInv, rfVars
<1>6. UpKept'
  <2>1. Queued' = Queued
    BY <1>2, <1>3, <1>4 DEF Queued, Elems
  <2> QED BY <1>2, <1>3, <1>4, <1>5, <2>1 DEF RadioIInv, UpKept, rfVars
<1>7. OutKept'
  BY <1>2, <1>4 DEF RadioIInv, OutKept
<1>8. HandsKept'
  BY <1>2, <1>3, <1>4 DEF RadioIInv, HandsKept, rfVars
<1>9. RadioTypeOK'
  <2>1. stopping' \in {"no", "queues", "killed", "over", "crashed"}
    BY DEF UpTop, UpExits, StopQueues, RadioIInv, RadioTypeOK
  <2> QED BY <1>2, <1>3, <1>4, <2>1 DEF RadioIInv, RadioTypeOK, rfVars
<1> QED BY <1>5, <1>6, <1>7, <1>8, <1>9 DEF RadioIInv

-----------------------------------------------------------------------------
(* From the daemon to the radio.                                             *)

\* A message added to the receive queue is later than all that were, or empty.
LEMMA DaemonSendsKeeps ==
  ASSUME RadioIInv, DaemonSends
  PROVE  RadioIInv'
<1> DEFINE m == ConvertToInternalFormat(came')
<1>1. /\ load.msgs \in Nat /\ rcvQ \in QueueType(0 .. load.msgs) /\ came \in 0 .. load.msgs
      /\ rcvQ.items \in Seq(0 .. load.msgs)
      /\ sender \in [Workers(load.role) -> Routine(load.msgs)]
      /\ written \in Seq(1 .. load.msgs) /\ load.role \in {"child", "master"}
  BY RadioFacts DEF RadioIInv, HandsKept, RadioTypeOK
<1>2. /\ came' = came + 1 /\ came' \in 0 .. load.msgs /\ m \in {0, came + 1}
      /\ rcvQ' = QAdd(rcvQ, m) /\ sender' = sender /\ written' = written /\ load' = load
      /\ m \in 0 .. load.msgs
  BY <1>1 DEF DaemonSends, ConvertToInternalFormat
<1> HIDE DEF m
<1>3. /\ rcvQ' \in QueueType(0 .. load.msgs) /\ rcvQ'.processing = rcvQ.processing
      /\ \/ rcvQ'.items = rcvQ.items /\ rcvQ'.dirty = rcvQ.dirty
         \/ /\ rcvQ'.items = Append(rcvQ.items, m)
            /\ rcvQ'.dirty = rcvQ.dirty \cup {m}
         \/ /\ rcvQ'.items = rcvQ.items /\ m \in rcvQ.processing
            /\ rcvQ'.dirty = rcvQ.dirty \cup {m}
  <2>1. rcvQ' \in QueueType(0 .. load.msgs)
    BY <1>1, <1>2, QueueOpsType
  <2> QED BY <1>1, <1>2, <2>1 DEF QAdd, Appends, QueueType
<1>4. OutKept'
  <2>1. SUFFICES ASSUME load.role = "child" PROVE OutKept'
    BY <1>1, <1>2 DEF RadioIInv, OutKept
  <2>2. /\ InOrder(rcvQ.items) /\ InOrder(written)
        /\ Before(Elems(written), Elems(rcvQ.items))
        /\ Before(Elems(written), {sender[1].msg})
        /\ Before({sender[1].msg}, Elems(rcvQ.items))
        /\ \A x \in Elems(written) \cup Elems(rcvQ.items) \cup {sender[1].msg} : x <= came
        /\ rcvQ.processing = IF sender[1].pc = "send" THEN {sender[1].msg} ELSE {}
        /\ \A x \in rcvQ.dirty : x # 0 => x \in Elems(rcvQ.items)
    BY <2>1 DEF RadioIInv, OutKept
  <2>3. /\ rcvQ.items \in Seq(Nat) /\ m \in Nat /\ came \in Nat
        /\ Elems(written) \subseteq Nat /\ Elems(rcvQ.items) \subseteq Nat
        /\ sender[1].msg \in Nat
    <3>1. Elems(written) \subseteq Nat /\ Elems(rcvQ.items) \subseteq Nat
      BY <1>1 DEF Elems
    <3>2. 1 \in Workers(load.role)
      BY RadioFacts DEF RadioIInv, HandsKept
    <3>3. sender[1].msg \in Nat
      BY <1>1, <3>2 DEF Routine
    <3> QED BY <1>1, <1>2, <3>1, <3>3
  <2>4. /\ Before(Elems(rcvQ.items), {m}) /\ Before(Elems(written), {m})
        /\ Before({sender[1].msg}, {m})
    <3>1. \A x \in Elems(written) \cup Elems(rcvQ.items) \cup {sender[1].msg} :
            x \in Nat /\ x <= came
      BY <2>2, <2>3
    <3>2. m = 0 \/ m = came + 1
      BY <1>2
    <3> QED BY <2>3, <3>1, <3>2 DEF Before
  <2>5. /\ InOrder(Append(rcvQ.items, m))
        /\ Elems(Append(rcvQ.items, m)) = Elems(rcvQ.items) \cup {m}
    BY <2>2, <2>3, <2>4, InOrderAppend, ElemsAppend
  <2>6. m # 0 => m \notin rcvQ.processing
    <3>1. \A x \in rcvQ.processing : x \in Nat /\ x <= came
      BY <2>2, <2>3
    <3> QED BY <1>2, <2>3, <3>1
  <2>7. /\ InOrder(rcvQ'.items)
        /\ Elems(rcvQ'.items) \subseteq Elems(rcvQ.items) \cup {m}
        /\ \A x \in rcvQ'.dirty : x # 0 => x \in Elems(rcvQ'.items)
    BY <1>3, <2>2, <2>5, <2>6
  <2>8. /\ Before(Elems(written), Elems(rcvQ'.items))
        /\ Before({sender[1].msg}, Elems(rcvQ'.items))
    BY <2>2, <2>4, <2>7 DEF Before
  <2>9. \A x \in Elems(written) \cup Elems(rcvQ'.items) \cup {sender[1].msg} : x <= came'
    BY <1>2, <2>2, <2>3, <2>7
  <2> QED BY <1>2, <1>3, <2>1, <2>2, <2>7, <2>8, <2>9 DEF OutKept
<1>5. BytesKept' /\ Decoded' = Decoded
  BY BytesSame DEF RadioIInv, DaemonSends, rfVars
<1>6. UpKept'
  BY <1>5, UpSame DEF RadioIInv, DaemonSends, rfVars, upVars
<1>7. HandsKept'
  BY DEF RadioIInv, HandsKept, DaemonSends, rfVars, upVars
<1>8. RadioTypeOK'
  BY <1>2, <1>3 DEF RadioIInv, RadioTypeOK, DaemonSends, rfVars, upVars
<1> QED BY <1>4, <1>5, <1>6, <1>7, <1>8 DEF RadioIInv

\* What a step of a sender leaves alone.
LEMMA SenderKeeps ==
  ASSUME RadioIInv, UNCHANGED <<load, stopping, stream, rfVars, upVars, came, beat>>,
         rcvQ' \in QueueType(0 .. load.msgs), written' \in Seq(1 .. load.msgs),
         sender' \in [Workers(load.role) -> Routine(load.msgs)],
         \A v \in Workers(load.role) : sender'[v].pc # "send" => sender'[v].msg = 0,
         OutKept'
  PROVE  RadioIInv'
<1>1. BytesKept' /\ Decoded' = Decoded
  BY BytesSame DEF RadioIInv, rfVars
<1>2. UpKept'
  BY <1>1, UpSame DEF RadioIInv, rfVars, upVars
<1>3. HandsKept'
  BY DEF RadioIInv, HandsKept, rfVars, upVars
<1>4. RadioTypeOK'
  BY DEF RadioIInv, RadioTypeOK, rfVars, upVars
<1> QED BY <1>1, <1>2, <1>3, <1>4 DEF RadioIInv

LEMMA SenderGetsKeeps ==
  ASSUME RadioIInv, NEW w \in Workers(load.role), SenderGets(w)
  PROVE  RadioIInv'
<1>1. /\ load.msgs \in Nat /\ rcvQ \in QueueType(0 .. load.msgs)
      /\ rcvQ.items \in Seq(0 .. load.msgs) /\ load.role \in {"child", "master"}
      /\ sender \in [Workers(load.role) -> Routine(load.msgs)]
      /\ written \in Seq(1 .. load.msgs) /\ sender[w].pc = "get" /\ sender[w].msg = 0
      /\ load.role = "child" => w = 1
  BY RadioFacts DEF RadioIInv, HandsKept, RadioTypeOK, SenderGets
<1>2. UNCHANGED <<load, stopping, stream, rfVars, upVars, came, written, beat>>
  BY DEF SenderGets
<1>3. CASE rcvQ' = rcvQ /\ sender' = [sender EXCEPT ![w].pc = "exited"]
  <2>1. /\ sender' \in [Workers(load.role) -> Routine(load.msgs)]
        /\ \A v \in Workers(load.role) : /\ sender'[v].msg = sender[v].msg
                                         /\ v # w => sender'[v] = sender[v]
        /\ sender'[w].pc = "exited"
    BY <1>1, <1>3 DEF Routine
  <2>2. \A v \in Workers(load.role) : sender'[v].pc # "send" => sender'[v].msg = 0
    BY <1>1, <2>1 DEF RadioIInv, HandsKept
  <2>3. OutKept'
    <3>1. SUFFICES ASSUME load.role = "child" PROVE OutKept'
      BY <1>1, <1>2 DEF RadioIInv, OutKept
    <3>2. sender'[1].msg = sender[1].msg /\ sender'[1].pc = "exited" /\ sender[1].pc = "get"
      BY <1>1, <2>1, <3>1
    <3> QED BY <1>2, <1>3, <3>1, <3>2 DEF RadioIInv, OutKept
  <2> QED BY <1>1, <1>2, <1>3, <2>1, <2>2, <2>3, SenderKeeps
<1>4. CASE /\ rcvQ.items # <<>> /\ rcvQ' = QTake(rcvQ)
           /\ sender' = [sender EXCEPT ![w] = [pc |-> "send", msg |-> Head(rcvQ.items)]]
  <2> DEFINE m == Head(rcvQ.items)
  <2>1. rcvQ' \in QueueType(0 .. load.msgs) /\ m \in 0 .. load.msgs
    BY <1>1, <1>4, QTakeType
  <2>2. /\ rcvQ'.items = Tail(rcvQ.items) /\ rcvQ'.processing = rcvQ.processing \cup {m}
        /\ rcvQ'.dirty = rcvQ.dirty \ {m}
    BY <1>1, <1>4 DEF QTake, QueueType
  <2> HIDE DEF m
  <2>3. [pc |-> "send", msg |-> m] \in Routine(load.msgs)
    BY <1>1, <2>1 DEF Routine
  <2>4. /\ sender' \in [Workers(load.role) -> Routine(load.msgs)]
        /\ \A v \in Workers(load.role) : v # w => sender'[v] = sender[v]
        /\ sender'[w] = [pc |-> "send", msg |-> m]
    BY <1>1, <1>4, <2>3 DEF m
  <2>5. \A v \in Workers(load.role) : sender'[v].pc # "send" => sender'[v].msg = 0
    BY <2>4 DEF RadioIInv, HandsKept
  <2>6. OutKept'
    <3>1. SUFFICES ASSUME load.role = "child" PROVE OutKept'
      BY <1>1, <1>2 DEF RadioIInv, OutKept
    <3>2. /\ InOrder(rcvQ.items) /\ InOrder(written)
          /\ Before(Elems(written), Elems(rcvQ.items))
          /\ \A x \in Elems(written) \cup Elems(rcvQ.items) : x <= came
          /\ rcvQ.processing = {}
          /\ \A x \in rcvQ.dirty : x # 0 => x \in Elems(rcvQ.items)
      BY <1>1, <3>1 DEF RadioIInv, OutKept
    <3>3. /\ m \in Elems(rcvQ.items) /\ Elems(rcvQ'.items) \subseteq Elems(rcvQ.items)
          /\ Elems(rcvQ.items) \subseteq Elems(rcvQ'.items) \cup {m}
      BY <1>1, <1>4, <2>2, ElemsTail DEF m
    <3>4. InOrder(rcvQ'.items) /\ Before({m}, Elems(rcvQ'.items))
      <4>1. rcvQ.items \in Seq(Nat)
        BY <1>1
      <4> QED BY <1>4, <2>2, <3>2, <4>1, InOrderTail DEF m
    <3>5. sender'[1] = [pc |-> "send", msg |-> m] /\ load' = load /\ came' = came
          /\ written' = written
      BY <1>1, <1>2, <2>4, <3>1
    <3>6. Before(Elems(written), Elems(rcvQ'.items)) /\ Before(Elems(written), {m})
      BY <3>2, <3>3 DEF Before
    <3>7. \A x \in Elems(written) \cup Elems(rcvQ'.items) \cup {m} : x <= came
      BY <3>2, <3>3
    <3>8. /\ rcvQ'.processing = {m}
          /\ \A x \in rcvQ'.dirty : x # 0 => x \in Elems(rcvQ'.items)
      BY <2>2, <3>2, <3>3
    <3> QED BY <3>1, <3>2, <3>4, <3>5, <3>6, <3>7, <3>8 DEF OutKept
  <2> QED BY <1>1, <1>2, <2>1, <2>4, <2>5, <2>6, SenderKeeps
<1> QED BY <1>3, <1>4 DEF SenderGets

\* A sender is done with its message, and waits for the next one.
LEMMA SenderIsDone ==
  ASSUME RadioIInv, NEW w \in Workers(load.role), sender[w].pc = "send",
         rcvQ' = QDone(rcvQ, sender[w].msg),
         sender' = [sender EXCEPT ![w] = [pc |-> "get", msg |-> 0]]
  PROVE  /\ rcvQ' \in QueueType(0 .. load.msgs)
         /\ sender' \in [Workers(load.role) -> Routine(load.msgs)]
         /\ \A v \in Workers(load.role) : sender'[v].pc # "send" => sender'[v].msg = 0
         /\ sender'[w] = [pc |-> "get", msg |-> 0]
<1>1. /\ load.msgs \in Nat /\ rcvQ \in QueueType(0 .. load.msgs)
      /\ sender \in [Workers(load.role) -> Routine(load.msgs)]
  BY RadioFacts DEF RadioIInv, HandsKept, RadioTypeOK
<1>2. rcvQ' \in QueueType(0 .. load.msgs)
  BY <1>1, QDoneType
<1>3. [pc |-> "get", msg |-> 0] \in Routine(load.msgs)
  BY <1>1 DEF Routine
<1>4. /\ sender' \in [Workers(load.role) -> Routine(load.msgs)]
      /\ \A v \in Workers(load.role) : v # w => sender'[v] = sender[v]
      /\ sender'[w] = [pc |-> "get", msg |-> 0]
  BY <1>1, <1>3
<1>5. \A v \in Workers(load.role) : sender'[v].pc # "send" => sender'[v].msg = 0
  BY <1>4 DEF RadioIInv, HandsKept
<1> QED BY <1>2, <1>4, <1>5

\* Nothing asks for the message again while it is written: Done does not requeue it.
LEMMA SenderWritesKeeps ==
  ASSUME RadioIInv, NEW w \in Workers(load.role), SenderWrites(w)
  PROVE  RadioIInv'
<1> DEFINE m == sender[w].msg
<1>1. /\ load.msgs \in Nat /\ rcvQ \in QueueType(0 .. load.msgs) /\ load.role = "child"
      /\ sender \in [Workers(load.role) -> Routine(load.msgs)] /\ w = 1
      /\ written \in Seq(1 .. load.msgs) /\ rcvQ.items \in Seq(0 .. load.msgs)
  BY RadioFacts DEF RadioIInv, HandsKept, RadioTypeOK, SenderWrites
<1>2. m \in 1 .. load.msgs
  BY <1>1 DEF Routine, SenderWrites, HasExternalFormat
<1>3. /\ sender[w].pc = "send" /\ rcvQ' = QDone(rcvQ, m)
      /\ sender' = [sender EXCEPT ![w] = [pc |-> "get", msg |-> 0]]
      /\ written' = Append(written, m) \/ written' = written
      /\ UNCHANGED <<load, stopping, stream, rfVars, upVars, came, beat>>
  BY DEF SenderWrites
<1>4. /\ InOrder(rcvQ.items) /\ InOrder(written)
      /\ Before(Elems(written), Elems(rcvQ.items)) /\ Before(Elems(written), {m})
      /\ Before({m}, Elems(rcvQ.items))
      /\ \A x \in Elems(written) \cup Elems(rcvQ.items) \cup {m} : x <= came
      /\ rcvQ.processing = {m}
      /\ \A x \in rcvQ.dirty : x # 0 => x \in Elems(rcvQ.items)
  BY <1>1, <1>3 DEF RadioIInv, OutKept
<1> HIDE DEF m
<1>5. m \notin rcvQ.dirty
  <2>1. m \notin Elems(rcvQ.items)
    BY <1>2, <1>4 DEF Before
  <2> QED BY <1>2, <1>4, <2>1
<1>6. rcvQ'.items = rcvQ.items /\ rcvQ'.processing = {} /\ rcvQ'.dirty = rcvQ.dirty
  BY <1>1, <1>3, <1>4, <1>5 DEF QDone, Requeues, QueueType
<1>7. /\ rcvQ' \in QueueType(0 .. load.msgs)
      /\ sender' \in [Workers(load.role) -> Routine(load.msgs)]
      /\ \A v \in Workers(load.role) : sender'[v].pc # "send" => sender'[v].msg = 0
      /\ sender'[1] = [pc |-> "get", msg |-> 0]
  BY <1>1, <1>3, SenderIsDone DEF m
<1>8. /\ written' \in Seq(1 .. load.msgs) /\ InOrder(written')
      /\ Elems(written') \subseteq Elems(written) \cup {m}
  <2>1. written \in Seq(Nat) /\ m \in Nat
    BY <1>1, <1>2
  <2>2. /\ Append(written, m) \in Seq(1 .. load.msgs) /\ InOrder(Append(written, m))
        /\ Elems(Append(written, m)) = Elems(written) \cup {m}
    <3>1. InOrder(Append(written, m))
      BY <1>4, <2>1, InOrderAppend
    <3>2. Elems(Append(written, m)) = Elems(written) \cup {m}
      BY <2>1, ElemsAppend
    <3>3. Append(written, m) \in Seq(1 .. load.msgs)
      BY <1>1, <1>2
    <3> QED BY <3>1, <3>2, <3>3
  <2> QED BY <1>1, <1>3, <1>4, <2>2
<1>9. OutKept'
  <2>1. Before(Elems(written'), Elems(rcvQ.items)) /\ Before(Elems(written'), {0})
    BY <1>4, <1>8 DEF Before
  <2>2. Before({0}, Elems(rcvQ.items))
    BY DEF Before
  <2>3. \A x \in Elems(written') \cup Elems(rcvQ.items) \cup {0} : x <= came
    BY <1>4, <1>8, 0 <= came DEF RadioIInv, RadioTypeOK
  <2> QED BY <1>1, <1>3, <1>4, <1>6, <1>7, <1>8, <2>1, <2>2, <2>3 DEF OutKept
<1> QED BY <1>3, <1>7, <1>8, <1>9, SenderKeeps

LEMMA SenderRoutesKeeps ==
  ASSUME RadioIInv, NEW w \in Workers(load.role), SenderRoutes(w)
  PROVE  RadioIInv'
<1>1. /\ sender[w].pc = "send" /\ rcvQ' = QDone(rcvQ, sender[w].msg)
      /\ sender' = [sender EXCEPT ![w] = [pc |-> "get", msg |-> 0]]
      /\ UNCHANGED <<load, stopping, stream, rfVars, upVars, came, written, beat>>
      /\ load.role = "master"
  BY DEF SenderRoutes, upVars
<1>2. OutKept'
  BY <1>1 DEF RadioIInv, OutKept
<1>3. written' \in Seq(1 .. load.msgs)
  BY <1>1 DEF RadioIInv, RadioTypeOK
<1>4. /\ rcvQ' \in QueueType(0 .. load.msgs)
      /\ sender' \in [Workers(load.role) -> Routine(load.msgs)]
      /\ \A v \in Workers(load.role) : sender'[v].pc # "send" => sender'[v].msg = 0
  BY <1>1, SenderIsDone
<1> QED BY <1>1, <1>2, <1>3, <1>4, SenderKeeps

-----------------------------------------------------------------------------
(* The invariant.                                                            *)

LEMMA RadioStarts ==
  ASSUME RadioInit
  PROVE  RadioIInv
<1>1. /\ load.role \in {"child", "master"} /\ load.frames \in Nat /\ load.msgs \in Nat
      /\ load.beats \in Nat /\ load \in Loads
  BY LoadsAssumption DEF RadioInit
<1>2. /\ buf \in Seq(Nat) /\ Len(buf) = 0 /\ heard = 0 /\ frameChan \in Seq(Seq(Nat))
      /\ Len(frameChan) = 0 /\ prevEnd = 0 /\ DOMAIN buf = {} /\ DOMAIN frameChan = {}
      /\ delivered \in Seq(1 .. load.frames) /\ written \in Seq(1 .. load.msgs)
      /\ up \in [pc : {"top", "get", "send", "exited"}, env : Seq(1 .. load.frames)]
      /\ up.pc = "top" /\ up.env = <<>> /\ Len(up.env) = 0
  BY DEF RadioInit
<1>3. Pushed = 0 /\ Decoded = 0
  <2>1. heard - Len(buf) = 2 * 0
    BY <1>2
  <2>2. Pushed = 0
    BY <2>1, ByteIs DEF Pushed
  <2> QED BY <1>2, <2>2 DEF Decoded
<1>4. BytesKept
  <2>1. Len(frameChan) <= Pushed /\ Len(buf) <= heard /\ heard - Len(buf) = 2 * Pushed
        /\ prevEnd <= 1
    BY <1>2, <1>3
  <2> QED BY <1>2, <2>1 DEF BytesKept
<1>5. sndQ \in QueueType(0 .. load.frames) /\ rcvQ \in QueueType(0 .. load.msgs)
  BY NewQueueType DEF RadioInit
<1>6. /\ \A w \in Workers(load.role) : /\ proc[w] = [pc |-> "select", msg |-> 0]
                                       /\ hand[w] = [pc |-> "select", msg |-> 0]
                                       /\ sender[w] = [pc |-> "get", msg |-> 0]
      /\ 1 \in Workers(load.role)
  BY <1>1 DEF Workers, RadioInit
<1>7. HandsKept
  BY <1>1, <1>2, <1>6 DEF HandsKept, NewQueue, RadioInit
<1>8. /\ sndQ.items = <<>> /\ rcvQ.items = <<>> /\ rcvQ.processing = {} /\ rcvQ.dirty = {}
      /\ delivered = <<>> /\ written = <<>> /\ came = 0
  BY DEF NewQueue, RadioInit
<1>9. Queued = {}
  BY <1>2, <1>8, EmptyInOrder DEF Queued
<1>10. UpKept
  BY <1>2, <1>3, <1>6, <1>8, <1>9, EmptyInOrder DEF UpKept, Before
<1>11. OutKept
  BY <1>6, <1>8, EmptyInOrder DEF OutKept, Before
<1>12. RadioTypeOK
  <2>1. /\ [pc |-> "select", msg |-> 0] \in Routine(load.frames)
        /\ [pc |-> "get", msg |-> 0] \in Routine(load.msgs)
    BY <1>1 DEF Routine
  <2>2. /\ proc \in [Workers(load.role) -> Routine(load.frames)]
        /\ hand \in [Workers(load.role) -> Routine(load.frames)]
        /\ sender \in [Workers(load.role) -> Routine(load.msgs)]
    BY <2>1 DEF RadioInit
  <2> QED BY <1>1, <1>2, <1>5, <2>2, LoadsAssumption DEF RadioTypeOK, RadioInit
<1> QED BY <1>4, <1>7, <1>10, <1>11, <1>12 DEF RadioIInv

LEMMA RadioStep ==
  ASSUME RadioIInv, [RadioNext]_radioVars
  PROVE  RadioIInv'
<1>1. CASE UNCHANGED radioVars
  <2>1. /\ stopping' \in {"no", "queues", "killed", "over", "crashed"} /\ stream' \in BOOLEAN
        /\ mu' \in {"free", "update", "receive"}
        /\ beat' \in [pc : {"none", "wait", "send", "exited"}, version : 0 .. load.beats]
    BY <1>1 DEF radioVars, rfVars, outVars, RadioIInv, RadioTypeOK
  <2> QED BY <1>1, <2>1, AsideKeeps DEF radioVars, rfVars, outVars
<1>2. CASE Receive
  BY <1>2, AsideSteps, ReadsKeeps, PushesKeeps DEF Receive
<1>3. CASE Up \/ StopQueues
  BY <1>3, UpTurnsKeeps, UpGetsKeeps, UpSendsKeeps, AsideSteps DEF Up
<1>4. CASE StreamBreaks \/ BeatTicks \/ BeatWrites \/ BeatExits \/ StopKills \/ MainReturns
  BY <1>4, AsideSteps
<1>5. CASE DaemonSends
  BY <1>5, DaemonSendsKeeps
<1>6. ASSUME NEW w \in Workers(load.role), Works(w) PROVE RadioIInv'
  BY <1>6, DecodesKeeps, AsideSteps, HandlerAddsKeeps, RoutineExitsKeeps, HandsOverKeeps
     DEF Works
<1>7. ASSUME NEW w \in Workers(load.role), Sends(w) PROVE RadioIInv'
  BY <1>7, SenderGetsKeeps, SenderWritesKeeps, AsideSteps, SenderRoutesKeeps DEF Sends
<1> QED BY <1>1, <1>2, <1>3, <1>4, <1>5, <1>6, <1>7 DEF RadioNext

\* What the run checks follows.
LEMMA RadioImplies ==
  ASSUME RadioIInv
  PROVE  RadioInv
<1>1. /\ load.frames \in Nat /\ Len(frameChan) \in Nat /\ Len(buf) \in Nat /\ heard \in Nat
      /\ frameChan \in Seq(Seq(Nat)) /\ delivered \in Seq(1 .. load.frames)
      /\ written \in Seq(1 .. load.msgs) /\ load.msgs \in Nat
  BY RadioFacts DEF RadioIInv, HandsKept, RadioTypeOK
<1>2. FramesWhole
  <2>1. SUFFICES ASSUME NEW k \in 1 .. Len(frameChan) PROVE frameChan[k] \in Frames
    BY <1>1 DEF FramesWhole, Elems
  <2>2. frameChan[k] = <<Decoded + k, 0>>
    BY <1>1 DEF RadioIInv, BytesKept
  <2>3. Decoded + k \in 1 .. load.frames
    <3>1. /\ Pushed \in Nat /\ Decoded \in Nat /\ heard - Len(buf) = 2 * Pushed
          /\ heard <= 2 * load.frames
      BY <1>1, NothingWhole DEF RadioIInv, HandsKept, BytesKept, RadioTypeOK
    <3> QED BY SMTT(30), <1>1, <3>1 DEF Decoded
  <2> QED BY <2>2, <2>3 DEF Frames
<1>3. DeliveredInOrder
  <2>1. \A k \in DOMAIN delivered : delivered[k] \in 1 .. load.frames
    BY <1>1
  <2> QED BY <2>1 DEF RadioIInv, UpKept, InOrder, DeliveredInOrder, Increasing
<1>4. WrittenInOrder
  <2>1. InOrder(written)
    BY <1>1, RadioFacts, EmptyInOrder DEF RadioIInv, OutKept, HandsKept
  <2>2. \A k \in DOMAIN written : written[k] \in 1 .. load.msgs
    BY <1>1
  <2> QED BY <2>1, <2>2 DEF InOrder, WrittenInOrder, Increasing
<1> QED BY <1>2, <1>3, <1>4 DEF RadioIInv, RadioInv

\* Wherever the reads cut the bytes, and however the routines of Receive, of the queues
\* and of Stop interleave: exactly the frames that were sent reach frameChan, whole, and
\* a child keeps the order of the messages in both directions and doubles none
\* (rfhook.go:55-140, children.go:71-144).
THEOREM RadioKeepsOrder == RadioSpec => []RadioInv
<1>1. RadioInit => RadioIInv
  BY RadioStarts
<1>2. RadioIInv /\ [RadioNext]_radioVars => RadioIInv'
  BY RadioStep
<1>3. RadioIInv => RadioInv
  BY RadioImplies
<1> QED BY <1>1, <1>2, <1>3, PTL DEF RadioSpec

=============================================================================
