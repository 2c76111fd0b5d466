------------------------------ MODULE MsgQueue ------------------------------
(***************************************************************************)
(* The goroutines around one message.Queue (common/message/queue.go).      *)
(*                                                                         *)
(* Every method holds condition.L from its first to its last line, except  *)
(* that Get gives it up inside condition.Wait: so each method is one       *)
(* action, and Get is one action per way out of its loop test.  Producers  *)
(* have no state between two calls of Add, so they are left implicit.      *)
(* Consumers run the loop every user of a queue runs:                      *)
(*     for { m, shutdown := q.Get(); if shutdown { return }; ...; q.Done(m) } *)
(***************************************************************************)
EXTENDS Naturals, FiniteSets, QueueOps

CONSTANTS Ids,        \* message IDs {Type, SubType, Version, Qualifier}
          Consumers,  \* goroutines that call Get and Done
          None,       \* no message held
          MaxLen      \* bound: producers pause while this many items are queued

ASSUME IdsAssumption == None \notin Ids
ASSUME ConsumersAssumption == IsFiniteSet(Consumers)
ASSUME MaxLenAssumption == MaxLen \in Nat

VARIABLES q,          \* the Queue struct
          pc,         \* where each consumer is
          held        \* the message each consumer got and is not done with

vars == <<q, pc, held>>

\* "get": about to test the loop condition of Get, either on entry or after
\* Wait returned.  "wait": inside condition.Wait.  "busy": between Get and Done.
\* "exited": Get reported the shutdown and the goroutine returned.
PCs == {"get", "wait", "busy", "exited"}

In(l) == {c \in Consumers : pc[c] = l}

Init ==
  /\ q = NewQueue
  /\ pc = [c \in Consumers |-> "get"]
  /\ held = [c \in Consumers |-> None]

-----------------------------------------------------------------------------
\* condition.Signal: one of the waiting goroutines, if there is one, returns
\* from Wait; p is where the consumers are when Signal is called.
Signal(p) ==
  LET waiting == {c \in Consumers : p[c] = "wait"}
  IN IF waiting = {} THEN pc' = p
     ELSE \E c \in waiting : pc' = [p EXCEPT ![c] = "get"]

\* Mutant of Broadcast: ShutDown calls Signal.
BroadcastToOne == Signal(pc)

\* condition.Broadcast: all of them do.
Broadcast == pc' = [c \in Consumers |-> IF pc[c] = "wait" THEN "get" ELSE pc[c]]

\* Mutant of Add: it does not signal.
AddQuietly(i) ==
  /\ Appends(q, i) => Len(q.items) < MaxLen
  /\ q' = QAdd(q, i)
  /\ UNCHANGED <<pc, held>>

Add(i) ==
  /\ Appends(q, i) => Len(q.items) < MaxLen
  /\ q' = QAdd(q, i)
  /\ IF Appends(q, i) THEN Signal(pc) ELSE UNCHANGED pc
  /\ UNCHANGED held

GetTake(c) ==
  /\ pc[c] = "get"
  /\ q.items # <<>>
  /\ q' = QTake(q)
  /\ held' = [held EXCEPT ![c] = Head(q.items)]
  /\ pc' = [pc EXCEPT ![c] = "busy"]

GetWait(c) ==
  /\ pc[c] = "get"
  /\ q.items = <<>> /\ ~q.closed
  /\ pc' = [pc EXCEPT ![c] = "wait"]
  /\ UNCHANGED <<q, held>>

\* Mutant of GetShutdown: a closed queue is left before it is drained.
GetShutdownAtOnce(c) ==
  /\ pc[c] = "get"
  /\ q.closed
  /\ pc' = [pc EXCEPT ![c] = "exited"]
  /\ UNCHANGED <<q, held>>

GetShutdown(c) ==
  /\ pc[c] = "get"
  /\ q.items = <<>> /\ q.closed
  /\ pc' = [pc EXCEPT ![c] = "exited"]
  /\ UNCHANGED <<q, held>>

\* Mutant of Done: the consumer goes on with the message it is done with.
DoneKeepsHeld(c) ==
  /\ pc[c] = "busy"
  /\ q' = QDone(q, held[c])
  /\ UNCHANGED held
  /\ LET p == [pc EXCEPT ![c] = "get"]
     IN IF Requeues(q, held[c]) THEN Signal(p) ELSE pc' = p

Done(c) ==
  /\ pc[c] = "busy"
  /\ q' = QDone(q, held[c])
  /\ held' = [held EXCEPT ![c] = None]
  /\ LET p == [pc EXCEPT ![c] = "get"]
     IN IF Requeues(q, held[c]) THEN Signal(p) ELSE pc' = p

ShutDown ==
  /\ q' = QShutDown(q)
  /\ Broadcast
  /\ UNCHANGED held

Consume(c) == GetTake(c) \/ GetWait(c) \/ GetShutdown(c) \/ Done(c)

Next == \/ \E i \in Ids : Add(i)
        \/ \E c \in Consumers : Consume(c)
        \/ ShutDown

\* A runnable goroutine is scheduled eventually; producers and the caller of
\* ShutDown owe nothing.
Fairness == \A c \in Consumers : WF_vars(Consume(c))

Spec == Init /\ [][Next]_vars
FairSpec == Spec /\ Fairness

-----------------------------------------------------------------------------
TypeOK ==
  /\ q \in QueueType(Ids)
  /\ pc \in [Consumers -> PCs]
  /\ held \in [Consumers -> Ids \cup {None}]
  /\ \A c \in Consumers : held[c] # None <=> pc[c] = "busy"

\* Add ignores a message whose ID is dirty, so a dirty ID that nothing will
\* hand out again silences that message for the rest of the queue's life.
\* Every dirty ID is therefore in the queue or owned by a consumer whose Done
\* will queue it (queue.go:54-61 against 86-95), also with several consumers
\* holding the same ID.
NoRequestStranded ==
  /\ q.dirty \subseteq Elems(q.items) \cup q.processing
  /\ \A i \in q.processing : \E c \in Consumers : held[c] = i

\* Add and Done call Signal, not Broadcast, and a consumer that did not wait
\* may take the item a woken one was meant to get.  Still no item is left
\* queued while consumers sleep: for each one a consumer is awake and on its
\* way to the loop test of Get (queue.go:62-63, 69-74, 94-95).
NoLostWakeup ==
  In("wait") # {} => Len(q.items) <= Cardinality(In("get"))

\* Nobody sleeps through a shutdown (queue.go:98-104 against 69-74).
NoSleeperAfterShutdown == q.closed => In("wait") = {}

\* Done may queue an item after other consumers saw the empty, closed queue
\* and returned; the consumer that called Done still drains it.  When all have
\* returned, nothing is queued, promised or in process (queue.go:75-78, 92-94).
NothingLeftBehind ==
  Consumers # {} /\ In("exited") = Consumers =>
    q.items = <<>> /\ q.dirty = {} /\ q.processing = {}

\* A consumer returns from its loop only out of a closed and empty queue, and
\* what Done queues afterwards has a consumer that has not returned: the one
\* that called Done (queue.go:75-78, 92-94).
ExitsAfterShutdown ==
  /\ In("exited") # {} => q.closed
  /\ Consumers # {} /\ In("exited") = Consumers => q.items = <<>>

\* The inductive invariant behind all of the above.
IInv ==
  /\ TypeOK
  /\ NoRequestStranded
  /\ NoSleeperAfterShutdown
  /\ ExitsAfterShutdown
  /\ NoLostWakeup

\* Every accepted request is handed to a consumer: an ID does not stay dirty.
RequestsServed == \A i \in Ids : i \in q.dirty ~> i \notin q.dirty

\* After ShutDown every consumer finishes its item and returns.
ShutdownDrains ==
  q.closed ~> \A c \in Consumers : pc[c] = "exited"

-----------------------------------------------------------------------------
\* The promise the queue implements: a request is pending while it is dirty or
\* queued, whichever way it came there.
Pool == INSTANCE WorkPool WITH
          Workers <- Consumers,
          Idle    <- None,
          pending <- q.dirty \cup Elems(q.items),
          job     <- held,
          open    <- ~q.closed,
          gone    <- In("exited")

\* Each step of the queue is a step of the pool or leaves the pool alone: a
\* request leaves only to a consumer, none is made after ShutDown, and a
\* consumer returns only when no request is left that is not owned by a busy
\* one.
ImplementsPool == Pool!Safety
ImplementsFairPool == Pool!Spec

-----------------------------------------------------------------------------
\* queue.go:4: "a single item will not be processed multiple times
\* concurrently".  Checked against the code, which breaks it.
Stingy == \A c, d \in Consumers : c # d /\ held[c] = held[d] => held[c] = None

=============================================================================
