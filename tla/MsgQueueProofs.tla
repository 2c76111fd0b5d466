-------------------------- MODULE MsgQueueProofs ----------------------------
(***************************************************************************)
(* Proofs about MsgQueue for every set of message IDs, every finite set of *)
(* consumers and every bound on the length of the queue; and about Lirc, a *)
(* controller that counts on its queue, for all that lircd may send.       *)
(***************************************************************************)
EXTENDS MsgQueue, Lirc, DataLemmas, FiniteSetTheorems

-----------------------------------------------------------------------------
(* Type correctness. *)

\* condition.Signal moves at most one consumer, from "wait" to "get".
LEMMA SignalEffect ==
  ASSUME NEW p \in [Consumers -> PCs], Signal(p)
  PROVE  /\ pc' \in [Consumers -> PCs]
         /\ \A c \in Consumers :
              pc'[c] = p[c] \/ (p[c] = "wait" /\ pc'[c] = "get")
BY DEF Signal, PCs

\* Done sends its caller back to Get and may wake one waiting consumer.
LEMMA DoneEffect ==
  ASSUME TypeOK, NEW c \in Consumers, Done(c)
  PROVE  /\ pc' \in [Consumers -> PCs]
         /\ pc'[c] = "get"
         /\ \A d \in Consumers \ {c} :
              pc'[d] = pc[d] \/ (pc[d] = "wait" /\ pc'[d] = "get")
<1> DEFINE p == [pc EXCEPT ![c] = "get"]
<1>1. p \in [Consumers -> PCs]
  BY DEF TypeOK, PCs
<1>2. /\ pc' \in [Consumers -> PCs]
      /\ \A d \in Consumers :
           pc'[d] = p[d] \/ (p[d] = "wait" /\ pc'[d] = "get")
  <2>1. CASE Requeues(q, held[c])
    <3>1. Signal(p)
      BY <2>1 DEF Done
    <3> HIDE DEF p
    <3> QED BY <3>1, <1>1, SignalEffect
  <2>2. CASE ~Requeues(q, held[c])
    BY <2>2, <1>1 DEF Done
  <2> QED BY <2>1, <2>2
<1> QED BY <1>1, <1>2 DEF TypeOK

\* No step leaves the types: one step per action.
LEMMA TypeStep == TypeOK /\ [Next]_vars => TypeOK'
<1> SUFFICES ASSUME TypeOK, [Next]_vars
             PROVE  TypeOK'
  OBVIOUS
<1> USE DEF TypeOK
<1>1. ASSUME NEW i \in Ids, Add(i)
      PROVE  TypeOK'
  <2>1. q' \in QueueType(Ids)
    BY <1>1, QueueOpsType DEF Add
  <2>2. CASE Appends(q, i)
    BY <1>1, <2>1, <2>2, SignalEffect DEF Add
  <2>3. CASE ~Appends(q, i)
    BY <1>1, <2>1, <2>3 DEF Add
  <2> QED BY <2>2, <2>3
<1>2. ASSUME NEW c \in Consumers, GetTake(c)
      PROVE  TypeOK'
  <2>1. q' \in QueueType(Ids) /\ Head(q.items) \in Ids
    BY <1>2, QTakeType DEF GetTake
  <2> QED BY <1>2, <2>1, IdsAssumption DEF GetTake, PCs
<1>3. ASSUME NEW c \in Consumers, GetWait(c)
      PROVE  TypeOK'
  BY <1>3 DEF GetWait, PCs
<1>4. ASSUME NEW c \in Consumers, GetShutdown(c)
      PROVE  TypeOK'
  BY <1>4 DEF GetShutdown, PCs
<1>5. ASSUME NEW c \in Consumers, Done(c)
      PROVE  TypeOK'
  <2>1. held[c] \in Ids
    BY <1>5 DEF Done
  <2>2. q' \in QueueType(Ids)
    BY <1>5, <2>1, QueueOpsType DEF Done
  <2>3. \A d \in Consumers : held'[d] # None <=> pc'[d] = "busy"
    BY <1>5, DoneEffect DEF Done, PCs
  <2> QED BY <1>5, <2>2, <2>3, DoneEffect DEF Done
<1>6. CASE ShutDown
  <2>1. q' \in QueueType(Ids)
    BY <1>6 DEF ShutDown, QueueType, QShutDown
  <2> QED BY <1>6, <2>1 DEF ShutDown, Broadcast, PCs
<1>7. CASE UNCHANGED vars
  BY <1>7 DEF vars
<1> QED
  BY <1>1, <1>2, <1>3, <1>4, <1>5, <1>6, <1>7 DEF Next, Consume

\* Every reachable state is well typed, and a consumer holds a message exactly
\* between its Get and its Done.
THEOREM TypeCorrect == Spec => []TypeOK
<1>1. Init => TypeOK
  BY IdsAssumption DEF Init, TypeOK, QueueType, NewQueue, PCs
<1>2. TypeOK /\ [Next]_vars => TypeOK'
  BY TypeStep
<1> QED BY <1>1, <1>2, PTL DEF Spec

-----------------------------------------------------------------------------
(* The inductive invariant, one lemma for each conjunct. *)

\* Done and Get keep every dirty ID in the queue or with a consumer.
LEMMA StrandedStep ==
  ASSUME TypeOK, TypeOK', NoRequestStranded, [Next]_vars
  PROVE  NoRequestStranded'
<1> USE DEF TypeOK, NoRequestStranded, QueueType
<1>1. ASSUME NEW i \in Ids, Add(i)
      PROVE  NoRequestStranded'
  <2>1. /\ q'.processing = q.processing
        /\ held' = held
    BY <1>1 DEF Add, QAdd
  <2>2. CASE Appends(q, i)
    <3>1. q'.dirty = q.dirty \cup {i} /\ q'.items = Append(q.items, i)
      BY <1>1, <2>2 DEF Add, QAdd, Appends
    <3>2. Elems(q'.items) = Elems(q.items) \cup {i}
      BY <3>1, ElemsAppend
    <3> QED BY <2>1, <3>1, <3>2
  <2>3. CASE ~Appends(q, i)
    <3>1. q'.items = q.items /\ q'.dirty \subseteq q.dirty \cup q.processing
      BY <1>1, <2>3 DEF Add, QAdd, Appends
    <3> QED BY <2>1, <3>1
  <2> QED BY <2>2, <2>3
<1>2. ASSUME NEW c \in Consumers, GetTake(c)
      PROVE  NoRequestStranded'
  <2> DEFINE h == Head(q.items)
  <2>1. /\ q'.items = Tail(q.items)
        /\ q'.dirty = q.dirty \ {h}
        /\ q'.processing = q.processing \cup {h}
        /\ held' = [held EXCEPT ![c] = h]
        /\ held[c] = None
    BY <1>2 DEF GetTake, QTake
  <2>2. Elems(q.items) \subseteq Elems(Tail(q.items)) \cup {h}
    BY <1>2, ElemsTail DEF GetTake
  <2>3. q'.dirty \subseteq Elems(q'.items) \cup q'.processing
    BY <2>1, <2>2
  <2>4. \A i \in q'.processing : \E d \in Consumers : held'[d] = i
    BY <2>1, IdsAssumption
  <2> QED BY <2>3, <2>4
<1>3. ASSUME NEW c \in Consumers, Done(c)
      PROVE  NoRequestStranded'
  <2> DEFINE m == held[c]
  <2>1. /\ m \in Ids
        /\ q'.processing = q.processing \ {m}
        /\ q'.dirty = q.dirty \ {m}
        /\ q'.items = q.items \/ q'.items = Append(q.items, m)
        /\ held' = [held EXCEPT ![c] = None]
    BY <1>3 DEF Done, QDone
  <2>2. Elems(q.items) \subseteq Elems(q'.items)
    <3> HIDE DEF m
    <3>1. Elems(Append(q.items, m)) = Elems(q.items) \cup {m}
      BY <2>1, ElemsAppend
    <3> QED BY <2>1, <3>1
  <2> QED BY <2>1, <2>2
<1>4. CASE ShutDown
  BY <1>4 DEF ShutDown, QShutDown
<1>5. ASSUME UNCHANGED <<q, held>>
      PROVE  NoRequestStranded'
  BY <1>5
<1> QED
  BY <1>1, <1>2, <1>3, <1>4, <1>5 DEF Next, Consume, GetWait, GetShutdown, vars


\* While a consumer waits, an item is added only together with a wake-up.
LEMMA SleeperStep ==
  ASSUME TypeOK, NoSleeperAfterShutdown, ExitsAfterShutdown, [Next]_vars
  PROVE  NoSleeperAfterShutdown'
<1> USE DEF TypeOK, NoSleeperAfterShutdown, In, PCs
<1>1. ASSUME NEW i \in Ids, Add(i)
      PROVE  NoSleeperAfterShutdown'
  <2>1. q'.closed = q.closed
    BY <1>1 DEF Add, QAdd, QueueType
  <2>2. CASE Appends(q, i)
    BY <1>1, <2>1, <2>2, SignalEffect DEF Add
  <2>3. CASE ~Appends(q, i)
    BY <1>1, <2>1, <2>3 DEF Add
  <2> QED BY <2>2, <2>3
<1>2. ASSUME NEW c \in Consumers, GetTake(c)
      PROVE  NoSleeperAfterShutdown'
  BY <1>2 DEF GetTake, QTake, QueueType
<1>3. ASSUME NEW c \in Consumers, GetWait(c)
      PROVE  NoSleeperAfterShutdown'
  BY <1>3 DEF GetWait
<1>4. ASSUME NEW c \in Consumers, GetShutdown(c)
      PROVE  NoSleeperAfterShutdown'
  BY <1>4 DEF GetShutdown
<1>5. ASSUME NEW c \in Consumers, Done(c)
      PROVE  NoSleeperAfterShutdown'
  <2>1. q'.closed = q.closed
    BY <1>5 DEF Done, QDone, QueueType
  <2>2. \A d \in Consumers : pc'[d] = "wait" => pc[d] = "wait"
    BY <1>5, DoneEffect
  <2> QED BY <2>1, <2>2
<1>6. CASE ShutDown
  BY <1>6 DEF ShutDown, Broadcast
<1>7. CASE UNCHANGED vars
  BY <1>7 DEF vars
<1> QED BY <1>1, <1>2, <1>3, <1>4, <1>5, <1>6, <1>7 DEF Next, Consume

\* Nobody returns from an open queue, and the last one to return leaves it
\* empty.
LEMMA ExitsStep ==
  ASSUME TypeOK, NoSleeperAfterShutdown, ExitsAfterShutdown, [Next]_vars
  PROVE  ExitsAfterShutdown'
<1> USE DEF TypeOK, ExitsAfterShutdown, In, PCs
<1>1. ASSUME NEW i \in Ids, Add(i)
      PROVE  ExitsAfterShutdown'
  <2>1. CASE Appends(q, i)
    <3>1. ~q.closed /\ ~q'.closed
      BY <1>1, <2>1 DEF Appends, Accepts, Add, QAdd, QueueType
    <3>2. In("exited")' = {} /\ In("exited") = {}
      BY <1>1, <2>1, <3>1, SignalEffect DEF Add
    <3> QED BY <3>2
  <2>2. CASE ~Appends(q, i)
    BY <1>1, <2>2 DEF Add, QAdd, QueueType
  <2> QED BY <2>1, <2>2
<1>2. ASSUME NEW c \in Consumers, GetTake(c)
      PROVE  ExitsAfterShutdown'
  <2>1. q'.closed = q.closed /\ pc' = [pc EXCEPT ![c] = "busy"]
    BY <1>2 DEF GetTake, QTake, QueueType
  <2> QED BY <2>1
<1>3. ASSUME NEW c \in Consumers, GetWait(c)
      PROVE  ExitsAfterShutdown'
  BY <1>3 DEF GetWait
<1>4. ASSUME NEW c \in Consumers, GetShutdown(c)
      PROVE  ExitsAfterShutdown'
  BY <1>4 DEF GetShutdown
<1>5. ASSUME NEW c \in Consumers, Done(c)
      PROVE  ExitsAfterShutdown'
  <2>1. q'.closed = q.closed
    BY <1>5 DEF Done, QDone, QueueType
  <2>2. /\ pc'[c] = "get"
        /\ \A d \in Consumers : pc'[d] = "exited" => pc[d] = "exited"
    BY <1>5, DoneEffect
  <2> QED BY <2>1, <2>2
<1>6. CASE ShutDown
  BY <1>6 DEF ShutDown, Broadcast, QShutDown, QueueType
<1>7. CASE UNCHANGED vars
  BY <1>7 DEF vars
<1> QED BY <1>1, <1>2, <1>3, <1>4, <1>5, <1>6, <1>7 DEF Next, Consume

\* The set of consumers at a label is finite, and grows or shrinks by one.
LEMMA InFinite ==
  ASSUME NEW l
  PROVE  /\ IsFiniteSet(In(l)) /\ Cardinality(In(l)) \in Nat
         /\ \A c : c \notin In(l) =>
              /\ IsFiniteSet(In(l) \cup {c})
              /\ Cardinality(In(l) \cup {c}) = Cardinality(In(l)) + 1
         /\ \A c \in In(l) : Cardinality(In(l) \ {c}) = Cardinality(In(l)) - 1
<1>1. IsFiniteSet(In(l))
  BY ConsumersAssumption, FS_Subset DEF In
<1> QED BY <1>1, FS_AddElement, FS_RemoveElement, FS_CardinalityType

\* Each item queued while consumers sleep comes with a consumer woken for it.
LEMMA LostWakeupStep ==
  ASSUME TypeOK, TypeOK', NoSleeperAfterShutdown, NoLostWakeup, [Next]_vars
  PROVE  NoLostWakeup'
<1> SUFFICES ASSUME In("wait")' # {}
             PROVE  Len(q'.items) <= Cardinality(In("get")')
  BY DEF NoLostWakeup
<1> DEFINE W == In("wait")
           G == In("get")
<1>0. /\ Len(q.items) \in Nat /\ Len(q'.items) \in Nat
      /\ pc \in [Consumers -> PCs]
      /\ q.items \in Seq(Ids)
  BY DEF TypeOK, QueueType
<1>1. ASSUME NEW i \in Ids, Add(i)
      PROVE  Len(q'.items) <= Cardinality(G')
  <2>1. CASE Appends(q, i)
    <3>1. Len(q'.items) = Len(q.items) + 1
      BY <1>0, <1>1, <2>1 DEF Add, QAdd, Appends, TypeOK, QueueType
    <3>2. W # {}
      BY <1>1, <2>1 DEF Add, Signal, In
    <3>3. PICK c \in W : pc' = [pc EXCEPT ![c] = "get"]
      BY <1>1, <2>1, <3>2 DEF Add, Signal, In
    <3>4. G' = G \cup {c} /\ c \notin G
      BY <1>0, <3>3 DEF In
    <3>5. Cardinality(G') = Cardinality(G) + 1
      BY <3>4, InFinite
    <3> QED BY <1>0, <3>1, <3>2, <3>5, InFinite DEF NoLostWakeup
  <2>2. CASE ~Appends(q, i)
    <3>1. q'.items = q.items /\ pc' = pc
      BY <1>1, <2>2 DEF Add, QAdd, TypeOK, QueueType
    <3> QED BY <3>1 DEF NoLostWakeup, In
  <2> QED BY <2>1, <2>2
<1>2. ASSUME NEW c \in Consumers, GetTake(c)
      PROVE  Len(q'.items) <= Cardinality(G')
  <2>1. Len(q'.items) = Len(q.items) - 1
    BY <1>0, <1>2 DEF GetTake, QTake, TypeOK, QueueType
  <2>2. W' = W /\ G' = G \ {c} /\ c \in G
    BY <1>0, <1>2 DEF GetTake, In, PCs
  <2>3. Cardinality(G') = Cardinality(G) - 1
    BY <2>2, InFinite
  <2> QED BY <1>0, <2>1, <2>2, <2>3, InFinite DEF NoLostWakeup
<1>3. ASSUME NEW c \in Consumers, GetWait(c)
      PROVE  Len(q'.items) <= Cardinality(G')
  <2>1. Len(q'.items) = 0 /\ G' \subseteq G
    BY <1>0, <1>3 DEF GetWait, In
  <2>2. Cardinality(G') \in Nat
    BY <2>1, InFinite, FS_Subset, FS_CardinalityType
  <2> QED BY <2>1, <2>2
<1>4. ASSUME NEW c \in Consumers, GetShutdown(c)
      PROVE  FALSE
  <2>1. W' \subseteq W
    BY <1>0, <1>4 DEF GetShutdown, In
  <2> QED BY <1>4, <2>1 DEF GetShutdown, NoSleeperAfterShutdown
<1>5. ASSUME NEW c \in Consumers, Done(c)
      PROVE  Len(q'.items) <= Cardinality(G')
  <2> DEFINE p == [pc EXCEPT ![c] = "get"]
  <2>0. c \notin G /\ pc[c] # "wait" /\ held[c] \in Ids
    BY <1>5 DEF Done, In, TypeOK
  <2>1. Cardinality(G \cup {c}) = Cardinality(G) + 1 /\ IsFiniteSet(G \cup {c})
    BY <2>0, InFinite
  <2>2. CASE Requeues(q, held[c])
    <3>1. Len(q'.items) = Len(q.items) + 1
      BY <1>0, <1>5, <2>0, <2>2 DEF Done, QDone, TypeOK, QueueType
    <3>2. W = {d \in Consumers : p[d] = "wait"}
      BY <1>0, <2>0 DEF In
    <3>3. Signal(p)
      BY <1>5, <2>2 DEF Done
    <3>4. W # {}
      BY <1>0, <3>2, <3>3 DEF Signal, In
    <3>5. PICK d \in W : pc' = [p EXCEPT ![d] = "get"]
      BY <3>2, <3>3, <3>4 DEF Signal
    <3>6. G' = (G \cup {c}) \cup {d} /\ d \notin G \cup {c}
      BY <1>0, <2>0, <3>5 DEF In
    <3>7. Cardinality((G \cup {c}) \cup {d}) = Cardinality(G \cup {c}) + 1
      BY <2>1, <3>6, FS_AddElement
    <3>8. Cardinality(G) \in Nat /\ Cardinality(G') = Cardinality(G) + 2
      <4>1. Cardinality(G) \in Nat
        BY InFinite
      <4>2. Cardinality(G') = Cardinality((G \cup {c}) \cup {d})
        BY <3>6
      <4> HIDE DEF G
      <4> QED BY <2>1, <3>7, <4>1, <4>2
    <3> QED BY <1>0, <3>1, <3>4, <3>8 DEF NoLostWakeup
  <2>3. CASE ~Requeues(q, held[c])
    <3>1. q'.items = q.items /\ pc' = p
      BY <1>5, <2>3 DEF Done, QDone, TypeOK, QueueType
    <3>2. W' = W /\ G' = G \cup {c}
      BY <1>0, <2>0, <3>1 DEF In
    <3>3. Len(q.items) <= Cardinality(G) /\ Cardinality(G) \in Nat
      BY <3>2, InFinite DEF NoLostWakeup
    <3>4. Cardinality(G') = Cardinality(G) + 1
      BY <2>1, <3>2
    <3> QED BY <1>0, <3>1, <3>3, <3>4
  <2> QED BY <2>2, <2>3
<1>6. CASE ShutDown
  <2>1. W' = {}
    BY <1>0, <1>6 DEF ShutDown, Broadcast, In
  <2> QED BY <2>1
<1>7. CASE UNCHANGED vars
  BY <1>7 DEF vars, In, NoLostWakeup
<1> QED
  BY <1>1, <1>2, <1>3, <1>4, <1>5, <1>6, <1>7 DEF Next, Consume

-----------------------------------------------------------------------------
(* The theorems. *)

\* The invariant is inductive.
THEOREM Inductive == Spec => []IInv
<1>1. Init => IInv
  <2> SUFFICES ASSUME Init PROVE IInv
    OBVIOUS
  <2>1. TypeOK
    BY IdsAssumption DEF Init, TypeOK, QueueType, NewQueue, PCs
  <2>2. In("wait") = {} /\ In("exited") = {}
    BY DEF Init, In
  <2>3. q.items = <<>>
    BY DEF Init, NewQueue
  <2> QED
    BY <2>1, <2>2, <2>3 DEF IInv, NoRequestStranded, NoSleeperAfterShutdown,
       ExitsAfterShutdown, NoLostWakeup, Init, NewQueue
<1>2. IInv /\ [Next]_vars => IInv'
  BY TypeStep, StrandedStep, SleeperStep, ExitsStep, LostWakeupStep DEF IInv
<1> QED BY <1>1, <1>2, PTL DEF Spec

\* No accepted request is lost inside the queue (queue.go:47-64, 86-95).
THEOREM RequestsKept == Spec => []NoRequestStranded
<1>1. IInv => NoRequestStranded
  BY DEF IInv
<1> QED BY <1>1, Inductive, PTL

\* Signal suffices: no item waits while all consumers sleep (queue.go:63, 95).
THEOREM WakeupsSuffice == Spec => []NoLostWakeup
<1>1. IInv => NoLostWakeup
  BY DEF IInv
<1> QED BY <1>1, Inductive, PTL

\* The drain promised by the comment at queue.go:70-72: when the last consumer
\* has returned, nothing is left.
THEOREM ShutdownLeavesNothing == Spec => []NothingLeftBehind
<1>1. IInv => NothingLeftBehind
  <2> SUFFICES ASSUME IInv, Consumers # {}, In("exited") = Consumers
               PROVE  q.items = <<>> /\ q.dirty = {} /\ q.processing = {}
    BY DEF NothingLeftBehind
  <2>1. q.items = <<>>
    BY DEF IInv, ExitsAfterShutdown
  <2>2. \A c \in Consumers : held[c] = None
    BY DEF IInv, TypeOK, In
  <2>3. q.processing = {}
    BY <2>2, IdsAssumption DEF IInv, TypeOK, QueueType, NoRequestStranded
  <2>4. Elems(q.items) = {}
    BY <2>1 DEF Elems
  <2> QED BY <2>1, <2>3, <2>4 DEF IInv, NoRequestStranded
<1> QED BY <1>1, Inductive, PTL

-----------------------------------------------------------------------------
(* Refinement: the queue implements the pool of requests. *)

\* The set of requests a queue stands for.
Pending(r) == r.dirty \cup Elems(r.items)

\* One step of the queue is one step of the pool, or none.
LEMMA StepSimulation ==
  ASSUME TypeOK, TypeOK', NoRequestStranded, NoSleeperAfterShutdown, [Next]_vars
  PROVE  [Pool!Next]_(Pool!vars)
<1> DEFINE X == In("exited")
<1>0. /\ q \in QueueType(Ids) /\ q.items \in Seq(Ids)
      /\ pc \in [Consumers -> PCs]
  BY DEF TypeOK, QueueType
<1>1. ASSUME NEW i \in Ids, Add(i)
      PROVE  Pool!Request(i) \/ UNCHANGED Pool!vars
  <2>1. held' = held /\ q'.closed = q.closed
    BY <1>0, <1>1 DEF Add, QAdd, QueueType
  <2>2. X' = X
    <3>1. CASE Appends(q, i)
      BY <1>0, <1>1, <3>1, SignalEffect DEF Add, In
    <3>2. CASE ~Appends(q, i)
      BY <1>1, <3>2 DEF Add, In
    <3> QED BY <3>1, <3>2
  <2>3. CASE Accepts(q, i)
    <3>1. Pending(q') = Pending(q) \cup {i}
      <4>1. q'.dirty = q.dirty \cup {i}
        BY <1>0, <1>1, <2>3 DEF Add, QAdd, QueueType
      <4>2. q'.items = q.items \/ q'.items = Append(q.items, i)
        BY <1>0, <1>1, <2>3 DEF Add, QAdd, QueueType
      <4>3. Elems(Append(q.items, i)) = Elems(q.items) \cup {i}
        BY <1>0, ElemsAppend
      <4> QED BY <4>1, <4>2, <4>3 DEF Pending
    <3> QED BY <2>1, <2>2, <2>3, <3>1 DEF Pool!Request, Pending, Accepts
  <2>4. CASE ~Accepts(q, i)
    <3>1. q' = q
      BY <1>1, <2>4 DEF Add, QAdd
    <3> QED BY <2>1, <2>2, <3>1 DEF Pool!vars
  <2> QED BY <2>3, <2>4
<1>2. ASSUME NEW c \in Consumers, GetTake(c)
      PROVE  Pool!Start(c, Head(q.items))
  <2> DEFINE h == Head(q.items)
  <2>1. /\ q'.items = Tail(q.items) /\ q'.dirty = q.dirty \ {h}
        /\ q'.closed = q.closed /\ X' = X /\ c \notin X
        /\ held[c] = None /\ held' = [held EXCEPT ![c] = h]
    BY <1>0, <1>2 DEF GetTake, QTake, QueueType, In, PCs, TypeOK
  <2>2. /\ h \in Elems(q.items)
        /\ Elems(Tail(q.items)) \subseteq Elems(q.items)
        /\ Elems(q.items) \subseteq Elems(Tail(q.items)) \cup {h}
    BY <1>0, <1>2, ElemsTail DEF GetTake
  <2>3. Pending(q') \in {Pending(q), Pending(q) \ {h}}
    BY <2>1, <2>2 DEF Pending
  <2> QED BY <2>1, <2>2, <2>3 DEF Pool!Start, Pending
<1>3. ASSUME NEW c \in Consumers, GetWait(c)
      PROVE  UNCHANGED Pool!vars
  <2>1. X' = X
    BY <1>0, <1>3 DEF GetWait, In
  <2> QED BY <1>3, <2>1 DEF GetWait, Pool!vars
<1>4. ASSUME NEW c \in Consumers, GetShutdown(c)
      PROVE  Pool!Leave(c)
  <2>1. X' = X \cup {c} /\ c \notin X
    BY <1>0, <1>4 DEF GetShutdown, In
  <2>2. held[c] = None
    BY <1>4 DEF GetShutdown, TypeOK
  <2>3. \A i \in Pending(q) : \E d \in Consumers : held[d] = i
    BY <1>4 DEF GetShutdown, NoRequestStranded, Pending, Elems
  <2> QED BY <1>4, <2>1, <2>2, <2>3 DEF GetShutdown, Pool!Leave, Pending
<1>5. ASSUME NEW c \in Consumers, Done(c)
      PROVE  Pool!Finish(c)
  <2> DEFINE m == held[c]
  <2>1. /\ m \in Ids /\ m # None /\ q'.closed = q.closed
        /\ q'.dirty = q.dirty \ {m}
        /\ q'.items = IF m \in q.dirty THEN Append(q.items, m) ELSE q.items
        /\ held' = [held EXCEPT ![c] = None]
    BY <1>0, <1>5 DEF Done, QDone, Requeues, QueueType, TypeOK
  <2>2. X' = X
    BY <1>5, DoneEffect DEF In, Done
  <2>3. Pending(q') = Pending(q)
    <3> HIDE DEF m
    <3>1. Elems(Append(q.items, m)) = Elems(q.items) \cup {m}
      BY <1>0, <2>1, ElemsAppend
    <3> QED BY <2>1, <3>1 DEF Pending
  <2> QED BY <2>1, <2>2, <2>3 DEF Pool!Finish, Pending
<1>6. ASSUME ShutDown
      PROVE  Pool!Close
  <2>1. /\ q'.dirty = q.dirty /\ q'.items = q.items /\ q'.closed /\ held' = held
    BY <1>0, <1>6 DEF ShutDown, QShutDown, QueueType
  <2>2. X' = X
    BY <1>0, <1>6 DEF ShutDown, Broadcast, In
  <2> QED BY <2>1, <2>2 DEF Pool!Close
<1>7. CASE UNCHANGED vars
  BY <1>7 DEF vars, Pool!vars, In
<1>8. Pool!Next \/ UNCHANGED Pool!vars
  <2>1. ASSUME NEW i \in Ids, Add(i)
        PROVE  Pool!Next \/ UNCHANGED Pool!vars
    BY <1>1, <2>1 DEF Pool!Next
  <2>2. ASSUME NEW c \in Consumers, Consume(c)
        PROVE  Pool!Next \/ UNCHANGED Pool!vars
    <3>1. GetTake(c) => Head(q.items) \in Ids
      BY <1>0, QTakeType DEF GetTake
    <3> QED
      BY <2>2, <3>1, <1>2, <1>3, <1>4, <1>5 DEF Consume, Pool!Next
  <2>3. CASE ShutDown
    BY <1>6, <2>3 DEF Pool!Next
  <2> QED BY <1>7, <2>1, <2>2, <2>3 DEF Next
<1> QED BY <1>8

\* queue.go implements WorkPool: requests leave the queue only to consumers,
\* none is accepted after ShutDown, and no consumer returns while a request is
\* left that no busy consumer will queue again.
THEOREM Refinement == Spec => ImplementsPool
<1>1. Init => Pool!Init
  BY DEF Init, Pool!Init, NewQueue, In, Elems
<1>2. IInv /\ IInv' /\ [Next]_vars => [Pool!Next]_(Pool!vars)
  BY StepSimulation DEF IInv
<1> QED BY <1>1, <1>2, Inductive, PTL DEF Spec, ImplementsPool, Pool!Safety

-----------------------------------------------------------------------------
(* A controller that counts on its queue: the place of the reader, the events on   *)
(* their way, and what is in the send queue.                                       *)

MessageSet == [command : Line \cup {Word("")}, success : {0, 1}, len : Nat,
               data : Seq(Line)]
ReaderType == [state : States, message : MessageSet, dataCnt : Nat,
               sends : Sending, button : Nat]

\* No line ends the data any more.
Astray(r) == r.state = "DATA" /\ r.message.len = 0

\* What is known of a packet when its command is, its status, and some data.
Commanded(c) == [command |-> c, success |-> 0, len |-> 0, data |-> <<>>]
Started(p) ==
  [command |-> p[2], success |-> IF p[3].is = "ERROR" THEN 0 ELSE 1, len |-> 0,
   data |-> <<>>]

Told(p, j) == [command |-> p[2], success |-> IF p[3].is = "ERROR" THEN 0 ELSE 1,
               len |-> p[5].n, data |-> SubSeq(p, 6, j)]

\* The reader r has read the first j lines of the packet p, and is where they lead.
At(r, p, j) ==
  /\ j \in 1 .. Len(p)
  /\ r.state = "RECEIVE" => j = Len(p)
  /\ r.state # "RECEIVE" => p[1].is = "BEGIN" /\ r.sends \in {"no", "ended"}
  /\ r.state = "REPLY" => j = 1
  /\ r.state = "STATUS" => j = 2 /\ r.message = Commanded(p[2])
  /\ r.state \in {"DATA_START", "DATA_LEN", "DATA", "END"} =>
       p[3].is \in {"SUCCESS", "ERROR"}
  /\ r.state = "DATA_START" => j = 3 /\ r.message = Started(p)
  /\ r.state = "DATA_LEN" => j = 4 /\ r.message = Started(p) /\ p[4].is = "DATA"
  /\ r.state \in {"DATA", "END"} =>
       /\ p[4].is = "DATA" /\ p[5].is = "number" /\ r.message.len = p[5].n
       /\ r.message = Told(p, j)
  /\ r.state = "DATA" => r.dataCnt < p[5].n /\ j = 5 + r.dataCnt
  /\ r.state = "END" => p[5].n # 0 /\ j = 5 + p[5].n
  /\ r.sends = "reply" => r.message = Meaning(p)

ReaderKept ==
  /\ reader \in ReaderType /\ place \in [packet : 0 .. Len(sent), line : Nat]
  /\ \/ Astray(reader) /\ reader.sends \in {"no", "ended"}
     \/ place.packet = 0 /\ reader.state = "RECEIVE" /\ reader.sends \in {"no", "ended"}
     \/ place.packet # 0 /\ At(reader, sent[place.packet], place.line)

\* The presses the reader has told of.
Heard == eventCount + (IF runner.pc = "handle" THEN 1 ELSE 0)
                    + (IF reader.sends = "receive" THEN 1 ELSE 0)

\* The first k packets have g[k] presses.
Counts(g) ==
  /\ g[0] = 0 /\ g[Len(sent)] = Len(pressed)
  /\ \A k \in 1 .. Len(sent) :
       IF sent[k][1].is = "press" THEN g[k] = g[k - 1] + 1 /\ pressed[g[k]] = sent[k][1].n
                                  ELSE g[k] = g[k - 1]

EventsKept ==
  /\ runner \in [pc : {"select", "handle", "exited"}, button : Nat] /\ eventCount \in Nat
  /\ Len(pressed) <= Len(sent) /\ Len(sent) <= MaxPackets /\ Heard <= Len(pressed)
  /\ runner.pc = "handle" => runner.button = pressed[eventCount + 1]
  /\ reader.sends = "receive" => reader.button = pressed[Heard]
  /\ \E g \in [0 .. Len(sent) -> 0 .. Len(pressed)] :
       Counts(g) /\ (Astray(reader) \/ g[place.packet] = Heard)

\* The queue holds the events after those taken, in order, each with its button.
SendsKept ==
  /\ payload \in [0 .. MaxPackets -> Nat]
  /\ sndQ.processing = {} /\ sndQ.dirty \subseteq Elems(sndQ.items)
  /\ Len(taken) + Len(sndQ.items) <= eventCount
  /\ ~sndQ.closed => Len(taken) + Len(sndQ.items) = eventCount
  /\ \A i \in 1 .. Len(sndQ.items) :
       /\ sndQ.items[i] = Len(taken) + i - 1
       /\ payload[sndQ.items[i]] = pressed[Len(taken) + i]
  /\ \A i \in 1 .. Len(taken) : taken[i] = pressed[i]

ListsTyped ==
  /\ sent \in Seq(Packets) /\ pressed \in Seq(Nat) /\ taken \in Seq(Nat)
  /\ sndQ \in QueueType(0 .. MaxPackets) /\ rcvQ \in QueueType(1 .. MaxMsgs)
  /\ came \in 0 .. MaxMsgs /\ worker \in {"get", "exited"}

LircIInv == ListsTyped /\ ReaderKept /\ EventsKept /\ SendsKept

-----------------------------------------------------------------------------
(* The reader of a packet.                                                   *)

\* A line that begins a packet: a press is told of, and every packet of one line is
\* read with it.
LEMMA FirstLine ==
  ASSUME NEW p \in Seq(Line), IsPacket(p), NEW r \in ReaderType,
         r.state = "RECEIVE", r.sends = "no"
  PROVE  /\ AfterLine(r, p[1]) \in ReaderType /\ At(AfterLine(r, p[1]), p, 1)
         /\ AfterLine(r, p[1]).state # "DATA" /\ AfterLine(r, p[1]).sends # "reply"
         /\ IF p[1].is = "press"
            THEN AfterLine(r, p[1]).sends = "receive" /\ AfterLine(r, p[1]).button = p[1].n
            ELSE AfterLine(r, p[1]).sends \in {"no", "panic"}
<1>1. Len(p) \in Nat /\ 1 \in 1 .. Len(p) /\ p[1] \in Line
  BY DEF IsPacket
<1>2. AfterLine(r, p[1]) = AtReceive(r, p[1])
  BY DEF AfterLine
<1>3. CASE p[1].is = "BEGIN"
  <2> DEFINE s == [r EXCEPT !.state = "REPLY"]
  <2>1. AfterLine(r, p[1]) = s
    BY <1>2, <1>3 DEF AtReceive
  <2>2. s \in ReaderType /\ s.state = "REPLY" /\ s.sends = "no"
    BY DEF ReaderType, States, Sending
  <2>3. At(s, p, 1)
    BY <1>1, <1>3, <2>2 DEF At
  <2> QED BY <1>3, <2>1, <2>2, <2>3
<1>4. CASE p[1].is = "press"
  <2> DEFINE s == [r EXCEPT !.sends = "receive", !.button = p[1].n]
  <2>1. AfterLine(r, p[1]) = s
    BY <1>2, <1>4 DEF AtReceive
  <2>2. s \in ReaderType /\ s.state = "RECEIVE" /\ s.sends = "receive" /\ s.button = p[1].n
    BY <1>1 DEF ReaderType, Line, Sending
  <2>3. At(s, p, 1)
    BY <1>1, <1>4, <2>2 DEF At, IsPacket
  <2> QED BY <1>4, <2>1, <2>2, <2>3
<1>5. CASE p[1].is = "short"
  <2> DEFINE s == [r EXCEPT !.sends = "panic"]
  <2>1. AfterLine(r, p[1]) = s
    BY <1>2, <1>5 DEF AtReceive
  <2>2. s \in ReaderType /\ s.state = "RECEIVE" /\ s.sends = "panic"
    BY DEF ReaderType, Sending
  <2>3. At(s, p, 1)
    BY <1>1, <1>5, <2>2 DEF At, IsPacket
  <2> QED BY <1>5, <2>1, <2>2, <2>3
<1>6. CASE p[1].is \notin {"BEGIN", "press", "short"}
  <2>1. AfterLine(r, p[1]) = r
    BY <1>2, <1>6 DEF AtReceive
  <2>2. At(r, p, 1)
    BY <1>1, <1>6 DEF At, IsPacket
  <2> QED BY <1>6, <2>1, <2>2
<1> QED BY <1>3, <1>4, <1>5, <1>6

\* The lines of the data, up to the next one.
LEMMA OneLineMore ==
  ASSUME NEW p \in Seq(Line), NEW j \in Nat, j >= 5, j + 1 <= Len(p)
  PROVE  /\ SubSeq(p, 6, j) \in Seq(Line) /\ SubSeq(p, 6, 5) = <<>>
         /\ Append(SubSeq(p, 6, j), p[j + 1]) = SubSeq(p, 6, j + 1)
<1> DEFINE u == SubSeq(p, 6, j)
           v == SubSeq(p, 6, j + 1)
<1>1. u \in Seq(Line) /\ Len(u) = j - 5 /\ \A k \in 1 .. j - 5 : u[k] = p[5 + k]
  OBVIOUS
<1>2. v \in Seq(Line) /\ Len(v) = j - 4 /\ \A k \in 1 .. j - 4 : v[k] = p[5 + k]
  OBVIOUS
<1>3. SubSeq(p, 6, 5) = <<>>
  <2>1. SubSeq(p, 6, 5) \in Seq(Line) /\ Len(SubSeq(p, 6, 5)) = 0
    OBVIOUS
  <2> QED BY <2>1, EmptySeq
<1> HIDE DEF u, v
<1>4. p[j + 1] \in Line
  OBVIOUS
<1>5. /\ Append(u, p[j + 1]) \in Seq(Line) /\ Len(Append(u, p[j + 1])) = j - 4
      /\ Append(u, p[j + 1])[j - 4] = p[j + 1]
      /\ \A k \in 1 .. j - 5 : Append(u, p[j + 1])[k] = u[k]
  BY <1>1, <1>4, AppendProperties
<1>6. ASSUME NEW k \in 1 .. j - 4 PROVE Append(u, p[j + 1])[k] = v[k]
  <2>1. CASE k = j - 4
    BY <1>2, <1>5, <2>1
  <2>2. CASE k # j - 4
    BY <1>1, <1>2, <1>5, <1>6, <2>2
  <2> QED BY <2>1, <2>2
<1>7. Append(u, p[j + 1]) = v
  BY <1>2, <1>5, <1>6, SeqEqual
<1> QED BY <1>1, <1>3, <1>7 DEF u, v

\* What is known of a packet has the type of a message.
LEMMA MessageType ==
  ASSUME NEW c \in Line
  PROVE  /\ [NoMessage EXCEPT !.command = c] = Commanded(c)
         /\ Commanded(c) \in MessageSet
         /\ \A p \in Seq(Line) : p[2] \in Line => Started(p) \in MessageSet
<1> DEFINE x == Word("")
           e == <<>>
           m == [command |-> x, success |-> 0, len |-> 0, data |-> e]
<1>1. NoMessage = m /\ e \in Seq(Line)
  BY DEF NoMessage
<1> HIDE DEF x, e
<1>2. [m EXCEPT !.command = c] = [command |-> c, success |-> 0, len |-> 0, data |-> e]
  OBVIOUS
<1>3. [command |-> c, success |-> 0, len |-> 0, data |-> e] \in MessageSet
  BY <1>1 DEF MessageSet
<1>4. ASSUME NEW p \in Seq(Line), p[2] \in Line PROVE Started(p) \in MessageSet
  BY <1>4, EmptySeq DEF Started, MessageSet
<1> QED BY <1>1, <1>2, <1>3, <1>4 DEF Commanded, e

\* The reader leaves a packet with its last line, and with a reply only if that is what
\* the packet says.
LEMMA LastLine ==
  ASSUME NEW p \in Seq(Line), Len(p) >= 1, NEW r \in ReaderType, r.sends = "no"
  PROVE  /\ [r EXCEPT !.state = "RECEIVE"] \in ReaderType
         /\ [r EXCEPT !.state = "RECEIVE"].sends = "no"
         /\ At([r EXCEPT !.state = "RECEIVE"], p, Len(p))
         /\ Replies(r) \in ReaderType /\ Replies(r).sends = "reply"
         /\ r.message = Meaning(p) => At(Replies(r), p, Len(p))
<1> DEFINE s == [r EXCEPT !.state = "RECEIVE"]
           t == [r EXCEPT !.state = "RECEIVE", !.sends = "reply"]
<1>1. s \in ReaderType /\ s.state = "RECEIVE" /\ s.sends = "no"
  BY DEF ReaderType, States, Sending
<1>2. t \in ReaderType /\ t.state = "RECEIVE" /\ t.sends = "reply" /\ t.message = r.message
  BY DEF ReaderType, States, Sending
<1>3. Replies(r) = t /\ Len(p) \in Nat
  BY DEF Replies
<1> HIDE DEF s, t
<1>4. At(s, p, Len(p))
  BY <1>1, <1>3 DEF At
<1>5. ASSUME r.message = Meaning(p) PROVE At(t, p, Len(p))
  BY <1>2, <1>3, <1>5 DEF At
<1> QED BY <1>1, <1>2, <1>3, <1>4, <1>5 DEF s

\* What the reader makes of each line of a packet after the first.
Follows(s, p, j) ==
  /\ j \in 1 .. Len(p) /\ s \in ReaderType /\ s.sends # "receive"
  /\ \/ Astray(s) /\ s.sends = "no"
     \/ At(s, p, j)

LEMMA AfterReply ==
  ASSUME NEW p \in Seq(Line), IsPacket(p), NEW r \in ReaderType, NEW j, At(r, p, j),
         r.state = "REPLY", r.sends = "no"
  PROVE  Follows(AfterLine(r, p[j + 1]), p, j + 1)
<1>1. j = 1 /\ r.sends = "no" /\ p[1].is = "BEGIN" /\ Len(p) >= 3 /\ Len(p) \in Nat
  BY DEF At, IsPacket
<1>2. p[2] \in Line
  BY <1>1
<1> DEFINE m == Commanded(p[2])
           s == [r EXCEPT !.message = m, !.state = "STATUS"]
<1>3. AfterLine(r, p[j + 1]) = s
  <2>1. [NoMessage EXCEPT !.command = p[2]] = m
    BY <1>2, MessageType
  <2> DEFINE n == [NoMessage EXCEPT !.command = p[2]]
  <2>2. AfterLine(r, p[2]) = [r EXCEPT !.message = n, !.state = "STATUS"]
    BY DEF AfterLine
  <2> HIDE DEF m, n
  <2>3. n = m
    BY <2>1 DEF n
  <2> QED BY <1>1, <2>2, <2>3
<1>4. m \in MessageSet
  BY <1>2, MessageType
<1> HIDE DEF m
<1>5. s \in ReaderType /\ s.state = "STATUS" /\ s.sends = "no" /\ s.message = m
  BY <1>1, <1>4 DEF ReaderType, States
<1> HIDE DEF s
<1>6. At(s, p, 2)
  BY <1>1, <1>5 DEF At, m
<1> QED BY <1>1, <1>3, <1>5, <1>6 DEF Follows

LEMMA AfterStatus ==
  ASSUME NEW p \in Seq(Line), IsPacket(p), NEW r \in ReaderType, NEW j, At(r, p, j),
         r.state = "STATUS", r.sends = "no"
  PROVE  Follows(AfterLine(r, p[j + 1]), p, j + 1)
<1>1. /\ j = 2 /\ r.sends = "no" /\ p[1].is = "BEGIN" /\ Len(p) >= 3 /\ Len(p) \in Nat
      /\ r.message = Commanded(p[2])
  BY DEF At, IsPacket
<1>2. p[2] \in Line /\ p[3] \in Line /\ Len(p) >= 1 /\ j + 1 \in 1 .. Len(p)
  BY <1>1
<1>3. AfterLine(r, p[j + 1]) = AtStatus(r, p[3])
  BY <1>1 DEF AfterLine
<1>4. CASE p[3].is \in {"SUCCESS", "ERROR"}
  <2> DEFINE k == IF p[3].is = "ERROR" THEN 0 ELSE 1
             s == [r EXCEPT !.message.success = k, !.state = "DATA_START"]
  <2>1. AtStatus(r, p[3]) = s
    BY <1>4 DEF AtStatus
  <2>2. k \in {0, 1}
    OBVIOUS
  <2>3. s \in ReaderType /\ s.state = "DATA_START" /\ s.sends = "no"
    <3> HIDE DEF k
    <3> QED BY <1>1, <2>2 DEF ReaderType, MessageSet, States
  <2>4. s.message = Started(p)
    <3>1. s.message = [r.message EXCEPT !.success = k]
      <4> HIDE DEF k
      <4> QED BY DEF ReaderType
    <3> HIDE DEF s
    <3> DEFINE e == <<>>
               c == p[2]
    <3>2. r.message = [command |-> c, success |-> 0, len |-> 0, data |-> e]
      BY <1>1 DEF Commanded
    <3>3. Started(p) = [command |-> c, success |-> k, len |-> 0, data |-> e]
      BY DEF Started
    <3> HIDE DEF e, c, k
    <3> QED BY <3>1, <3>2, <3>3
  <2> HIDE DEF s
  <2>5. At(s, p, 3)
    BY <1>1, <1>4, <2>3, <2>4 DEF At
  <2> QED BY <1>1, <1>3, <2>1, <2>3, <2>5 DEF Follows
<1>5. CASE p[3].is = "END"
  <2> DEFINE t == [r EXCEPT !.message.success = 1]
  <2>1. AtStatus(r, p[3]) = Replies(t) /\ Len(p) = 3
    BY <1>1, <1>5 DEF AtStatus, IsPacket
  <2>2. t \in ReaderType /\ t.sends = "no" /\ t.message = [r.message EXCEPT !.success = 1]
    BY <1>1 DEF ReaderType, MessageSet
  <2>3. t.message = Meaning(p)
    <3> HIDE DEF t
    <3> DEFINE e == <<>>
               c == p[2]
    <3>1. r.message = [command |-> c, success |-> 0, len |-> 0, data |-> e]
      BY <1>1 DEF Commanded
    <3>2. Meaning(p) = [command |-> c, success |-> 1, len |-> 0, data |-> e]
      BY <1>5, <2>1 DEF Meaning
    <3> HIDE DEF e, c
    <3> QED BY <2>2, <3>1, <3>2
  <2> HIDE DEF t
  <2>4. Replies(t) \in ReaderType /\ Replies(t).sends = "reply" /\ At(Replies(t), p, Len(p))
    BY Zenon, <1>2, <2>2, <2>3, LastLine
  <2>5. j + 1 = Len(p) /\ AfterLine(r, p[j + 1]) = Replies(t)
    BY <1>1, <1>3, <2>1
  <2> QED BY Zenon, <1>2, <2>4, <2>5 DEF Follows
<1>6. CASE p[3].is \notin {"SUCCESS", "ERROR", "END"}
  <2>1. AtStatus(r, p[3]) = [r EXCEPT !.state = "RECEIVE"] /\ Len(p) = 3
    BY <1>1, <1>6 DEF AtStatus, IsPacket
  <2>2. j + 1 = Len(p) /\ AfterLine(r, p[j + 1]) = [r EXCEPT !.state = "RECEIVE"]
    BY <1>1, <1>3, <2>1
  <2> QED BY Zenon, <1>1, <1>2, <2>2, LastLine DEF Follows
<1> QED BY <1>4, <1>5, <1>6

LEMMA AfterDataStart ==
  ASSUME NEW p \in Seq(Line), IsPacket(p), NEW r \in ReaderType, NEW j, At(r, p, j),
         r.state = "DATA_START", r.sends = "no"
  PROVE  Follows(AfterLine(r, p[j + 1]), p, j + 1)
<1>1. /\ j = 3 /\ r.sends = "no" /\ p[1].is = "BEGIN" /\ p[3].is \in {"SUCCESS", "ERROR"}
      /\ Len(p) >= 4 /\ Len(p) \in Nat /\ r.message = Started(p)
  BY DEF At, IsPacket
<1>2. p[4] \in Line /\ Len(p) >= 1 /\ j + 1 \in 1 .. Len(p)
  BY <1>1
<1>3. AfterLine(r, p[j + 1]) = AtDataStart(r, p[4])
  BY <1>1 DEF AfterLine
<1>4. CASE p[4].is = "DATA"
  <2> DEFINE s == [r EXCEPT !.state = "DATA_LEN"]
  <2>1. AtDataStart(r, p[4]) = s
    BY <1>4 DEF AtDataStart
  <2>2. s \in ReaderType /\ s.state = "DATA_LEN" /\ s.sends = "no" /\ s.message = Started(p)
    BY <1>1 DEF ReaderType, States
  <2> HIDE DEF s
  <2>3. At(s, p, 4)
    BY <1>1, <1>4, <2>2 DEF At
  <2> QED BY <1>1, <1>3, <2>1, <2>2, <2>3 DEF Follows
<1>5. CASE p[4].is # "DATA"
  <2>1. Len(p) = 4 /\ j + 1 = Len(p)
    BY <1>1, <1>5 DEF IsPacket
  <2>2. CASE p[4].is = "END"
    <3>1. AfterLine(r, p[j + 1]) = Replies(r)
      BY <1>3, <2>2 DEF AtDataStart
    <3>2. r.message = Meaning(p)
      <4>1. ~(Len(p) > 4)
        BY <1>1, <2>1
      <4> QED BY Zenon, <1>1, <4>1 DEF Meaning, Started
    <3> QED BY Zenon, <1>1, <1>2, <2>1, <3>1, <3>2, LastLine DEF Follows
  <2>3. CASE p[4].is # "END"
    <3>1. AfterLine(r, p[j + 1]) = [r EXCEPT !.state = "RECEIVE"]
      BY <1>3, <1>5, <2>3 DEF AtDataStart
    <3> QED BY Zenon, <1>1, <1>2, <2>1, <3>1, LastLine DEF Follows
  <2> QED BY <2>2, <2>3
<1> QED BY <1>4, <1>5

LEMMA AfterDataLen ==
  ASSUME NEW p \in Seq(Line), IsPacket(p), NEW r \in ReaderType, NEW j, At(r, p, j),
         r.state = "DATA_LEN", r.sends = "no"
  PROVE  Follows(AfterLine(r, p[j + 1]), p, j + 1)
<1>1. /\ j = 4 /\ r.sends = "no" /\ p[1].is = "BEGIN" /\ p[3].is \in {"SUCCESS", "ERROR"}
      /\ p[4].is = "DATA" /\ Len(p) >= 5 /\ Len(p) \in Nat /\ r.message = Started(p)
  BY DEF At, IsPacket
<1>2. p[5].n \in Nat /\ Len(p) >= 1 /\ j + 1 \in 1 .. Len(p)
  <2>1. p[5] \in Line
    BY <1>1
  <2> QED BY <1>1, <2>1 DEF Line
<1>3. AfterLine(r, p[j + 1]) = AtDataLen(r, p[5])
  BY <1>1 DEF AfterLine
<1>4. CASE p[5].is = "number"
  <2> DEFINE n == p[5].n
             s == [r EXCEPT !.dataCnt = 0, !.message.len = n, !.state = "DATA"]
  <2>1. AtDataLen(r, p[5]) = s
    BY <1>4 DEF AtDataLen
  <2>2. /\ s \in ReaderType /\ s.state = "DATA" /\ s.sends = "no" /\ s.dataCnt = 0
        /\ s.message = [r.message EXCEPT !.len = n]
    BY <1>1, <1>2 DEF ReaderType, MessageSet, States
  <2> HIDE DEF s
  <2>3. s.message = Told(p, 5) /\ s.message.len = n
    <3> DEFINE e == <<>>
               c == p[2]
               k == IF p[3].is = "ERROR" THEN 0 ELSE 1
    <3>1. SubSeq(p, 6, 5) = e
      <4>1. SubSeq(p, 6, 5) \in Seq(Line) /\ Len(SubSeq(p, 6, 5)) = 0
        BY <1>1
      <4> QED BY <4>1, EmptySeq
    <3>2. r.message = [command |-> c, success |-> k, len |-> 0, data |-> e]
      BY <1>1 DEF Started
    <3>3. Told(p, 5) = [command |-> c, success |-> k, len |-> n, data |-> e]
      BY <3>1 DEF Told
    <3> HIDE DEF e, c, k, n
    <3> QED BY <2>2, <3>2, <3>3
  <2>4. CASE n = 0
    <3>1. Astray(s)
      BY <2>2, <2>3, <2>4 DEF Astray
    <3>2. AfterLine(r, p[j + 1]) = s
      BY <1>3, <2>1
    <3> QED BY <1>2, <2>2, <3>1, <3>2 DEF Follows
  <2>5. CASE n # 0
    <3>1. At(s, p, 5)
      BY <1>1, <1>2, <1>4, <2>2, <2>3, <2>5 DEF At
    <3> QED BY <1>1, <1>3, <2>1, <2>2, <3>1 DEF Follows
  <2> QED BY <2>4, <2>5
<1>5. CASE p[5].is # "number"
  <2> DEFINE t == [r EXCEPT !.dataCnt = 0, !.message.len = 0]
  <2>1. AfterLine(r, p[j + 1]) = [t EXCEPT !.state = "RECEIVE"] /\ j + 1 = Len(p)
    BY <1>1, <1>3, <1>5 DEF AtDataLen, IsPacket
  <2>2. t \in ReaderType /\ t.sends = "no"
    BY <1>1 DEF ReaderType, MessageSet
  <2> HIDE DEF t
  <2> QED BY Zenon, <1>2, <2>1, <2>2, LastLine DEF Follows
<1> QED BY <1>4, <1>5

LEMMA AfterData ==
  ASSUME NEW p \in Seq(Line), IsPacket(p), NEW r \in ReaderType, NEW j, At(r, p, j),
         r.state = "DATA", r.sends = "no"
  PROVE  Follows(AfterLine(r, p[j + 1]), p, j + 1)
<1> DEFINE n == p[5].n
           c == r.dataCnt
           s == AfterLine(r, p[j + 1])
<1>1. /\ r.sends = "no" /\ p[1].is = "BEGIN" /\ p[3].is \in {"SUCCESS", "ERROR"}
      /\ p[4].is = "DATA" /\ p[5].is = "number" /\ r.message.len = n /\ c < n
      /\ r.message = Told(p, j) /\ j = 5 + c /\ j \in 1 .. Len(p)
  BY DEF At
<1>2. c \in Nat /\ r.message.len \in Nat /\ r.message.data \in Seq(Line)
  BY DEF ReaderType, MessageSet
<1>3. Len(p) = n + 6 /\ Len(p) \in Nat /\ j \in Nat /\ j >= 5 /\ j + 1 \in 1 .. Len(p)
  <2>1. n \in Nat /\ n # 0 /\ Len(p) \in Nat
    BY <1>1, <1>2
  <2> HIDE DEF n
  <2>2. Len(p) = n + 6
    BY <1>1, <2>1 DEF IsPacket, n
  <2> QED BY <1>1, <1>2, <2>1, <2>2
<1>4. p[j + 1] \in Line
  BY <1>3
<1> DEFINE x == p[j + 1]
           d == Append(r.message.data, x)
           u == IF c + 1 = n THEN "END" ELSE "DATA"
           t == [r EXCEPT !.message.data = d, !.dataCnt = c + 1, !.state = u]
<1>5. s = t
  BY <1>1, <1>2 DEF AfterLine, AtData
<1>6. d \in Seq(Line) /\ u \in States /\ d = SubSeq(p, 6, j + 1)
  <2>1. r.message.data = SubSeq(p, 6, j)
    BY <1>1 DEF Told
  <2> HIDE DEF c, n
  <2> QED BY <1>2, <1>3, <1>4, <2>1, OneLineMore DEF States
<1>7. /\ t \in ReaderType /\ t.state = u /\ t.sends = "no" /\ t.dataCnt = c + 1
      /\ t.message = [r.message EXCEPT !.data = d]
  <2> DEFINE k == c + 1
  <2>1. k \in Nat
    BY <1>2
  <2> HIDE DEF d, u, k
  <2> DEFINE v == [r EXCEPT !.message.data = d, !.dataCnt = k, !.state = u]
  <2>2. v \in ReaderType
    BY <1>6, <2>1 DEF ReaderType, MessageSet
  <2>3. /\ v.state = u /\ v.sends = r.sends /\ v.dataCnt = k
        /\ v.message = [r.message EXCEPT !.data = d]
    BY DEF ReaderType
  <2> QED BY <1>1, <2>2, <2>3 DEF k
<1>8. t.message = Told(p, j + 1) /\ t.message.len = n
  <2> DEFINE q1 == SubSeq(p, 6, j)
             q2 == SubSeq(p, 6, j + 1)
             k == IF p[3].is = "ERROR" THEN 0 ELSE 1
             m == p[2]
  <2>1. r.message = [command |-> m, success |-> k, len |-> n, data |-> q1]
    BY <1>1 DEF Told
  <2>2. Told(p, j + 1) = [command |-> m, success |-> k, len |-> n, data |-> q2]
    BY DEF Told
  <2>3. t.message = [r.message EXCEPT !.data = q2]
    BY <1>6, <1>7
  <2> HIDE DEF q1, q2, k, m, n, t
  <2> QED BY <2>1, <2>2, <2>3
<1> HIDE DEF t, n, c
<1>9. At(t, p, j + 1)
  <2>1. CASE c + 1 = n
    <3>1. j + 1 = 5 + n /\ n # 0 /\ t.state = "END"
      BY <1>1, <1>2, <1>7, <2>1
    <3> QED BY SMTT(30), <1>1, <1>3, <1>7, <1>8, <3>1 DEF At, n
  <2>2. CASE c + 1 # n
    <3>1. c + 1 < n /\ j + 1 = 5 + (c + 1) /\ t.state = "DATA" /\ t.dataCnt = c + 1
      BY <1>1, <1>2, <1>3, <1>7, <2>2
    <3> QED BY <1>1, <1>3, <1>7, <1>8, <3>1 DEF At, n
  <2> QED BY <2>1, <2>2
<1>10. t.sends # "receive"
  BY <1>7
<1> QED BY Zenon, <1>3, <1>5, <1>7, <1>9, <1>10 DEF Follows

LEMMA AfterEnd ==
  ASSUME NEW p \in Seq(Line), IsPacket(p), NEW r \in ReaderType, NEW j, At(r, p, j),
         r.state = "END", r.sends = "no"
  PROVE  Follows(AfterLine(r, p[j + 1]), p, j + 1)
<1>1. /\ r.sends = "no" /\ p[1].is = "BEGIN" /\ p[3].is \in {"SUCCESS", "ERROR"}
      /\ p[4].is = "DATA" /\ p[5].is = "number" /\ r.message.len = p[5].n /\ p[5].n # 0
      /\ r.message = Told(p, j) /\ j = 5 + p[5].n /\ j \in 1 .. Len(p)
  BY DEF At
<1>2. Len(p) = p[5].n + 6 /\ Len(p) \in Nat /\ p[5].n \in Nat
  <2>1. r.message.len \in Nat
    BY DEF ReaderType, MessageSet
  <2> QED BY <1>1, <2>1 DEF IsPacket
<1>3. j + 1 = Len(p) /\ j = Len(p) - 1 /\ j + 1 \in 1 .. Len(p) /\ Len(p) >= 1 /\ Len(p) > 4
  BY <1>1, <1>2
<1>4. AfterLine(r, p[j + 1]) = AtEnd(r, p[j + 1])
  BY DEF AfterLine
<1>5. CASE p[j + 1].is = "END"
  <2>1. AfterLine(r, p[j + 1]) = Replies(r)
    BY <1>4, <1>5 DEF AtEnd
  <2>2. r.message = Meaning(p)
    BY <1>1, <1>3 DEF Meaning, Told
  <2> QED BY Zenon, <1>1, <1>3, <2>1, <2>2, LastLine DEF Follows
<1>6. CASE p[j + 1].is # "END"
  <2>1. AfterLine(r, p[j + 1]) = [r EXCEPT !.state = "RECEIVE"]
    BY <1>4, <1>6 DEF AtEnd
  <2> QED BY Zenon, <1>1, <1>3, <2>1, LastLine DEF Follows
<1> QED BY <1>5, <1>6

\* Whatever the reader expects next, the next line of the packet leaves it in its
\* place; once astray it stays so.
LEMMA NextLineOfPacket ==
  ASSUME NEW p \in Seq(Line), IsPacket(p), NEW r \in ReaderType, NEW j, At(r, p, j),
         r.state # "RECEIVE", r.sends = "no"
  PROVE  Follows(AfterLine(r, p[j + 1]), p, j + 1)
<1>1. r.state \in States
  BY DEF ReaderType
<1> QED BY Zenon, <1>1, AfterReply, AfterStatus, AfterDataStart, AfterDataLen, AfterData, AfterEnd
           DEF States

LEMMA AstrayStays ==
  ASSUME NEW r \in ReaderType, Astray(r), NEW x \in Line, r.sends = "no"
  PROVE  /\ AfterLine(r, x) \in ReaderType /\ Astray(AfterLine(r, x))
         /\ AfterLine(r, x).sends = "no"
<1> DEFINE k == r.dataCnt + 1
<1>1. r.state = "DATA" /\ r.message.len = 0 /\ r.dataCnt \in Nat /\ k # 0 /\ k \in Nat
  BY DEF Astray, ReaderType
<1>2. ~(r.dataCnt < 0)
  BY <1>1
<1>3. AfterLine(r, x) = AtData(r, x)
  BY <1>1 DEF AfterLine
<1>4. AtData(r, x) = [r EXCEPT !.message.data = r.message.data, !.dataCnt = k, !.state = "DATA"]
  BY <1>1, <1>2 DEF AtData
<1> DEFINE d == r.message.data
           s == [r EXCEPT !.message.data = d, !.dataCnt = k, !.state = "DATA"]
<1>5. d \in Seq(Line)
  BY DEF ReaderType, MessageSet
<1> HIDE DEF k, d
<1>6. s \in ReaderType /\ s.state = "DATA" /\ s.sends = r.sends
  BY <1>1, <1>5 DEF ReaderType, MessageSet, States
<1>7. s.message.len = r.message.len
  BY DEF ReaderType, MessageSet
<1> QED BY <1>1, <1>3, <1>4, <1>6, <1>7 DEF Astray, d

-----------------------------------------------------------------------------
(* The steps of the reader.                                                  *)

LEMMA SentPackets ==
  ASSUME LircTypeOK, NEW k \in 1 .. Len(sent)
  PROVE  /\ sent[k] \in Packets /\ sent[k] \in Seq(Line) /\ IsPacket(sent[k])
         /\ Len(sent[k]) \in Nat \ {0} /\ sent[k][1] \in Line
<1>1. sent[k] \in Packets
  BY DEF LircTypeOK
<1>2. sent[k] \in Seq(Line) /\ IsPacket(sent[k])
  BY <1>1, LircAssumption
<1>3. Len(sent[k]) \in Nat \ {0}
  BY <1>2 DEF IsPacket
<1> QED BY <1>1, <1>2, <1>3

\* The reader begins the next packet, having read all of the one before.
BeginsNext ==
  /\ reader.state = "RECEIVE" /\ place.packet + 1 \in 1 .. Len(sent)
  /\ NextPlace = [packet |-> place.packet + 1, line |-> 1]
  /\ NextLine = sent[place.packet + 1][1]

\* The reader reads on in its packet.
ReadsOn ==
  /\ reader.state # "RECEIVE" /\ place.packet \in 1 .. Len(sent)
  /\ At(reader, sent[place.packet], place.line)
  /\ NextPlace = [packet |-> place.packet, line |-> place.line + 1]
  /\ NextLine = sent[place.packet][place.line + 1]

LEMMA WhereItReads ==
  ASSUME LircTypeOK, ReaderKept, ReadLine
  PROVE  /\ NextPlace \in [packet : 0 .. Len(sent), line : Nat] /\ NextLine \in Line
         /\ Astray(reader) \/ BeginsNext \/ ReadsOn
<1> DEFINE k == place.packet
           l == place.line
<1>1. /\ reader \in ReaderType /\ k \in 0 .. Len(sent) /\ l \in Nat /\ Len(sent) \in Nat
      /\ reader.sends = "no" /\ NextPlace.packet <= Len(sent)
      /\ place = [packet |-> k, line |-> l]
  BY DEF ReaderKept, ReadLine, HasLine, LircTypeOK
<1>2. CASE k # 0 /\ l < Len(sent[k])
  <2>1. NextPlace = [packet |-> k, line |-> l + 1]
    BY <1>1, <1>2 DEF NextPlace
  <2>2. k \in 1 .. Len(sent)
    BY <1>1, <1>2
  <2>3. sent[k] \in Seq(Line) /\ Len(sent[k]) \in Nat
    BY <2>2, SentPackets
  <2>4. NextLine = sent[k][l + 1]
    BY <2>1 DEF NextLine
  <2>5. sent[k][l + 1] \in Line
    BY <1>1, <1>2, <2>3
  <2>6. ~Astray(reader) => At(reader, sent[k], l)
    BY <1>2 DEF ReaderKept
  <2>7. ~Astray(reader) => reader.state # "RECEIVE"
    BY <1>2, <2>3, <2>6 DEF At
  <2> QED BY <1>1, <2>1, <2>2, <2>4, <2>5, <2>6, <2>7 DEF ReadsOn
<1>3. CASE ~(k # 0 /\ l < Len(sent[k]))
  <2>1. NextPlace = [packet |-> k + 1, line |-> 1]
    BY <1>1, <1>3 DEF NextPlace
  <2>2. k + 1 \in 1 .. Len(sent)
    BY <1>1, <2>1
  <2>3. sent[k + 1][1] \in Line
    BY <2>2, SentPackets
  <2>4. NextLine = sent[k + 1][1]
    BY <2>1 DEF NextLine
  <2>5. ~Astray(reader) => reader.state = "RECEIVE"
    <3> SUFFICES ASSUME ~Astray(reader), reader.state # "RECEIVE" PROVE FALSE
      OBVIOUS
    <3>1. k # 0 /\ At(reader, sent[k], l)
      BY DEF ReaderKept
    <3>2. k \in 1 .. Len(sent)
      BY <1>1, <3>1
    <3>3. Follows(AfterLine(reader, sent[k][l + 1]), sent[k], l + 1)
      BY Zenon, <1>1, <3>1, <3>2, SentPackets, NextLineOfPacket
    <3>4. l + 1 \in 1 .. Len(sent[k])
      BY <3>3 DEF Follows
    <3>5. Len(sent[k]) \in Nat
      BY <3>2, SentPackets
    <3> QED BY <1>1, <1>3, <3>1, <3>4, <3>5
  <2>6. NextPlace \in [packet : 0 .. Len(sent), line : Nat]
    BY <1>1, <2>1, <2>2
  <2> QED BY <2>1, <2>2, <2>3, <2>4, <2>5, <2>6 DEF BeginsNext
<1> QED BY <1>2, <1>3

\* A line read: the reader is where the lines lead, and has told of one press more if
\* the line is one.
LEMMA ReadLineKeeps ==
  ASSUME LircIInv, LircTypeOK, ReadLine
  PROVE  ReaderKept' /\ EventsKept'
<1> USE DEF LircIInv
<1>1. /\ reader.sends = "no" /\ place' = NextPlace /\ reader' = AfterLine(reader, NextLine)
      /\ UNCHANGED <<sent, pressed, runner, eventCount>> /\ reader \in ReaderType
  BY DEF ReadLine, ReaderKept
<1>2. NextPlace \in [packet : 0 .. Len(sent), line : Nat] /\ NextLine \in Line
  BY WhereItReads
<1>3. PICK g \in [0 .. Len(sent) -> 0 .. Len(pressed)] :
        Counts(g) /\ (Astray(reader) \/ g[place.packet] = Heard)
  BY DEF EventsKept
<1>4. Counts(g)'
  BY <1>1, <1>3 DEF Counts
<1>5. /\ Heard \in Nat /\ Len(pressed) \in Nat /\ Len(sent) \in Nat
      /\ Heard = eventCount + (IF runner.pc = "handle" THEN 1 ELSE 0)
      /\ runner \in [pc : {"select", "handle", "exited"}, button : Nat] /\ eventCount \in Nat
      /\ Len(pressed) <= Len(sent) /\ Len(sent) <= MaxPackets /\ Heard <= Len(pressed)
      /\ runner.pc = "handle" => runner.button = pressed[eventCount + 1]
  <2>1. Len(pressed) \in Nat /\ Len(sent) \in Nat
    BY DEF LircTypeOK
  <2>2. /\ runner \in [pc : {"select", "handle", "exited"}, button : Nat] /\ eventCount \in Nat
        /\ Len(pressed) <= Len(sent) /\ Len(sent) <= MaxPackets /\ Heard <= Len(pressed)
        /\ runner.pc = "handle" => runner.button = pressed[eventCount + 1]
    BY DEF EventsKept
  <2>3. Heard = eventCount + (IF runner.pc = "handle" THEN 1 ELSE 0) /\ Heard \in Nat
    BY <1>1, <2>2 DEF Heard
  <2> QED BY <2>1, <2>2, <2>3
<1>6. CASE Astray(reader)
  <2>1. reader' \in ReaderType /\ Astray(reader') /\ reader'.sends = "no"
    BY Zenon, <1>1, <1>2, <1>6, AstrayStays
  <2>2. ReaderKept'
    BY <1>1, <1>2, <2>1 DEF ReaderKept
  <2>3. Heard' = Heard
    BY <1>1, <1>5, <2>1 DEF Heard
  <2> QED BY <1>1, <1>3, <1>4, <1>5, <2>1, <2>2, <2>3 DEF EventsKept
<1>7. CASE ReadsOn
  <2> DEFINE k == place.packet
             p == sent[k]
             l == place.line
  <2>1. k \in 1 .. Len(sent) /\ At(reader, p, l) /\ reader.state # "RECEIVE"
    BY <1>7 DEF ReadsOn
  <2>2. Follows(AfterLine(reader, p[l + 1]), p, l + 1)
    BY Zenon, <1>1, <2>1, SentPackets, NextLineOfPacket
  <2>3. Follows(reader', p, l + 1) /\ place' = [packet |-> k, line |-> l + 1]
    BY Zenon, <1>1, <1>7, <2>2 DEF ReadsOn
  <2>4. /\ reader' \in ReaderType /\ reader'.sends # "receive"
        /\ (Astray(reader') /\ reader'.sends = "no") \/ At(reader', p, l + 1)
    BY Zenon, <2>3 DEF Follows
  <2>5. place'.packet = k /\ place'.line = l + 1 /\ k # 0
    BY <2>1, <2>3
  <2>6. At(reader', p, l + 1) => At(reader', sent'[place'.packet], place'.line)
    BY Zenon, <1>1, <2>5
  <2>7. ReaderKept'
    BY <1>1, <1>2, <2>4, <2>5, <2>6 DEF ReaderKept
  <2>8. Heard' = Heard
    BY <1>1, <1>5, <2>4 DEF Heard
  <2>9. ~Astray(reader)
    <3> HIDE DEF p, l
    <3> QED BY <1>1, <2>1 DEF At, Astray, ReaderType
  <2> QED BY <1>1, <1>3, <1>4, <1>5, <2>4, <2>5, <2>7, <2>8, <2>9 DEF EventsKept
<1>8. CASE BeginsNext
  <2> DEFINE k == place.packet + 1
             p == sent[k]
             r == AfterLine(reader, p[1])
  <2>1. k \in 1 .. Len(sent) /\ reader.state = "RECEIVE" /\ reader' = r
    BY <1>1, <1>8 DEF BeginsNext
  <2>2. place'.packet = k /\ place'.line = 1 /\ k # 0 /\ place.packet = k - 1
    <3>1. place.packet \in Nat
      BY DEF ReaderKept
    <3> QED BY <1>1, <1>8, <3>1 DEF BeginsNext
  <2>3. /\ r \in ReaderType /\ At(r, p, 1) /\ r.state # "DATA" /\ r.sends # "reply"
        /\ IF p[1].is = "press" THEN r.sends = "receive" /\ r.button = p[1].n
                                ELSE r.sends \in {"no", "panic"}
    <3>1. p \in Seq(Line) /\ IsPacket(p)
      BY <2>1, SentPackets
    <3> QED BY Zenon, <1>1, <2>1, <3>1, FirstLine
  <2>4. At(reader', sent'[place'.packet], place'.line)
    BY Zenon, <1>1, <2>1, <2>2, <2>3
  <2>5. ReaderKept'
    BY <1>1, <1>2, <2>1, <2>2, <2>3, <2>4 DEF ReaderKept
  <2>6. ~Astray(reader) /\ ~Astray(reader') /\ g[k - 1] = Heard
    BY <1>3, <2>1, <2>2, <2>3 DEF Astray
  <2>7. g[k] \in 0 .. Len(pressed)
    BY <1>3, <2>1
  <2>8. CASE p[1].is = "press"
    <3>1. g[k] = Heard + 1 /\ pressed[g[k]] = p[1].n
      BY <1>3, <2>1, <2>6, <2>8 DEF Counts
    <3>2. Heard' = Heard + 1
      BY <1>1, <1>5, <2>1, <2>3, <2>8 DEF Heard
    <3>3. Heard' <= Len(pressed) /\ reader'.button = pressed[Heard']
      BY <1>5, <2>1, <2>3, <2>7, <2>8, <3>1, <3>2
    <3>4. g[place'.packet] = Heard'
      BY <2>2, <3>1, <3>2
    <3> HIDE DEF p, r, k
    <3> QED BY <1>1, <1>3, <1>4, <1>5, <2>5, <3>3, <3>4 DEF EventsKept
  <2>9. CASE p[1].is # "press"
    <3>1. g[k] = Heard
      BY <1>3, <2>1, <2>6, <2>9 DEF Counts
    <3>2. Heard' = Heard
      BY <1>1, <1>5, <2>1, <2>3, <2>9 DEF Heard
    <3> QED BY <1>1, <1>3, <1>4, <1>5, <2>1, <2>2, <2>3, <2>5, <2>9, <3>1, <3>2
            DEF EventsKept
  <2> QED BY <2>8, <2>9
<1> QED BY <1>6, <1>7, <1>8, WhereItReads

-----------------------------------------------------------------------------
(* The steps of lircd, of Run and its handler, and of the message router.        *)

\* What a step leaves alone stays as it was.
LEMMA ReaderUntouched ==
  ASSUME ReaderKept, UNCHANGED <<reader, place, sent>>
  PROVE  ReaderKept'
BY DEF ReaderKept

LEMMA EventsUntouched ==
  ASSUME EventsKept, UNCHANGED <<reader, place, sent, pressed, runner, eventCount>>
  PROVE  EventsKept'
<1>1. Heard' = Heard
  BY DEF Heard
<1>2. \A g : Counts(g)' <=> Counts(g)
  BY DEF Counts
<1> QED BY <1>1, <1>2 DEF EventsKept

LEMMA SendsUntouched ==
  ASSUME SendsKept, UNCHANGED <<pressed, eventCount, sndQ, payload, taken>>
  PROVE  SendsKept'
BY DEF SendsKept

\* A packet sent comes after all the reader has read, and its press after all presses.
LEMMA LircdSendsKeeps ==
  ASSUME LircIInv, LircTypeOK, NEW p \in Packets, LircdSends(p)
  PROVE  /\ ReaderKept' /\ EventsKept' /\ SendsKept'
         /\ sent' \in Seq(Packets) /\ pressed' \in Seq(Nat)
<1> USE DEF LircIInv
<1>1. /\ Len(sent) < MaxPackets /\ sent' = Append(sent, p)
      /\ pressed' = IF p[1].is = "press" THEN Append(pressed, p[1].n) ELSE pressed
      /\ UNCHANGED <<place, reader, runner, eventCount, sndQ, payload, taken>>
  BY DEF LircdSends
<1>2. p \in Seq(Line) /\ IsPacket(p) /\ MaxPackets \in Nat
  BY LircAssumption
<1>3. p[1].n \in Nat
  <2>1. Len(p) >= 1 /\ Len(p) \in Nat
    BY <1>2 DEF IsPacket
  <2>2. p[1] \in Line
    BY <1>2, <2>1
  <2> QED BY <2>2 DEF Line
<1>4. /\ sent \in Seq(Packets) /\ pressed \in Seq(Nat)
      /\ Len(sent) \in Nat /\ Len(pressed) \in Nat
  BY DEF LircTypeOK
<1>5. /\ sent' \in Seq(Packets) /\ Len(sent') = Len(sent) + 1 /\ sent'[Len(sent) + 1] = p
      /\ \A k \in 1 .. Len(sent) : sent'[k] = sent[k]
  BY <1>1, <1>4, AppendProperties
<1>6. /\ pressed' \in Seq(Nat) /\ \A k \in 1 .. Len(pressed) : pressed'[k] = pressed[k]
      /\ Len(pressed') = Len(pressed) + (IF p[1].is = "press" THEN 1 ELSE 0)
      /\ p[1].is = "press" => pressed'[Len(pressed) + 1] = p[1].n
  BY <1>1, <1>3, <1>4, AppendProperties
<1>7. place \in [packet : 0 .. Len(sent), line : Nat]
  BY DEF ReaderKept
<1>8. ReaderKept'
  <2>1. place.packet # 0 => sent'[place.packet] = sent[place.packet]
    BY <1>4, <1>5, <1>7
  <2>2. place' \in [packet : 0 .. Len(sent'), line : Nat]
    BY <1>1, <1>4, <1>5, <1>7
  <2>3. At(reader, sent[place.packet], place.line) /\ place.packet # 0 =>
          At(reader', sent'[place'.packet], place'.line)
    BY Zenon, <1>1, <2>1
  <2> QED BY <1>1, <2>2, <2>3 DEF ReaderKept
<1>9. PICK g \in [0 .. Len(sent) -> 0 .. Len(pressed)] :
        Counts(g) /\ (Astray(reader) \/ g[place.packet] = Heard)
  BY DEF EventsKept
<1>10. /\ Heard \in Nat /\ Heard' = Heard /\ eventCount \in Nat /\ eventCount <= Heard
       /\ runner.pc = "handle" => eventCount + 1 <= Heard
       /\ reader.sends = "receive" => Heard >= 1
       /\ Heard <= Len(pressed)
  BY <1>1 DEF EventsKept, Heard
<1>11. EventsKept'
  <2>1. PICK h \in [0 .. Len(sent') -> 0 .. Len(pressed')] :
          (\A k \in 0 .. Len(sent) : h[k] = g[k]) /\ h[Len(sent')] = Len(pressed')
    <3> DEFINE f == [k \in 0 .. Len(sent') |-> IF k <= Len(sent) THEN g[k] ELSE Len(pressed')]
    <3>1. f \in [0 .. Len(sent') -> 0 .. Len(pressed')]
      BY <1>4, <1>5, <1>6, <1>9
    <3>2. (\A k \in 0 .. Len(sent) : f[k] = g[k]) /\ f[Len(sent')] = Len(pressed')
      BY <1>4, <1>5
    <3> HIDE DEF f
    <3> QED BY <3>1, <3>2
  <2>2. Counts(h)'
    <3>1. h[0] = 0
      BY <1>4, <1>9, <2>1 DEF Counts
    <3>2. ASSUME NEW k \in 1 .. Len(sent')
          PROVE  IF sent'[k][1].is = "press"
                 THEN h[k] = h[k - 1] + 1 /\ pressed'[h[k]] = sent'[k][1].n
                 ELSE h[k] = h[k - 1]
      <4>1. CASE k \in 1 .. Len(sent)
        <5>1. /\ k \in 0 .. Len(sent) /\ k - 1 \in 0 .. Len(sent) /\ sent'[k] = sent[k]
              /\ h[k] = g[k] /\ h[k - 1] = g[k - 1]
              /\ g[k] \in 0 .. Len(pressed) /\ g[k - 1] \in 0 .. Len(pressed)
          BY <1>4, <1>5, <1>9, <2>1, <4>1
        <5>2. IF sent[k][1].is = "press" THEN g[k] = g[k - 1] + 1 /\ pressed[g[k]] = sent[k][1].n
                                         ELSE g[k] = g[k - 1]
          BY <1>9, <4>1 DEF Counts
        <5>3. sent[k][1].is = "press" => g[k] \in 1 .. Len(pressed)
          BY <1>4, <5>1, <5>2
        <5> QED BY <1>6, <5>1, <5>2, <5>3
      <4>2. CASE k = Len(sent) + 1
        <5>1. h[k] = Len(pressed') /\ h[k - 1] = Len(pressed) /\ sent'[k] = p
          <6>1. k = Len(sent') /\ k - 1 = Len(sent) /\ Len(sent) \in 0 .. Len(sent)
            BY <1>4, <1>5, <4>2
          <6>2. g[Len(sent)] = Len(pressed)
            BY <1>9 DEF Counts
          <6> QED BY <1>5, <2>1, <4>2, <6>1, <6>2
        <5> QED BY <1>4, <1>6, <5>1
      <4> QED BY <1>4, <1>5, <4>1, <4>2
    <3> QED BY <2>1, <3>1, <3>2 DEF Counts
  <2>3. Astray(reader') \/ h[place'.packet] = Heard'
    BY <1>1, <1>7, <1>9, <1>10, <2>1
  <2>4. runner'.pc = "handle" => runner'.button = pressed'[eventCount' + 1]
    BY <1>1, <1>4, <1>6, <1>10 DEF EventsKept
  <2>5. reader'.sends = "receive" => reader'.button = pressed'[Heard']
    BY <1>1, <1>4, <1>6, <1>10 DEF EventsKept
  <2>6. /\ Len(pressed') <= Len(sent') /\ Len(sent') <= MaxPackets /\ Heard' <= Len(pressed')
    BY <1>1, <1>2, <1>4, <1>5, <1>6, <1>10 DEF EventsKept
  <2> QED BY <1>1, <2>1, <2>2, <2>3, <2>4, <2>5, <2>6 DEF EventsKept
<1>12. SendsKept'
  <2>1. /\ Len(taken) \in Nat /\ Len(sndQ.items) \in Nat
        /\ Len(taken) + Len(sndQ.items) <= Len(pressed)
    BY <1>4, <1>10 DEF SendsKept, LircTypeOK, QueueType
  <2>2. ASSUME NEW i \in 1 .. Len(sndQ.items)
        PROVE  pressed'[Len(taken) + i] = pressed[Len(taken) + i]
    <3>1. Len(taken) + i \in 1 .. Len(pressed)
      BY <1>4, <2>1
    <3> QED BY <1>6, <3>1
  <2>3. ASSUME NEW i \in 1 .. Len(taken) PROVE pressed'[i] = pressed[i]
    <3>1. i \in 1 .. Len(pressed)
      BY <1>4, <2>1
    <3> QED BY <1>6, <3>1
  <2> QED BY <1>1, <2>2, <2>3 DEF SendsKept
<1> QED BY <1>5, <1>6, <1>8, <1>11, <1>12

\* The reader has returned: nothing else has changed.
LEMMA ScanEndsKeeps ==
  ASSUME ReaderKept, EventsKept, ScanEnds
  PROVE  ReaderKept' /\ EventsKept'
<1> DEFINE s == [reader EXCEPT !.sends = "ended"]
<1>1. /\ reader.sends = "no" /\ reader' = s /\ reader \in ReaderType
      /\ UNCHANGED <<sent, pressed, place, runner, eventCount>>
  BY DEF ScanEnds, ReaderKept
<1>2. /\ s \in ReaderType /\ s.sends = "ended" /\ s.state = reader.state
      /\ s.message = reader.message /\ s.dataCnt = reader.dataCnt
  BY <1>1 DEF ReaderType, Sending
<1> HIDE DEF s
<1>3. Astray(s) <=> Astray(reader)
  BY <1>2 DEF Astray
<1>4. \A p, j : At(reader, p, j) => At(s, p, j)
  BY <1>1, <1>2 DEF At
<1>5. ReaderKept'
  <2>1. /\ sent'[place'.packet] = sent[place.packet] /\ place' = place
        /\ place \in [packet : 0 .. Len(sent'), line : Nat]
    BY <1>1 DEF ReaderKept
  <2>2. At(reader, sent[place.packet], place.line) =>
          At(reader', sent'[place'.packet], place'.line)
    BY Zenon, <1>1, <1>4, <2>1
  <2> QED BY <1>1, <1>2, <1>3, <2>1, <2>2 DEF ReaderKept
<1>6. Heard' = Heard
  BY <1>1, <1>2 DEF Heard
<1>7. \A g : Counts(g)' <=> Counts(g)
  BY <1>1 DEF Counts
<1> QED BY <1>1, <1>2, <1>3, <1>5, <1>6, <1>7 DEF EventsKept

\* The press is handed over: it stays told of.
LEMMA RunnerTakesKeeps ==
  ASSUME LircIInv, LircTypeOK, RunnerTakes
  PROVE  ReaderKept' /\ EventsKept'
<1> USE DEF LircIInv
<1> DEFINE s == [reader EXCEPT !.sends = "no"]
<1>1. /\ reader.sends = "receive" /\ runner.pc = "select" /\ reader' = s
      /\ runner' = [pc |-> "handle", button |-> reader.button]
      /\ UNCHANGED <<sent, pressed, place, eventCount>> /\ reader \in ReaderType
  BY DEF RunnerTakes, ReaderKept
<1>2. place.packet # 0 /\ At(reader, sent[place.packet], place.line) /\ ~Astray(reader)
  <2>1. place.packet # 0 /\ At(reader, sent[place.packet], place.line)
    BY <1>1 DEF ReaderKept
  <2>2. reader.state = "RECEIVE"
    BY <1>1, <2>1 DEF At
  <2> QED BY <2>1, <2>2 DEF Astray
<1>3. /\ s \in ReaderType /\ s.sends = "no" /\ s.state = reader.state /\ s.button = reader.button
      /\ s.message = reader.message /\ s.dataCnt = reader.dataCnt
  BY <1>1 DEF ReaderType, Sending
<1> HIDE DEF s
<1>4. At(s, sent[place.packet], place.line) /\ ~Astray(s)
  BY <1>1, <1>2, <1>3 DEF At, Astray
<1>5. ReaderKept'
  <2>1. At(reader', sent'[place'.packet], place'.line)
    BY Zenon, <1>1, <1>4
  <2> QED BY <1>1, <1>2, <1>3, <2>1 DEF ReaderKept
<1>6. PICK g \in [0 .. Len(sent) -> 0 .. Len(pressed)] :
        Counts(g) /\ (Astray(reader) \/ g[place.packet] = Heard)
  BY DEF EventsKept
<1>7. Heard = eventCount + 1 /\ Heard' = Heard /\ eventCount \in Nat
  BY <1>1, <1>3 DEF Heard, EventsKept
<1>8. EventsKept'
  <2>1. Counts(g)'
    BY <1>1, <1>6 DEF Counts
  <2>2. g[place'.packet] = Heard'
    BY <1>1, <1>2, <1>6, <1>7
  <2>3. reader.button \in Nat /\ reader.button = pressed[eventCount + 1]
    BY <1>1, <1>7 DEF ReaderType, EventsKept
  <2>4. reader'.sends # "receive"
    BY <1>1, <1>3
  <2>5. runner' \in [pc : {"select", "handle", "exited"}, button : Nat]
    BY <1>1, <2>3
  <2> QED BY <1>1, <1>6, <1>7, <2>1, <2>2, <2>3, <2>4, <2>5 DEF EventsKept
<1> QED BY <1>5, <1>8

\* The handler numbers the press with the count of the presses before it: no request
\* in the queue has that number, and the press has its own place there.
LEMMA HandlesKeeps ==
  ASSUME LircIInv, LircTypeOK, Handles
  PROVE  ReaderKept' /\ EventsKept' /\ SendsKept' /\ sndQ' \in QueueType(0 .. MaxPackets)
<1> USE DEF LircIInv
<1>1. /\ runner.pc = "handle" /\ eventCount' = eventCount + 1 /\ sndQ' = QAdd(sndQ, eventCount)
      /\ payload' = IF Appends(sndQ, eventCount)
                    THEN [payload EXCEPT ![eventCount] = runner.button] ELSE payload
      /\ runner' = [pc |-> "select", button |-> 0]
      /\ UNCHANGED <<sent, pressed, place, reader, taken>>
  BY DEF Handles
<1>2. /\ eventCount \in Nat /\ Heard' = Heard /\ Heard \in Nat /\ eventCount + 1 <= Heard
      /\ Heard <= Len(pressed) /\ Len(pressed) <= Len(sent) /\ Len(sent) <= MaxPackets
      /\ runner.button \in Nat /\ runner.button = pressed[eventCount + 1]
  BY <1>1 DEF EventsKept, Heard
<1>3. MaxPackets \in Nat /\ Len(pressed) \in Nat /\ Len(sent) \in Nat
  BY LircAssumption DEF LircTypeOK
<1>4. eventCount \in 0 .. MaxPackets
  BY <1>2, <1>3
<1>5. ReaderKept'
  BY <1>1, ReaderUntouched
<1>6. EventsKept'
  <2>1. \A g : Counts(g)' <=> Counts(g)
    BY <1>1 DEF Counts
  <2> QED BY <1>1, <1>2, <2>1 DEF EventsKept
<1>7. /\ sndQ \in QueueType(0 .. MaxPackets) /\ sndQ.items \in Seq(0 .. MaxPackets)
      /\ Len(sndQ.items) \in Nat /\ Len(taken) \in Nat
      /\ payload \in [0 .. MaxPackets -> Nat]
  BY DEF LircTypeOK, SendsKept, QueueType
<1> DEFINE S == 0 .. MaxPackets
<1>8. /\ sndQ \in QueueType(S) /\ sndQ.items \in Seq(S) /\ eventCount \in S
      /\ sndQ' \in QueueType(S)
  BY <1>1, <1>4, <1>7, QueueOpsType
<1>9. CASE sndQ.closed
  <2>1. sndQ' = sndQ /\ payload' = payload
    BY <1>1, <1>4, <1>7, <1>9, AddEffect DEF Appends, Accepts
  <2>2. SendsKept'
    <3>1. Len(taken) + Len(sndQ.items) <= eventCount'
      BY <1>1, <1>2, <1>7 DEF SendsKept
    <3> QED BY <1>1, <1>9, <2>1, <3>1 DEF SendsKept
  <2> QED BY <1>5, <1>6, <1>8, <2>2
<1>10. CASE ~sndQ.closed
  <2> DEFINE i == sndQ.items
             n == Len(taken)
  <2>1. /\ n + Len(i) = eventCount /\ sndQ.processing = {} /\ sndQ.dirty \subseteq Elems(i)
        /\ \A k \in 1 .. Len(i) : i[k] = n + k - 1 /\ payload[i[k]] = pressed[n + k]
        /\ \A k \in 1 .. n : taken[k] = pressed[k]
    BY <1>10 DEF SendsKept
  <2>2. DOMAIN i = 1 .. Len(i)
    BY <1>7
  <2>3. eventCount \notin sndQ.dirty
    <3>1. \A k \in 1 .. Len(i) : i[k] # eventCount
      BY <1>7, <2>1
    <3> QED BY <2>1, <2>2, <3>1 DEF Elems
  <2>4. Appends(sndQ, eventCount)
    BY <1>10, <2>1, <2>3 DEF Appends, Accepts
  <2>5. /\ sndQ'.items = Append(i, eventCount) /\ sndQ'.processing = {}
        /\ sndQ'.dirty = sndQ.dirty \cup {eventCount} /\ ~sndQ'.closed
    <3>1. eventCount \notin sndQ.processing
      BY <2>1
    <3> HIDE DEF S
    <3>2. LET a == QAdd(sndQ, eventCount)
          IN /\ a.items = Append(i, eventCount) /\ a.processing = sndQ.processing
             /\ a.dirty = sndQ.dirty \cup {eventCount} /\ ~a.closed
      BY Zenon, <1>8, <1>10, <2>3, <3>1, AddEffect
    <3> QED BY <1>1, <2>1, <3>2
  <2>6. Elems(sndQ'.items) = Elems(i) \cup {eventCount}
    <3>1. sndQ.items \in Seq(S) /\ eventCount \in S
      BY <1>8
    <3> HIDE DEF S
    <3>2. Elems(Append(sndQ.items, eventCount)) = Elems(sndQ.items) \cup {eventCount}
      BY <3>1, ElemsAppend
    <3> QED BY <2>5, <3>2
  <2>7. /\ payload' = [payload EXCEPT ![eventCount] = runner.button]
        /\ payload' \in [0 .. MaxPackets -> Nat]
    BY <1>1, <1>2, <1>7, <2>4
  <2> DEFINE j == sndQ'.items
  <2>8. /\ Len(j) = Len(i) + 1 /\ j[Len(i) + 1] = eventCount
        /\ \A k \in 1 .. Len(i) : j[k] = i[k]
    BY <1>4, <1>7, <2>5, AppendProperties
  <2> HIDE DEF i, j
  <2>9. ASSUME NEW k \in 1 .. Len(j)
        PROVE  j[k] = n + k - 1 /\ payload'[j[k]] = pressed[n + k]
    <3>1. CASE k = Len(i) + 1
      <4>1. j[k] = eventCount /\ eventCount = n + k - 1 /\ eventCount + 1 = n + k
        <5>1. Len(i) \in Nat /\ n \in Nat /\ n + Len(i) = eventCount
          BY <1>7, <2>1 DEF i
        <5>2. eventCount = n + k - 1 /\ eventCount + 1 = n + k
          BY <3>1, <5>1
        <5> QED BY <2>8, <3>1, <5>2
      <4>2. payload'[eventCount] = pressed[eventCount + 1]
        BY <1>2, <1>4, <1>7, <2>7
      <4> QED BY <4>1, <4>2
    <3>2. CASE k \in 1 .. Len(i)
      <4>1. j[k] = i[k] /\ i[k] # eventCount /\ i[k] = n + k - 1 /\ payload[i[k]] = pressed[n + k]
        BY <1>2, <1>7, <2>1, <2>8, <3>2 DEF i
      <4>2. payload'[i[k]] = payload[i[k]]
        <5>1. i[k] \in 0 .. MaxPackets
          <6>1. i \in Seq(S)
            BY <1>8 DEF i
          <6> HIDE DEF S
          <6>2. i[k] \in S
            BY <3>2, <6>1
          <6> QED BY <6>2 DEF S
        <5> QED BY <1>7, <2>7, <4>1, <5>1
      <4> QED BY <4>1, <4>2
    <3> QED BY <1>7, <2>8, <2>9, <3>1, <3>2 DEF i
  <2>10. /\ n + Len(j) = eventCount' /\ sndQ'.dirty \subseteq Elems(j)
    BY <1>1, <1>7, <2>1, <2>5, <2>6, <2>8 DEF i, j
  <2>11. SendsKept'
    <3>1. Len(taken) + Len(j) <= eventCount'
      BY <1>1, <1>2, <2>10
    <3> QED BY <1>1, <2>1, <2>5, <2>7, <2>9, <2>10, <3>1 DEF SendsKept, j
  <2> QED BY <1>5, <1>6, <1>8, <2>11
<1> QED BY <1>9, <1>10

\* The message router takes the oldest event, which is the next press.
LEMMA RouterTakesKeeps ==
  ASSUME LircIInv, LircTypeOK, RouterTakes
  PROVE  /\ SendsKept' /\ sndQ' \in QueueType(0 .. MaxPackets) /\ taken' \in Seq(Nat)
         /\ UNCHANGED <<reader, place, sent, pressed, runner, eventCount>>
<1> USE DEF LircIInv
<1> DEFINE i == sndQ.items
           x == Head(i)
           n == Len(taken)
<1>1. /\ i # <<>> /\ sndQ' = QDone(QTake(sndQ), x) /\ taken' = Append(taken, payload[x])
      /\ UNCHANGED <<sent, pressed, place, reader, runner, eventCount, payload>>
  BY DEF RouterTakes
<1>2. /\ sndQ \in QueueType(0 .. MaxPackets) /\ i \in Seq(0 .. MaxPackets)
      /\ taken \in Seq(Nat) /\ payload \in [0 .. MaxPackets -> Nat]
      /\ n \in Nat /\ eventCount \in Nat
  BY DEF LircTypeOK, SendsKept, QueueType
<1>3. /\ Len(i) \in Nat /\ Len(i) >= 1 /\ x = i[1] /\ x \in 0 .. MaxPackets
      /\ Tail(i) \in Seq(0 .. MaxPackets) /\ Len(Tail(i)) = Len(i) - 1
      /\ \A k \in 1 .. Len(i) - 1 : Tail(i)[k] = i[k + 1]
  <2>1. i # <<>> /\ i \in Seq(0 .. MaxPackets)
    BY <1>1, <1>2
  <2> DEFINE S == 0 .. MaxPackets
  <2>2. i # <<>> /\ i \in Seq(S)
    BY <2>1
  <2> HIDE DEF i, S
  <2>3. /\ Len(i) \in Nat /\ Len(i) >= 1 /\ x = i[1] /\ x \in S
        /\ Tail(i) \in Seq(S) /\ Len(Tail(i)) = Len(i) - 1
        /\ \A k \in 1 .. Len(i) - 1 : Tail(i)[k] = i[k + 1]
    BY <2>2
  <2> QED BY <2>3 DEF S
<1>4. /\ sndQ' \in QueueType(0 .. MaxPackets) /\ sndQ'.items = Tail(i)
      /\ sndQ'.closed = sndQ.closed /\ sndQ'.dirty = sndQ.dirty \ {x}
      /\ sndQ'.processing = sndQ.processing \ {x}
  BY <1>1, <1>2, TakeAndDone
<1>5. Elems(i) \subseteq Elems(Tail(i)) \cup {x}
  BY <1>1, <1>2, ElemsTail
<1>6. /\ sndQ.processing = {} /\ sndQ.dirty \subseteq Elems(i)
      /\ n + Len(i) <= eventCount /\ (~sndQ.closed => n + Len(i) = eventCount)
      /\ \A k \in 1 .. Len(i) : i[k] = n + k - 1 /\ payload[i[k]] = pressed[n + k]
      /\ \A k \in 1 .. n : taken[k] = pressed[k]
  BY DEF SendsKept
<1> DEFINE t == Tail(i)
           v == payload[x]
<1>7. v \in Nat /\ v = pressed[n + 1]
  BY <1>2, <1>3, <1>6
<1> HIDE DEF i, x, t, v
<1>8. /\ taken' \in Seq(Nat) /\ Len(taken') = n + 1 /\ taken'[n + 1] = v
      /\ \A k \in 1 .. n : taken'[k] = taken[k]
  BY <1>1, <1>2, <1>7, AppendProperties DEF v
<1>9. \A k \in 1 .. Len(taken') : taken'[k] = pressed[k]
  <2>1. ASSUME NEW k \in 1 .. n + 1 PROVE taken'[k] = pressed[k]
    <3>1. CASE k = n + 1
      BY <1>7, <1>8, <3>1
    <3>2. CASE k \in 1 .. n
      BY <1>6, <1>8, <3>2
    <3> QED BY <1>2, <3>1, <3>2
  <2> QED BY <1>8, <2>1
<1>10. ASSUME NEW k \in 1 .. Len(t)
       PROVE  t[k] = Len(taken') + k - 1 /\ payload[t[k]] = pressed[Len(taken') + k]
  <2>1. k + 1 \in 1 .. Len(i) /\ t[k] = i[k + 1] /\ k \in Nat
    BY <1>3 DEF t
  <2>2. i[k + 1] = n + (k + 1) - 1 /\ payload[i[k + 1]] = pressed[n + (k + 1)]
    BY <1>6, <2>1
  <2>3. n + (k + 1) - 1 = (n + 1) + k - 1 /\ n + (k + 1) = (n + 1) + k
    BY <1>2, <2>1
  <2> QED BY <1>8, <2>1, <2>2, <2>3
<1>11. /\ Len(taken') + Len(t) <= eventCount /\ (~sndQ.closed => Len(taken') + Len(t) = eventCount)
  <2>1. Len(t) = Len(i) - 1 /\ Len(i) \in Nat
    BY <1>3 DEF t
  <2>2. n + Len(i) <= eventCount /\ (~sndQ.closed => n + Len(i) = eventCount)
    BY <1>6
  <2>3. (n + 1) + (Len(i) - 1) = n + Len(i)
    BY <1>2, <2>1
  <2> QED BY <1>8, <2>1, <2>2, <2>3
<1>12. sndQ'.processing = {} /\ sndQ'.dirty \subseteq Elems(t)
  BY <1>4, <1>5, <1>6 DEF t
<1>13. SendsKept'
  <2>1. sndQ'.items = t /\ sndQ'.closed = sndQ.closed
    BY <1>4 DEF t
  <2> QED BY <1>1, <1>2, <1>9, <1>10, <1>11, <1>12, <2>1 DEF SendsKept
<1> QED BY <1>1, <1>4, <1>8, <1>13

-----------------------------------------------------------------------------
(* The theorem.                                                              *)

LEMMA LircInitHolds == LircInit => LircIInv
<1> SUFFICES ASSUME LircInit PROVE LircIInv
  OBVIOUS
<1> USE DEF LircInit
<1>1. MaxPackets \in Nat /\ MaxMsgs \in Nat
  BY LircAssumption
<1> DEFINE e == <<>>
<1>2. e \in Seq(Packets) /\ e \in Seq(Nat) /\ e \in Seq(Line) /\ Len(e) = 0
  BY EmptySeq
<1>3. NoMessage \in MessageSet
  <2> DEFINE x == Word("")
  <2> HIDE DEF e, x
  <2>2. [command |-> x, success |-> 0, len |-> 0, data |-> e] \in MessageSet
    BY <1>2 DEF MessageSet, x
  <2> QED BY <2>2 DEF NoMessage, e, x
<1>4. reader \in ReaderType /\ reader.state = "RECEIVE" /\ reader.sends = "no"
  <2> DEFINE m == NoMessage
  <2>1. m \in MessageSet
    BY <1>3
  <2> HIDE DEF m
  <2>2. [state |-> "RECEIVE", message |-> m, dataCnt |-> 0, sends |-> "no", button |-> 0]
          \in ReaderType
    BY <2>1 DEF ReaderType, States, Sending
  <2> QED BY <2>2 DEF m
<1>5. ReaderKept
  BY <1>2, <1>4 DEF ReaderKept
<1>6. Heard = 0
  BY <1>4 DEF Heard
<1>7. EventsKept
  <2> DEFINE g == [k \in 0 .. 0 |-> 0]
  <2>1. g \in [0 .. Len(sent) -> 0 .. Len(pressed)] /\ g[0] = 0
    BY <1>2
  <2>2. Counts(g)
    BY <1>2, <2>1 DEF Counts
  <2>3. place.packet = 0
    OBVIOUS
  <2> HIDE DEF g
  <2>4. \E f \in [0 .. Len(sent) -> 0 .. Len(pressed)] :
          Counts(f) /\ (Astray(reader) \/ f[place.packet] = Heard)
    BY <1>6, <2>1, <2>2, <2>3
  <2> QED BY <1>1, <1>2, <1>4, <1>6, <2>4 DEF EventsKept
<1>8. /\ sndQ \in QueueType(0 .. MaxPackets) /\ rcvQ \in QueueType(1 .. MaxMsgs)
      /\ sndQ.items = e /\ sndQ.dirty = {} /\ sndQ.processing = {}
  BY NewQueueType DEF NewQueue
<1>9. SendsKept
  BY <1>1, <1>2, <1>8 DEF SendsKept
<1>10. ListsTyped
  BY <1>1, <1>2, <1>8 DEF ListsTyped
<1> QED BY <1>5, <1>7, <1>9, <1>10 DEF LircIInv

\* The types of all variables follow.
LEMMA LircTypes == LircIInv => LircTypeOK
<1> SUFFICES ASSUME LircIInv PROVE LircTypeOK
  OBVIOUS
<1> USE DEF LircIInv
<1>1. eventCount \in 0 .. MaxPackets
  <2>1. Len(sent) \in Nat /\ Len(pressed) \in Nat /\ MaxPackets \in Nat
    BY LircAssumption DEF ListsTyped
  <2>2. eventCount \in Nat /\ eventCount <= Heard /\ Heard \in Nat
    BY DEF EventsKept, Heard
  <2> QED BY <2>1, <2>2 DEF EventsKept
<1>2. /\ reader.state \in States /\ reader.sends \in Sending
      /\ reader.message.success \in {0, 1} /\ reader.message.data \in Seq(Line)
      /\ place.packet \in 0 .. Len(sent) /\ place.line \in Nat
  BY DEF ReaderKept, ReaderType, MessageSet
<1>3. runner.pc \in {"select", "handle", "exited"}
  BY DEF EventsKept
<1> QED BY <1>1, <1>2, <1>3 DEF ListsTyped, LircTypeOK

\* One step per action: what it leaves alone, and the lemma for what it does not.
LEMMA LircStep == LircIInv /\ [LircNext]_lircVars => LircIInv'
<1> SUFFICES ASSUME LircIInv, [LircNext]_lircVars PROVE LircIInv'
  OBVIOUS
<1>1. /\ ReaderKept /\ EventsKept /\ SendsKept /\ LircTypeOK /\ came \in 0 .. MaxMsgs
      /\ sent \in Seq(Packets) /\ pressed \in Seq(Nat) /\ taken \in Seq(Nat)
      /\ sndQ \in QueueType(0 .. MaxPackets) /\ rcvQ \in QueueType(1 .. MaxMsgs)
      /\ worker \in {"get", "exited"} /\ MaxMsgs \in Nat
  BY LircAssumption, LircTypes DEF LircIInv, ListsTyped
<1> DEFINE Ok == /\ ReaderKept' /\ EventsKept' /\ SendsKept' /\ came' \in 0 .. MaxMsgs
                 /\ sent' \in Seq(Packets) /\ pressed' \in Seq(Nat) /\ taken' \in Seq(Nat)
                 /\ sndQ' \in QueueType(0 .. MaxPackets) /\ rcvQ' \in QueueType(1 .. MaxMsgs)
                 /\ worker' \in {"get", "exited"}
<1>2. SUFFICES Ok
  BY DEF LircIInv, ListsTyped
<1>3. ASSUME NEW p \in Packets, LircdSends(p) PROVE Ok
  BY <1>1, <1>3, LircdSendsKeeps DEF LircdSends
<1>4. CASE ReadLine
  <2>1. ReaderKept' /\ EventsKept'
    BY <1>1, <1>4, ReadLineKeeps
  <2>2. SendsKept'
    BY <1>1, <1>4, SendsUntouched DEF ReadLine
  <2> QED BY <1>1, <1>4, <2>1, <2>2 DEF ReadLine
<1>5. CASE RunnerTakes
  <2>1. ReaderKept' /\ EventsKept'
    BY <1>1, <1>5, RunnerTakesKeeps
  <2>2. SendsKept'
    BY <1>1, <1>5, SendsUntouched DEF RunnerTakes
  <2> QED BY <1>1, <1>5, <2>1, <2>2 DEF RunnerTakes
<1>6. CASE Handles
  BY <1>1, <1>6, HandlesKeeps DEF Handles
<1>7. CASE RunnerExits
  <2>1. ReaderKept' /\ SendsKept'
    BY <1>1, <1>7, ReaderUntouched, SendsUntouched DEF RunnerExits
  <2>2. EventsKept'
    <3>1. /\ runner.pc = "select" /\ runner' = [pc |-> "exited", button |-> 0]
          /\ UNCHANGED <<reader, place, sent, pressed, eventCount>>
      BY <1>7 DEF RunnerExits
    <3>2. Heard' = Heard /\ \A g : Counts(g)' <=> Counts(g)
      BY <3>1 DEF Heard, Counts
    <3> QED BY <1>1, <3>1, <3>2 DEF EventsKept
  <2> QED BY <1>1, <1>7, <2>1, <2>2 DEF RunnerExits
<1>8. CASE RouterTakes
  <2>1. /\ SendsKept' /\ sndQ' \in QueueType(0 .. MaxPackets) /\ taken' \in Seq(Nat)
        /\ UNCHANGED <<reader, place, sent, pressed, runner, eventCount>>
    BY <1>1, <1>8, RouterTakesKeeps
  <2>2. ReaderKept' /\ EventsKept'
    BY <1>1, <2>1, ReaderUntouched, EventsUntouched
  <2> QED BY <1>1, <1>8, <2>1, <2>2 DEF RouterTakes
<1>9. CASE /\ UNCHANGED <<sent, pressed, place, reader, runner, eventCount, payload, taken>>
           /\ sndQ' \in {sndQ, QShutDown(sndQ)} /\ rcvQ' \in QueueType(1 .. MaxMsgs)
           /\ worker' \in {"get", "exited"} /\ came' \in 0 .. MaxMsgs
  <2>1. ReaderKept' /\ EventsKept'
    BY <1>1, <1>9, ReaderUntouched, EventsUntouched
  <2>2. sndQ' \in QueueType(0 .. MaxPackets)
    BY <1>1, <1>9, QShutDownType
  <2>3. /\ sndQ'.items = sndQ.items /\ sndQ'.dirty = sndQ.dirty
        /\ sndQ'.processing = sndQ.processing /\ (sndQ.closed => sndQ'.closed)
    BY <1>1, <1>9 DEF QShutDown, QueueType
  <2>4. SendsKept'
    BY <1>1, <1>9, <2>3 DEF SendsKept
  <2> QED BY <1>1, <1>9, <2>1, <2>2, <2>4
<1>10. CASE RouterAdds
  <2>1. came + 1 \in 1 .. MaxMsgs
    BY <1>1, <1>10 DEF RouterAdds
  <2>2. rcvQ' \in QueueType(1 .. MaxMsgs)
    BY <1>1, <1>10, <2>1, QueueOpsType DEF RouterAdds
  <2> QED BY <1>1, <1>9, <1>10, <2>1, <2>2 DEF RouterAdds
<1>11. CASE WorkerGets
  <2>1. rcvQ' \in QueueType(1 .. MaxMsgs)
    BY <1>1, <1>11, TakeAndDone DEF WorkerGets
  <2> QED BY <1>1, <1>9, <1>11, <2>1 DEF WorkerGets
<1>12. CASE Stop
  <2>1. rcvQ' \in QueueType(1 .. MaxMsgs)
    BY <1>1, <1>12, QShutDownType DEF Stop
  <2> QED BY <1>1, <1>9, <1>12, <2>1 DEF Stop
<1>13. CASE ScanEnds
  <2>1. SendsKept'
    BY <1>1, <1>13, SendsUntouched DEF ScanEnds
  <2> QED BY <1>1, <1>13, <2>1, ScanEndsKeeps DEF ScanEnds
<1>14. CASE UNCHANGED lircVars
  BY <1>1, <1>9, <1>14 DEF lircVars
<1> QED
  <2> HIDE DEF Ok
  <2> QED BY <1>3, <1>4, <1>5, <1>6, <1>7, <1>8, <1>10, <1>11, <1>12, <1>13, <1>14 DEF LircNext

\* What is taken is what was pressed first.
LEMMA TakenIsPrefix == LircIInv => ReplyIsPacket /\ PressesInOrder
<1> SUFFICES ASSUME LircIInv PROVE ReplyIsPacket /\ PressesInOrder
  OBVIOUS
<1> USE DEF LircIInv
<1>1. ReplyIsPacket
  BY DEF ReplyIsPacket, ReaderKept, At
<1> DEFINE n == Len(taken)
<1>2. /\ taken \in Seq(Nat) /\ pressed \in Seq(Nat) /\ n \in Nat /\ Len(pressed) \in Nat
      /\ \A k \in 1 .. n : taken[k] = pressed[k]
  BY DEF ListsTyped, SendsKept
<1>3. n <= Len(pressed)
  <2>1. /\ n + Len(sndQ.items) <= eventCount /\ Len(sndQ.items) \in Nat
    BY DEF SendsKept, ListsTyped, QueueType
  <2>2. eventCount <= Heard /\ Heard <= Len(pressed) /\ eventCount \in Nat /\ Heard \in Nat
    BY DEF EventsKept, Heard
  <2> QED BY <1>2, <2>1, <2>2
<1>4. SubSeq(taken, 1, n) = SubSeq(pressed, 1, n)
  <2>1. /\ SubSeq(taken, 1, n) \in Seq(Nat) /\ Len(SubSeq(taken, 1, n)) = n
        /\ \A k \in 1 .. n : SubSeq(taken, 1, n)[k] = taken[k]
    BY <1>2
  <2>2. /\ SubSeq(pressed, 1, n) \in Seq(Nat) /\ Len(SubSeq(pressed, 1, n)) = n
        /\ \A k \in 1 .. n : SubSeq(pressed, 1, n)[k] = pressed[k]
    BY <1>2, <1>3
  <2> QED BY <1>2, <2>1, <2>2, SeqEqual
<1> QED BY <1>1, <1>3, <1>4 DEF PressesInOrder, IsPrefix

\* Whatever lines lircd sends, cut into packets: the reader keeps its place among them,
\* a reply says what its packet says, and the message router gets the presses in order,
\* none lost and none twice (lirc.go:64-172, lirc.go:161-182 of the controller).
THEOREM PressesKeepOrder == LircSpec => []LircInv
<1>1. LircIInv => LircInv
  BY TakenIsPrefix, LircTypes DEF LircInv
<1> QED BY <1>1, LircInitHolds, LircStep, PTL DEF LircSpec

=============================================================================
