----------------------------- MODULE PluginProofs -----------------------------
(***************************************************************************)
(* The two sides of a plugin, its message streams and its process.         *)
(* Streams, for any streams, messages, envelopes and messages without      *)
(* external form: a registered stream of the message server is sent every  *)
(* message copied since, once and in order; the streams of a plugin share  *)
(* out the messages of their one queue; and a send routine sleeps inside   *)
(* Get only where another one takes from the same queue.                   *)
(* Process, for any number of starts, deaths, failures and crashes: a      *)
(* process is waited for by one goroutine at most and restarted only when  *)
(* it is dead, and StopProcess ends the process that StartProcess started. *)
(***************************************************************************)
EXTENDS MsgStreams, ProcWatcher, DataLemmas

-----------------------------------------------------------------------------
(* The inductive invariant.                                                  *)

\* A stream that takes part in the broadcast, and one whose queue is listed.
Active == {"recv", "take", "leave"}
Listed == Active \cup {"remove"}

\* The messages that have left the receive queue of the message server.
Copied == IF caster.pc = "cast" THEN caster.msg ELSE casts

\* The receive queue holds the messages after those, in order, all of them until it
\* is shut; that of a plugin holds some of them.
ReceiveQueueKept ==
  /\ rcvQ.dirty \subseteq Elems(rcvQ.items)
  /\ Rising(rcvQ.items) /\ Elems(rcvQ.items) \subseteq 1 .. added
  /\ rcvQ.processing = IF caster.pc = "cast" THEN {caster.msg} ELSE {}
  /\ IF server = "grpc"
     THEN /\ caster.pc \in {"get", "cast", "exited"}
          /\ caster.pc = "cast" => caster.msg = casts + 1
          /\ \A k \in DOMAIN rcvQ.items : rcvQ.items[k] = Copied + k
          /\ Copied + Len(rcvQ.items) <= added
          /\ ~rcvQ.closed => Copied + Len(rcvQ.items) = added
     ELSE caster.pc = "none" /\ casts = 0

\* The list of queues has each registered stream once, and their IDs differ.
ListKept ==
  /\ \A s \in Streams :
       s \in Elems(streamQs) <=> server = "grpc" /\ st[s].recv \in Listed
  /\ \A j, k \in DOMAIN streamQs : streamQs[j] = streamQs[k] => j = k
  /\ \A s \in Elems(streamQs) : st[s].id \in 0 .. sQCount - 1
  /\ \A s, t \in Elems(streamQs) : st[s].id = st[t].id => s = t

\* Nobody else takes from the queue of the stream.
Alone(s) == server = "grpc" \/ \A t \in Streams \ {s} : st[t].send = "none"

\* A stream before its registration, a send routine in its batch, and the last
\* envelope of a stream that is gone.
StreamKept(s) ==
  /\ st[s].recv \in {"none", "lock"} => st[s].send = "none" /\ Out(s) = <<>>
  /\ st[s].recv = "take" => st[s].inbox # <<>>
  /\ st[s].recv \in {"lock", "remove"} => server = "grpc"
  /\ st[s].send = "get" => st[s].left > 0
  /\ Alone(s) /\ st[s].send = "get" => st[s].left <= Len(QueueOf(s).items)
  /\ st[s].afterwards <= IF st[s].send = "exited" THEN 1 ELSE 0

\* The queue of a stream holds the last messages copied, and what it has sent are
\* those before.
BroadcastKept(s) ==
  server = "grpc" =>
    /\ st[s].q.processing = {}
    /\ st[s].q.closed <=> st[s].recv \in {"remove", "gone"}
    /\ st[s].recv \in {"none", "lock"} => st[s].q = NewQueue
    /\ st[s].recv \in Active =>
         LET n == casts - Len(st[s].q.items)
         IN /\ st[s].since <= n
            /\ \A k \in DOMAIN st[s].q.items : st[s].q.items[k] = n + k
            /\ st[s].q.dirty = Elems(st[s].q.items)
            /\ st[s].send # "exited" =>
                 Rising(Out(s)) /\ Elems(Out(s)) = (st[s].since + 1 .. n) \ BadOf[server]

\* What a plugin sends is in order, on one stream, and comes before what is queued.
SharingKept ==
  server = "mpi" =>
    /\ SentOnceInOrder
    /\ \A s \in Streams : Elems(Out(s)) \subseteq 1 .. added
    /\ \A s \in Streams, k \in DOMAIN rcvQ.items : \A x \in Elems(Out(s)) : x < rcvQ.items[k]

IInv == /\ TypeOK /\ ReceiveQueueKept /\ ListKept /\ SharingKept
        /\ \A s \in Streams : StreamKept(s) /\ BroadcastKept(s)

-----------------------------------------------------------------------------
(* Sequences of messages.                                                    *)

\* A message behind all others.
LEMMA RisingAppend ==
  ASSUME NEW a \in Seq(Int), NEW x \in Int, Rising(a), \A y \in Elems(a) : y < x
  PROVE  Rising(Append(a, x))
<1>1. /\ DOMAIN Append(a, x) = 1 .. Len(a) + 1 /\ DOMAIN a = 1 .. Len(a) /\ Len(a) \in Nat
      /\ Append(a, x)[Len(a) + 1] = x /\ \A k \in 1 .. Len(a) : Append(a, x)[k] = a[k]
  BY AppendProperties
<1>2. \A k \in 1 .. Len(a) : a[k] < x
  BY <1>1 DEF Elems
<1> SUFFICES ASSUME NEW i \in 1 .. Len(a) + 1, NEW j \in 1 .. Len(a) + 1, i < j
             PROVE  Append(a, x)[i] < Append(a, x)[j]
  BY <1>1 DEF Rising
<1>3. CASE j = Len(a) + 1
  BY <1>1, <1>2, <1>3
<1>4. CASE j # Len(a) + 1
  BY <1>1, <1>4 DEF Rising
<1> QED BY <1>3, <1>4

\* The head is the least.
LEMMA RisingTail ==
  ASSUME NEW a \in Seq(Int), a # <<>>, Rising(a)
  PROVE  /\ Rising(Tail(a)) /\ \A y \in Elems(Tail(a)) : Head(a) < y
         /\ \A k \in DOMAIN Tail(a) : k + 1 \in DOMAIN a /\ Tail(a)[k] = a[k + 1]
         /\ Len(Tail(a)) = Len(a) - 1 /\ Len(a) >= 1 /\ Head(a) = a[1]
<1>1. /\ DOMAIN Tail(a) = 1 .. Len(a) - 1 /\ DOMAIN a = 1 .. Len(a) /\ Len(a) \in Nat
      /\ Len(a) >= 1 /\ Len(Tail(a)) = Len(a) - 1 /\ Head(a) = a[1]
      /\ \A k \in 1 .. Len(a) - 1 : Tail(a)[k] = a[k + 1]
  OBVIOUS
<1>2. Rising(Tail(a))
  BY <1>1 DEF Rising
<1>3. \A k \in 1 .. Len(a) - 1 : Head(a) < Tail(a)[k]
  BY <1>1 DEF Rising
<1> QED BY <1>1, <1>2, <1>3 DEF Elems

\* One sequence behind another.
LEMMA RisingConcat ==
  ASSUME NEW a \in Seq(Int), NEW b \in Seq(Int), Rising(a), Rising(b),
         \A x \in Elems(a), y \in Elems(b) : x < y
  PROVE  Rising(a \o b)
<1>1. /\ DOMAIN (a \o b) = 1 .. Len(a) + Len(b) /\ DOMAIN a = 1 .. Len(a)
      /\ DOMAIN b = 1 .. Len(b) /\ Len(a) \in Nat /\ Len(b) \in Nat
      /\ \A k \in 1 .. Len(a) + Len(b) :
           (a \o b)[k] = IF k <= Len(a) THEN a[k] ELSE b[k - Len(a)]
  BY ConcatProperties
<1>2. \A i \in 1 .. Len(a), j \in 1 .. Len(b) : a[i] < b[j]
  BY <1>1 DEF Elems
<1> SUFFICES ASSUME NEW i \in 1 .. Len(a) + Len(b), NEW j \in 1 .. Len(a) + Len(b), i < j
             PROVE  (a \o b)[i] < (a \o b)[j]
  BY <1>1 DEF Rising
<1>3. CASE j <= Len(a)
  <2>1. i \in 1 .. Len(a) /\ j \in 1 .. Len(a)
    BY <1>1, <1>3
  <2>2. a[i] < a[j]
    BY <1>1, <2>1 DEF Rising
  <2> QED BY <1>1, <1>3, <2>1, <2>2
<1>4. CASE i <= Len(a) /\ ~(j <= Len(a))
  <2>1. j - Len(a) \in 1 .. Len(b) /\ i \in 1 .. Len(a)
    BY <1>1, <1>4
  <2> QED BY <1>1, <1>2, <1>4, <2>1
<1>5. CASE ~(i <= Len(a))
  <2>1. j - Len(a) \in 1 .. Len(b) /\ i - Len(a) \in 1 .. Len(b) /\ i - Len(a) < j - Len(a)
        /\ ~(j <= Len(a))
    BY <1>1, <1>5
  <2>2. b[i - Len(a)] < b[j - Len(a)]
    BY <1>1, <2>1 DEF Rising
  <2> QED BY <1>1, <1>5, <2>1, <2>2
<1> QED BY <1>1, <1>3, <1>4, <1>5

\* What is in front of another sequence.
LEMMA RisingPrefix ==
  ASSUME NEW a \in Seq(Int), NEW b \in Seq(Int), Rising(a \o b)
  PROVE  Rising(a) /\ Elems(a) \subseteq Elems(a \o b)
<1>1. /\ DOMAIN (a \o b) = 1 .. Len(a) + Len(b) /\ DOMAIN a = 1 .. Len(a)
      /\ Len(a) \in Nat /\ Len(b) \in Nat
      /\ \A k \in 1 .. Len(a) + Len(b) :
           (a \o b)[k] = IF k <= Len(a) THEN a[k] ELSE b[k - Len(a)]
  BY ConcatProperties
<1>2. \A k \in 1 .. Len(a) : k \in DOMAIN (a \o b) /\ (a \o b)[k] = a[k]
  BY <1>1
<1>3. Rising(a)
  BY <1>1, <1>2 DEF Rising
<1> QED BY <1>1, <1>2, <1>3 DEF Elems

-----------------------------------------------------------------------------
(* What each step of a stream does to its record.                            *)

OthersSame(s) == \A t \in Streams \ {s} : st'[t] = st[t]
SameReceiving(s) ==
  /\ st'[s].id = st[s].id /\ st'[s].recv = st[s].recv /\ st'[s].inbox = st[s].inbox
  /\ st'[s].since = st[s].since
SameSending(s) ==
  /\ st'[s].left = st[s].left /\ st'[s].env = st[s].env /\ st'[s].sent = st[s].sent
  /\ st'[s].afterwards = st[s].afterwards

\* A step of stream s leaves the others alone.
StreamStep(s) == st' \in [Streams -> StreamType] /\ OthersSame(s)
AllElse == UNCHANGED <<server, added, rcvQ, caster, casts, streamQs, sQCount>>

LEMMA StreamChange ==
  ASSUME TypeOK, NEW s \in Streams, NEW r \in StreamType, st' = [st EXCEPT ![s] = r]
  PROVE  StreamStep(s) /\ st'[s] = r
BY DEF TypeOK, StreamStep, OthersSame

\* The fields of a stream.
LEMMA StreamFields ==
  ASSUME TypeOK, NEW s \in Streams
  PROVE  /\ st[s] \in StreamType /\ st[s].q \in QueueType(Ids) /\ rcvQ \in QueueType(Ids)
         /\ QueueOf(s) \in QueueType(Ids) /\ QueueOf(s).items \in Seq(Ids)
         /\ st[s].env \in Seq(Ids) /\ st[s].sent \in Seq(Ids) /\ Out(s) \in Seq(Ids)
         /\ st[s].left \in Nat /\ st[s].since \in Nat /\ st[s].afterwards \in Nat
         /\ Ids \subseteq Int /\ Ids \subseteq Nat
<1>1. st[s] \in StreamType /\ rcvQ \in QueueType(Ids)
  BY DEF TypeOK
<1>2. /\ st[s].q \in QueueType(Ids) /\ st[s].env \in Seq(Ids) /\ st[s].sent \in Seq(Ids)
      /\ st[s].left \in Nat /\ st[s].since \in Nat /\ st[s].afterwards \in Nat
  BY <1>1 DEF StreamType
<1>3. QueueOf(s) \in QueueType(Ids)
  BY <1>1, <1>2 DEF QueueOf
<1>4. QueueOf(s).items \in Seq(Ids)
  BY <1>3 DEF QueueType
<1>5. Out(s) \in Seq(Ids)
  BY <1>2, ConcatProperties DEF Out
<1> QED BY <1>1, <1>2, <1>3, <1>4, <1>5 DEF Ids

LEMMA OpenEffect ==
  ASSUME TypeOK, NEW s \in Streams, Open(s)
  PROVE  /\ StreamStep(s) /\ AllElse /\ SameSending(s)
         /\ st[s].recv = "none" /\ st'[s].q = st[s].q
         /\ st'[s].id = st[s].id /\ st'[s].inbox = st[s].inbox /\ st'[s].since = st[s].since
         /\ IF server = "grpc" THEN st'[s].recv = "lock" /\ st'[s].send = st[s].send
            ELSE st'[s].recv \in {"recv", "leave"} /\ st'[s].send = "tick"
<1> DEFINE c == st[s]
           r == IF server = "grpc" THEN [c EXCEPT !.recv = "lock"]
                ELSE [c EXCEPT !.recv = Loop, !.send = "tick"]
<1>0. c \in StreamType
  BY DEF TypeOK
<1>1. st' = [st EXCEPT ![s] = r] /\ c.recv = "none" /\ AllElse
  BY DEF Open, Becomes, AllElse
<1>2. Loop \in {"recv", "leave"}
  BY DEF Loop
<1> HIDE DEF c
<1>3. /\ r \in StreamType /\ r.q = c.q /\ r.id = c.id /\ r.inbox = c.inbox /\ r.since = c.since
      /\ r.left = c.left /\ r.env = c.env /\ r.sent = c.sent /\ r.afterwards = c.afterwards
      /\ IF server = "grpc" THEN r.recv = "lock" /\ r.send = c.send
         ELSE r.recv \in {"recv", "leave"} /\ r.send = "tick"
  BY <1>0, <1>2 DEF StreamType, Pcs
<1> HIDE DEF r
<1>4. StreamStep(s) /\ st'[s] = r
  BY <1>1, <1>3, StreamChange
<1> QED BY <1>1, <1>3, <1>4 DEF c, SameSending

LEMMA RegisterEffect ==
  ASSUME TypeOK, NEW s \in Streams, Register(s)
  PROVE  /\ StreamStep(s) /\ SameSending(s)
         /\ UNCHANGED <<server, added, rcvQ, caster, casts>>
         /\ streamQs' = Append(streamQs, s) /\ sQCount' = sQCount + 1
         /\ st[s].recv = "lock" /\ st'[s].q = st[s].q /\ st'[s].inbox = st[s].inbox
         /\ st'[s].recv \in {"recv", "leave"} /\ st'[s].send = "tick"
         /\ st'[s].id = sQCount /\ st'[s].since = casts
<1> DEFINE c == st[s]
           r == [c EXCEPT !.id = sQCount, !.recv = Loop, !.send = "tick", !.since = casts]
<1>0. c \in StreamType /\ sQCount \in Nat /\ casts \in Nat
  <2>1. c \in StreamType /\ sQCount \in Nat /\ casts \in 0 .. MaxMsgs
    BY DEF TypeOK
  <2>2. MaxMsgs \in Nat
    BY StreamsAssumption
  <2> HIDE DEF c
  <2> QED BY <2>1, <2>2
<1>1. /\ st' = [st EXCEPT ![s] = r] /\ c.recv = "lock"
      /\ UNCHANGED <<server, added, rcvQ, caster, casts>>
      /\ streamQs' = Append(streamQs, s) /\ sQCount' = sQCount + 1
  BY DEF Register
<1>2. Loop \in {"recv", "leave"}
  BY DEF Loop
<1> HIDE DEF c
<1>3. /\ r \in StreamType /\ r.q = c.q /\ r.id = sQCount /\ r.inbox = c.inbox /\ r.since = casts
      /\ r.left = c.left /\ r.env = c.env /\ r.sent = c.sent /\ r.afterwards = c.afterwards
      /\ r.recv \in {"recv", "leave"} /\ r.send = "tick"
  BY <1>0, <1>2 DEF StreamType, Pcs
<1> HIDE DEF r
<1>4. StreamStep(s) /\ st'[s] = r
  BY <1>1, <1>3, StreamChange
<1> QED BY <1>1, <1>3, <1>4 DEF c, SameSending

\* Receiving and taking over what was received only move the receive loop.
LEMMA TakeEffect ==
  ASSUME TypeOK, NEW s \in Streams, Receive(s) \/ Take(s),
         st[s].recv = "take" => st[s].inbox # <<>>
  PROVE  /\ StreamStep(s) /\ AllElse /\ SameSending(s)
         /\ st[s].recv \in {"recv", "take"} /\ st'[s].recv \in Active
         /\ st'[s].recv = "take" => st'[s].inbox # <<>>
         /\ st'[s].q = st[s].q /\ st'[s].send = st[s].send
         /\ st'[s].id = st[s].id /\ st'[s].since = st[s].since
         /\ sndQ' \in QueueType(Inbound)
<1> DEFINE c == st[s]
<1>0. /\ c \in StreamType /\ sndQ \in QueueType(Inbound) /\ server \in Servers
      /\ \A x \in Servers : Envelopes[x] \subseteq Seq(Inbound)
  BY StreamsAssumption DEF TypeOK
<1>1. /\ AllElse
      /\ \E box \in Seq(Inbound) :
           st' = [st EXCEPT ![s] = [c EXCEPT !.recv = After(box), !.inbox = box]]
      /\ c.recv \in {"recv", "take"} /\ sndQ' \in QueueType(Inbound)
  <2>1. CASE Receive(s)
    BY <1>0, <2>1 DEF Receive, Becomes, AllElse
  <2>2. CASE Take(s)
    <3>1. c.inbox \in Seq(Inbound) /\ c.inbox # <<>>
      BY <1>0, <2>2 DEF Take, StreamType
    <3>2. Head(c.inbox) \in Inbound /\ Tail(c.inbox) \in Seq(Inbound)
      BY <3>1
    <3>3. sndQ' \in QueueType(Inbound)
      BY <1>0, <2>2, <3>2, QueueOpsType DEF Take
    <3> QED BY <2>2, <3>2, <3>3 DEF Take, AllElse
  <2> QED BY <2>1, <2>2
<1>2. PICK box \in Seq(Inbound) :
        st' = [st EXCEPT ![s] = [c EXCEPT !.recv = After(box), !.inbox = box]]
  BY <1>1
<1> DEFINE r == [c EXCEPT !.recv = After(box), !.inbox = box]
<1>3. After(box) \in Active /\ (After(box) = "take" => box # <<>>)
  BY DEF After, Loop, Active
<1> HIDE DEF c
<1>4. /\ r \in StreamType /\ r.q = c.q /\ r.id = c.id /\ r.inbox = box /\ r.since = c.since
      /\ r.left = c.left /\ r.env = c.env /\ r.sent = c.sent /\ r.afterwards = c.afterwards
      /\ r.recv = After(box) /\ r.send = c.send
  BY <1>0, <1>3 DEF StreamType, Pcs, Active
<1>5. st' = [st EXCEPT ![s] = r]
  BY <1>2
<1> HIDE DEF r
<1>6. StreamStep(s) /\ st'[s] = r
  BY <1>4, <1>5, StreamChange
<1> QED BY <1>1, <1>3, <1>4, <1>6 DEF c, SameSending

LEMMA RecvEndsEffect ==
  ASSUME TypeOK, NEW s \in Streams, RecvEnds(s)
  PROVE  /\ StreamStep(s) /\ AllElse /\ SameSending(s)
         /\ st[s].recv \in {"recv", "leave"} /\ st'[s].send = st[s].send
         /\ st'[s].id = st[s].id /\ st'[s].inbox = st[s].inbox /\ st'[s].since = st[s].since
         /\ IF server = "grpc" THEN st'[s].recv = "remove" /\ st'[s].q = QShutDown(st[s].q)
            ELSE st'[s].recv = "gone" /\ st'[s].q = st[s].q
<1> DEFINE c == st[s]
           r == Returned(c)
<1>0. c \in StreamType /\ c.q \in QueueType(Ids)
  BY StreamFields
<1>1. st' = [st EXCEPT ![s] = r] /\ c.recv \in {"recv", "leave"} /\ AllElse
  BY DEF RecvEnds, Becomes, AllElse
<1>2. QShutDown(c.q) \in QueueType(Ids)
  BY <1>0, QShutDownType
<1> HIDE DEF c
<1>3. /\ r \in StreamType /\ r.id = c.id /\ r.inbox = c.inbox /\ r.since = c.since
      /\ r.left = c.left /\ r.env = c.env /\ r.sent = c.sent /\ r.afterwards = c.afterwards
      /\ r.send = c.send
      /\ IF server = "grpc" THEN r.recv = "remove" /\ r.q = QShutDown(c.q)
         ELSE r.recv = "gone" /\ r.q = c.q
  BY <1>0, <1>2 DEF Returned, StreamType, Pcs
<1> HIDE DEF r
<1>4. StreamStep(s) /\ st'[s] = r
  BY <1>1, <1>3, StreamChange
<1> QED BY <1>1, <1>3, <1>4 DEF c, SameSending

LEMMA DeregisterEffect ==
  ASSUME TypeOK, NEW s \in Streams, Deregister(s)
  PROVE  /\ StreamStep(s) /\ SameSending(s)
         /\ UNCHANGED <<server, added, rcvQ, caster, casts, sQCount>>
         /\ streamQs' = RemoveAt(streamQs, Position(s))
         /\ st[s].recv = "remove" /\ st'[s].recv = "gone"
         /\ st'[s].q = st[s].q /\ st'[s].send = st[s].send
         /\ st'[s].id = st[s].id /\ st'[s].inbox = st[s].inbox /\ st'[s].since = st[s].since
<1> DEFINE c == st[s]
           r == [c EXCEPT !.recv = "gone", !.broken = TRUE]
<1>0. c \in StreamType
  BY DEF TypeOK
<1>1. /\ st' = [st EXCEPT ![s] = r] /\ c.recv = "remove"
      /\ UNCHANGED <<server, added, rcvQ, caster, casts, sQCount>>
      /\ streamQs' = RemoveAt(streamQs, Position(s))
  BY DEF Deregister
<1> HIDE DEF c
<1>3. /\ r \in StreamType /\ r.id = c.id /\ r.inbox = c.inbox /\ r.since = c.since
      /\ r.left = c.left /\ r.env = c.env /\ r.sent = c.sent /\ r.afterwards = c.afterwards
      /\ r.send = c.send /\ r.recv = "gone" /\ r.q = c.q
  BY <1>0 DEF StreamType, Pcs
<1> HIDE DEF r
<1>4. StreamStep(s) /\ st'[s] = r
  BY <1>1, <1>3, StreamChange
<1> QED BY <1>1, <1>3, <1>4 DEF c, SameSending

\* A tick ends the routine or finds messages.
LEMMA TickEffect ==
  ASSUME TypeOK, NEW s \in Streams, Tick(s)
  PROVE  /\ StreamStep(s) /\ AllElse /\ SameReceiving(s)
         /\ st[s].send = "tick" /\ st'[s].q = st[s].q
         /\ st'[s].env = st[s].env /\ st'[s].sent = st[s].sent
         /\ st'[s].afterwards = st[s].afterwards
         /\ \/ st'[s].send = "exited"
            \/ /\ st'[s].send = "get" /\ st'[s].left = Len(QueueOf(s).items)
               /\ st'[s].left > 0
<1> DEFINE c == st[s]
           n == Len(QueueOf(s).items)
<1>0. c \in StreamType /\ QueueOf(s).items \in Seq(Ids) /\ n \in Nat
  BY StreamFields
<1>1. PICK r :
        /\ st' = [st EXCEPT ![s] = r] /\ c.send = "tick" /\ AllElse
        /\ \/ r = [c EXCEPT !.send = "exited"]
           \/ n > 0 /\ r = [c EXCEPT !.send = "get", !.left = n]
  <2>1. QueueOf(s).items # <<>> => n > 0
    BY <1>0
  <2> QED BY <2>1 DEF Tick, Becomes, AllElse, Batch
<1> HIDE DEF c, n
<1>3. /\ r \in StreamType /\ r.id = c.id /\ r.inbox = c.inbox /\ r.since = c.since
      /\ r.env = c.env /\ r.sent = c.sent /\ r.afterwards = c.afterwards
      /\ r.recv = c.recv /\ r.q = c.q
      /\ r.send = "exited" \/ (r.send = "get" /\ r.left = n /\ r.left > 0)
  BY <1>0, <1>1 DEF StreamType
<1>4. StreamStep(s) /\ st'[s] = r
  BY <1>1, <1>3, StreamChange
<1> QED BY <1>1, <1>3, <1>4 DEF c, n, SameReceiving

\* The send routine gives its envelope away, or loses it.
LEMMA SendEffect ==
  ASSUME TypeOK, NEW s \in Streams, SendEnvelope(s) \/ SendFails(s)
  PROVE  /\ StreamStep(s) /\ AllElse /\ SameReceiving(s)
         /\ st[s].send = "send" /\ st'[s].q = st[s].q /\ st'[s].left = st[s].left
         /\ st'[s].env = <<>>
         /\ \/ /\ st'[s].send = "tick" /\ st'[s].sent = st[s].sent \o st[s].env
               /\ st'[s].afterwards = st[s].afterwards
            \/ /\ st'[s].send = "exited" /\ st'[s].sent = st[s].sent
               /\ st'[s].afterwards \in {st[s].afterwards, st[s].afterwards + 1}
<1> DEFINE c == st[s]
           a == IF Gone(s) THEN c.afterwards + 1 ELSE c.afterwards
<1>0. c \in StreamType /\ Out(s) \in Seq(Ids) /\ c.afterwards \in Nat
  BY StreamFields
<1>1. PICK r :
        /\ st' = [st EXCEPT ![s] = r] /\ c.send = "send" /\ AllElse
        /\ \/ r = [c EXCEPT !.send = "tick", !.env = <<>>, !.sent = Out(s)]
           \/ r = [c EXCEPT !.send = "exited", !.env = <<>>, !.broken = TRUE,
                            !.afterwards = a]
  <2>1. CASE SendEnvelope(s)
    BY <2>1 DEF SendEnvelope, Becomes, AllElse, Out
  <2>2. CASE SendFails(s)
    BY <2>2 DEF SendFails, Becomes, AllElse
  <2> QED BY <2>1, <2>2
<1>2. a \in {c.afterwards, c.afterwards + 1} /\ a \in Nat /\ <<>> \in Seq(Ids)
  BY <1>0
<1> DEFINE o == Out(s)
<1> HIDE DEF c, a, o
<1>3. /\ r \in StreamType /\ r.id = c.id /\ r.inbox = c.inbox /\ r.since = c.since
      /\ r.recv = c.recv /\ r.q = c.q /\ r.left = c.left /\ r.env = <<>>
      /\ \/ r.send = "tick" /\ r.sent = o /\ r.afterwards = c.afterwards
         \/ r.send = "exited" /\ r.sent = c.sent /\ r.afterwards = a
  <2>1. CASE r = [c EXCEPT !.send = "tick", !.env = <<>>, !.sent = o]
    BY <1>0, <1>2, <2>1 DEF StreamType, o
  <2>2. CASE r = [c EXCEPT !.send = "exited", !.env = <<>>, !.broken = TRUE,
                           !.afterwards = a]
    BY <1>0, <1>2, <2>2 DEF StreamType
  <2> QED BY <1>1, <2>1, <2>2 DEF o
<1>4. StreamStep(s) /\ st'[s] = r
  BY <1>1, <1>3, StreamChange
<1> QED BY <1>1, <1>2, <1>3, <1>4 DEF c, o, Out, SameReceiving

\* Get finds a message, which is done with at once, or the end of the queue.
LEMMA GetOneEffect ==
  ASSUME TypeOK, NEW s \in Streams, GetOne(s), st[s].left > 0
  PROVE  LET q    == QueueOf(s)
             m    == Head(q.items)
             done == QDone(QTake(q), m)
         IN /\ StreamStep(s) /\ SameReceiving(s)
            /\ UNCHANGED <<server, added, caster, casts, streamQs, sQCount>>
            /\ st[s].send = "get" /\ st'[s].sent = st[s].sent
            /\ st'[s].afterwards = st[s].afterwards
            /\ \/ /\ q.items # <<>> /\ rcvQ' \in QueueType(Ids)
                  /\ st'[s].left = st[s].left - 1
                  /\ st'[s].send = IF st[s].left = 1 THEN "send" ELSE "get"
                  /\ st'[s].env = IF m \in BadOf[server] THEN st[s].env
                                  ELSE Append(st[s].env, m)
                  /\ IF server = "grpc" THEN rcvQ' = rcvQ /\ st'[s].q = done
                     ELSE rcvQ' = done /\ st'[s].q = st[s].q
               \/ /\ q.items = <<>> /\ UNCHANGED rcvQ /\ st'[s].q = st[s].q
                  /\ st'[s].send = "exited" /\ st'[s].left = st[s].left
                  /\ st'[s].env = st[s].env
<1> DEFINE c == st[s]
           q == QueueOf(s)
           m == Head(q.items)
           done == QDone(QTake(q), m)
           e == IF m \in BadOf[server] THEN c.env ELSE Append(c.env, m)
           l == c.left - 1
           g == IF c.left = 1 THEN "send" ELSE "get"
           next == [c EXCEPT !.left = l, !.send = g, !.env = e]
<1>0. /\ c \in StreamType /\ q \in QueueType(Ids) /\ c.env \in Seq(Ids) /\ c.left \in Nat
      /\ rcvQ \in QueueType(Ids) /\ c.left > 0
  BY StreamFields
<1>1. /\ c.send = "get" /\ UNCHANGED <<server, added, caster, casts, streamQs, sQCount>>
      /\ \/ /\ q.items # <<>>
            /\ IF server = "grpc" THEN rcvQ' = rcvQ /\ st' = [st EXCEPT ![s] = [next EXCEPT !.q = done]]
               ELSE rcvQ' = done /\ st' = [st EXCEPT ![s] = next]
         \/ /\ q.items = <<>> /\ UNCHANGED rcvQ
            /\ st' = [st EXCEPT ![s] = [c EXCEPT !.send = "exited"]]
  BY DEF GetOne, Becomes, LastOfBatch
<1>2. CASE q.items = <<>>
  <2> DEFINE r == [c EXCEPT !.send = "exited"]
  <2>1. st' = [st EXCEPT ![s] = r] /\ UNCHANGED rcvQ
    BY <1>1, <1>2
  <2> HIDE DEF c, q, m, done, e, next
  <2>2. /\ r \in StreamType /\ r.id = c.id /\ r.inbox = c.inbox /\ r.since = c.since
        /\ r.recv = c.recv /\ r.q = c.q /\ r.left = c.left /\ r.env = c.env
        /\ r.sent = c.sent /\ r.afterwards = c.afterwards /\ r.send = "exited"
    BY <1>0 DEF StreamType
  <2> HIDE DEF r
  <2>3. StreamStep(s) /\ st'[s] = r
    BY <2>1, <2>2, StreamChange
  <2> QED BY <1>1, <1>2, <2>1, <2>2, <2>3 DEF c, q, SameReceiving
<1>3. CASE q.items # <<>>
  <2>1. done \in QueueType(Ids) /\ m \in Ids
    <3> HIDE DEF q
    <3> QED BY <1>0, <1>3, TakeAndDone, QTakeType
  <2>2. e \in Seq(Ids)
    BY <1>0, <2>1
  <2> DEFINE r == IF server = "grpc" THEN [next EXCEPT !.q = done] ELSE next
  <2>3. st' = [st EXCEPT ![s] = r] /\ IF server = "grpc" THEN rcvQ' = rcvQ ELSE rcvQ' = done
    BY <1>1, <1>3
  <2> HIDE DEF c, q, m, done, e
  <2>4. /\ r \in StreamType /\ r.id = c.id /\ r.inbox = c.inbox /\ r.since = c.since
        /\ r.recv = c.recv /\ r.left = c.left - 1 /\ r.env = e
        /\ r.sent = c.sent /\ r.afterwards = c.afterwards
        /\ r.send = (IF c.left = 1 THEN "send" ELSE "get")
        /\ r.q = IF server = "grpc" THEN done ELSE c.q
    <3>1. /\ next \in StreamType /\ next.id = c.id /\ next.inbox = c.inbox
          /\ next.since = c.since /\ next.recv = c.recv /\ next.left = l
          /\ next.env = e /\ next.sent = c.sent /\ next.afterwards = c.afterwards
          /\ next.send = g /\ next.q = c.q
      <4>1. l \in Nat /\ g \in {"send", "get"}
        BY <1>0
      <4> HIDE DEF l, g
      <4> QED BY <1>0, <2>2, <4>1 DEF StreamType
    <3> HIDE DEF next
    <3>2. CASE server = "grpc"
      BY <2>1, <3>1, <3>2 DEF StreamType
    <3>3. CASE server # "grpc"
      BY <3>1, <3>3
    <3> QED BY <3>2, <3>3
  <2> HIDE DEF r
  <2>5. StreamStep(s) /\ st'[s] = r
    BY <2>3, <2>4, StreamChange
  <2> QED BY <1>0, <1>1, <1>3, <2>1, <2>3, <2>4, <2>5 DEF c, q, m, e, done, SameReceiving
<1> QED BY <1>2, <1>3

-----------------------------------------------------------------------------
(* The list of stream queues.                                                *)

LEMMA RemoveEffect ==
  ASSUME NEW S, NEW a \in Seq(S), NEW i \in DOMAIN a
  PROVE  /\ RemoveAt(a, i) \in Seq(S) /\ Len(RemoveAt(a, i)) = Len(a) - 1
         /\ \A k \in 1 .. Len(a) - 1 : RemoveAt(a, i)[k] = a[IF k < i THEN k ELSE k + 1]
<1> DEFINE f == SubSeq(a, 1, i - 1)
           b == SubSeq(a, i + 1, Len(a))
<1>0. Len(a) \in Nat /\ i \in 1 .. Len(a)
  OBVIOUS
<1>1. f \in Seq(S) /\ Len(f) = i - 1 /\ \A k \in 1 .. i - 1 : f[k] = a[k]
  BY <1>0
<1>2. b \in Seq(S) /\ Len(b) = Len(a) - i /\ \A k \in 1 .. Len(a) - i : b[k] = a[k + i]
  BY <1>0, SubSeqProperties
<1>3. RemoveAt(a, i) = f \o b
  BY DEF RemoveAt
<1> HIDE DEF f, b
<1>4. /\ f \o b \in Seq(S) /\ Len(f \o b) = Len(f) + Len(b)
      /\ \A k \in 1 .. Len(f) + Len(b) : (f \o b)[k] = IF k <= Len(f) THEN f[k] ELSE b[k - Len(f)]
  BY <1>1, <1>2, ConcatProperties
<1>5. ASSUME NEW k \in 1 .. Len(a) - 1
      PROVE  (f \o b)[k] = a[IF k < i THEN k ELSE k + 1]
  <2>1. CASE k < i
    BY SMTT(30), <1>0, <1>1, <1>2, <1>4, <1>5, <2>1
  <2>2. CASE ~(k < i)
    <3>1. k - (i - 1) \in 1 .. Len(a) - i /\ (k - (i - 1)) + i = k + 1
      BY <1>0, <1>5, <2>2
    <3>2. b[k - (i - 1)] = a[k + 1]
      BY <1>2, <3>1
    <3>3. k \in 1 .. Len(f) + Len(b) /\ ~(k <= Len(f)) /\ Len(f) = i - 1
      BY <1>0, <1>1, <1>2, <1>5, <2>2
    <3>4. (f \o b)[k] = b[k - (i - 1)]
      BY <1>4, <3>3
    <3> QED BY <2>2, <3>2, <3>4
  <2> QED BY <2>1, <2>2
<1> QED BY SMTT(30), <1>0, <1>1, <1>2, <1>3, <1>4, <1>5

\* The IDs lead a stream to its own queue.
LEMMA PositionIs ==
  ASSUME TypeOK, ListKept, NEW s \in Elems(streamQs)
  PROVE  Position(s) \in DOMAIN streamQs /\ streamQs[Position(s)] = s
<1>0. /\ streamQs \in Seq(Streams) /\ DOMAIN streamQs = 1 .. Len(streamQs)
      /\ Len(streamQs) \in Nat
  <2>1. streamQs \in Seq(Streams)
    BY DEF TypeOK
  <2> QED BY <2>1
<1>1. PICK i \in DOMAIN streamQs : streamQs[i] = s
  BY DEF Elems
<1> DEFINE I == {k \in 1 .. Len(streamQs) : st[streamQs[k]].id = st[s].id}
<1>2. ASSUME NEW k \in I PROVE k = i
  <2>1. k \in DOMAIN streamQs /\ streamQs[k] \in Elems(streamQs)
    BY <1>0 DEF Elems
  <2>2. streamQs[k] = s
    BY <2>1 DEF ListKept
  <2> QED BY <1>1, <2>1, <2>2 DEF ListKept
<1>3. I = {i}
  BY <1>0, <1>1, <1>2
<1>4. Position(s) = Min(I)
  BY <1>3 DEF Position, SelectInSeq
<1> HIDE DEF I
<1>5. Min({i}) = i
  BY <1>0 DEF Min
<1> QED BY <1>1, <1>3, <1>4, <1>5

-----------------------------------------------------------------------------
(* The receive queue and the goroutine that empties it.                      *)

LEMMA ReceiveQueueUnchanged ==
  ASSUME ReceiveQueueKept, UNCHANGED <<server, added, rcvQ, caster, casts>>
  PROVE  ReceiveQueueKept'
BY DEF ReceiveQueueKept, Copied, Elems, Rising

\* Numbers that the invariant bounds.
LEMMA ReceiveFacts ==
  ASSUME TypeOK, ReceiveQueueKept
  PROVE  /\ rcvQ \in QueueType(Ids) /\ rcvQ.items \in Seq(Ids) /\ rcvQ.items \in Seq(Int)
         /\ Len(rcvQ.items) \in Nat /\ DOMAIN rcvQ.items = 1 .. Len(rcvQ.items)
         /\ rcvQ.dirty \subseteq Ids /\ rcvQ.processing \subseteq Ids
         /\ rcvQ.closed \in BOOLEAN
         /\ added \in Nat /\ added <= MaxMsgs /\ casts \in Nat /\ casts <= MaxMsgs
         /\ MaxMsgs \in Nat /\ Copied \in Nat
         /\ server # "grpc" => server = "mpi"
         /\ caster.pc = "cast" => caster.msg \in Ids /\ caster.msg = Copied /\ server = "grpc"
         /\ caster.pc = "cast" => Copied = casts + 1 /\ Copied <= added
         /\ caster.pc # "cast" => Copied = casts
<1>1. MaxMsgs \in Nat /\ Servers \subseteq {"grpc", "mpi"}
  BY StreamsAssumption
<1>2. /\ rcvQ \in QueueType(Ids) /\ added \in 0 .. MaxMsgs /\ casts \in 0 .. MaxMsgs
      /\ server \in Servers
  BY DEF TypeOK
<1>3. /\ rcvQ.items \in Seq(Ids) /\ rcvQ.dirty \subseteq Ids /\ rcvQ.processing \subseteq Ids
      /\ rcvQ.closed \in BOOLEAN
  BY <1>2 DEF QueueType
<1>4. rcvQ.items \in Seq(Int) /\ Len(rcvQ.items) \in Nat
      /\ DOMAIN rcvQ.items = 1 .. Len(rcvQ.items)
  <2>1. \A k \in 1 .. Len(rcvQ.items) : rcvQ.items[k] \in Ids
    BY <1>3
  <2>2. \A k \in 1 .. Len(rcvQ.items) : rcvQ.items[k] \in Int
    BY <2>1 DEF Ids
  <2> QED BY <1>3, <2>2
<1>5. CASE caster.pc = "cast"
  <2>1. server = "grpc" /\ caster.msg = casts + 1 /\ Copied = caster.msg
        /\ Copied + Len(rcvQ.items) <= added
    BY <1>5 DEF ReceiveQueueKept, Copied
  <2>2. /\ added \in Nat /\ added <= MaxMsgs /\ casts \in Nat /\ casts <= MaxMsgs
        /\ Copied = casts + 1 /\ Copied <= added
    <3>1. added \in Nat /\ added <= MaxMsgs /\ casts \in Nat /\ casts <= MaxMsgs
      BY <1>1, <1>2
    <3>2. Copied = casts + 1
      BY <2>1
    <3>3. casts + 1 + Len(rcvQ.items) <= added
      BY <2>1, <3>2
    <3> DEFINE n == Len(rcvQ.items)
    <3>4. n \in Nat /\ casts + 1 + n <= added
      BY <1>4, <3>3
    <3> HIDE DEF n
    <3>5. casts + 1 <= added
      BY <3>1, <3>4
    <3> QED BY <3>1, <3>2, <3>5
  <2>3. caster.msg \in Ids
    <3>1. casts + 1 \in 1 .. MaxMsgs
      BY <1>1, <2>2
    <3> QED BY <2>1, <3>1 DEF Ids
  <2> QED BY <1>1, <1>2, <1>3, <1>4, <1>5, <2>1, <2>2, <2>3
<1>6. CASE caster.pc # "cast"
  BY <1>1, <1>2, <1>3, <1>4, <1>6 DEF Copied
<1> QED BY <1>5, <1>6

LEMMA RouteReceives ==
  ASSUME TypeOK, ReceiveQueueKept, Route
  PROVE  ReceiveQueueKept' /\ rcvQ' \in QueueType(Ids) /\ added' \in 0 .. MaxMsgs
         /\ Len(rcvQ'.items) >= Len(rcvQ.items)
         /\ \A k \in DOMAIN rcvQ'.items :
              \/ k \in DOMAIN rcvQ.items /\ rcvQ'.items[k] = rcvQ.items[k]
              \/ rcvQ'.items[k] = added + 1
<1> DEFINE n == added + 1
           r == rcvQ
           i == rcvQ.items
<1>0. /\ UNCHANGED <<server, caster, casts>> /\ added' = n /\ rcvQ' = QAdd(r, n)
      /\ added < MaxMsgs
  BY DEF Route
<1>1. n \in Ids /\ n \notin r.dirty /\ n \notin r.processing /\ n \notin Elems(i)
  BY <1>0, ReceiveFacts DEF ReceiveQueueKept, Ids
<1>2. rcvQ' \in QueueType(Ids)
  BY <1>0, <1>1, ReceiveFacts, QueueOpsType
<1>3. UNCHANGED Copied
  BY <1>0 DEF Copied
<1>4. CASE r.closed
  <2>1. rcvQ' = rcvQ
    BY <1>0, <1>1, <1>4, ReceiveFacts, AddEffect
  <2>2. /\ rcvQ'.dirty \subseteq Elems(rcvQ'.items) /\ Rising(rcvQ'.items)
        /\ Elems(rcvQ'.items) \subseteq 1 .. added'
        /\ rcvQ'.processing = (IF caster'.pc = "cast" THEN {caster'.msg} ELSE {})
    BY <1>0, <2>1, ReceiveFacts DEF ReceiveQueueKept, Elems, Rising
  <2>3. server = "grpc" =>
          /\ \A k \in DOMAIN rcvQ'.items : rcvQ'.items[k] = Copied' + k
          /\ Copied' + Len(rcvQ'.items) <= added'
    BY <1>0, <1>3, <2>1, ReceiveFacts DEF ReceiveQueueKept
  <2>4. ReceiveQueueKept'
    BY <1>0, <1>4, <2>1, <2>2, <2>3 DEF ReceiveQueueKept
  <2> QED BY <1>0, <1>2, <2>1, <2>4, ReceiveFacts
<1>5. CASE ~r.closed
  <2>1. /\ rcvQ'.items = Append(i, n) /\ rcvQ'.processing = r.processing
        /\ rcvQ'.dirty = r.dirty \cup {n} /\ ~rcvQ'.closed
    BY <1>0, <1>1, <1>5, ReceiveFacts, AddEffect
  <2>2. /\ Elems(Append(i, n)) = Elems(i) \cup {n} /\ Len(Append(i, n)) = Len(i) + 1
        /\ DOMAIN Append(i, n) = 1 .. Len(i) + 1 /\ Append(i, n)[Len(i) + 1] = n
        /\ \A k \in 1 .. Len(i) : Append(i, n)[k] = i[k]
    BY <1>1, ReceiveFacts, ElemsAppend
  <2>3. Rising(Append(i, n))
    <3>1. \A y \in Elems(i) : y < n
      BY ReceiveFacts DEF ReceiveQueueKept
    <3>2. n \in Int /\ i \in Seq(Int) /\ Rising(i)
      BY ReceiveFacts DEF ReceiveQueueKept
    <3> QED BY <3>1, <3>2, RisingAppend
  <2> HIDE DEF i, n
  <2>4. /\ rcvQ'.dirty \subseteq Elems(rcvQ'.items) /\ Rising(rcvQ'.items)
        /\ Elems(rcvQ'.items) \subseteq 1 .. added'
        /\ rcvQ'.processing = (IF caster'.pc = "cast" THEN {caster'.msg} ELSE {})
    <3>1. Rising(rcvQ'.items) /\ Elems(rcvQ'.items) = Elems(i) \cup {n}
      BY <2>1, <2>2, <2>3
    <3>2. rcvQ.dirty \subseteq Elems(i) /\ Elems(i) \subseteq 1 .. added
          /\ rcvQ'.processing = (IF caster'.pc = "cast" THEN {caster'.msg} ELSE {})
      BY <1>0, <2>1 DEF ReceiveQueueKept, i
    <3>3. 1 .. added \subseteq 1 .. added' /\ n \in 1 .. added'
      BY <1>0, ReceiveFacts DEF n
    <3> QED BY <2>1, <3>1, <3>2, <3>3
  <2>5. server = "grpc" =>
          /\ \A k \in DOMAIN rcvQ'.items : rcvQ'.items[k] = Copied' + k
          /\ Copied' + Len(rcvQ'.items) = added'
    <3> SUFFICES ASSUME server = "grpc"
                 PROVE  /\ \A k \in 1 .. Len(i) + 1 : Append(i, n)[k] = Copied + k
                        /\ Copied + (Len(i) + 1) = added + 1
      BY <1>0, <1>3, <2>1, <2>2 DEF n
    <3>1. Copied + Len(i) = added /\ \A k \in 1 .. Len(i) : i[k] = Copied + k
      BY <1>5, ReceiveFacts DEF ReceiveQueueKept, i
    <3>2. Len(i) \in Nat /\ Copied \in Nat /\ added \in Nat
      BY ReceiveFacts DEF i
    <3> QED BY <2>2, <3>1, <3>2 DEF n
  <2>6. added' \in 0 .. MaxMsgs
    BY <1>0, ReceiveFacts DEF n
  <2>7. ReceiveQueueKept'
    <3>1. IF server' = "grpc"
          THEN /\ caster'.pc \in {"get", "cast", "exited"}
               /\ caster'.pc = "cast" => caster'.msg = casts' + 1
          ELSE caster'.pc = "none" /\ casts' = 0
      BY <1>0 DEF ReceiveQueueKept
    <3>2. server = "grpc" => Copied' + Len(rcvQ'.items) <= added'
      BY <2>5, <2>6, ReceiveFacts
    <3> QED BY <1>0, <2>4, <2>5, <3>1, <3>2 DEF ReceiveQueueKept
  <2>8. /\ Len(rcvQ'.items) >= Len(rcvQ.items)
        /\ \A k \in DOMAIN rcvQ'.items :
              \/ k \in DOMAIN rcvQ.items /\ rcvQ'.items[k] = rcvQ.items[k]
              \/ rcvQ'.items[k] = added + 1
    BY <2>1, <2>2, ReceiveFacts DEF i, n
  <2> QED BY <1>2, <2>6, <2>7, <2>8
<1> QED BY <1>4, <1>5

\* The queue gives its first message away, to the goroutine that copies it or to a
\* stream of a plugin.
LEMMA HeadTaken ==
  ASSUME TypeOK, ReceiveQueueKept, rcvQ.items # <<>>
  PROVE  LET m == Head(rcvQ.items)
             rest == Tail(rcvQ.items)
         IN /\ m \in Ids /\ rest \in Seq(Ids) /\ m = rcvQ.items[1] /\ m <= added
            /\ rcvQ.dirty \ {m} \subseteq Elems(rest) /\ Rising(rest)
            /\ Elems(rest) \subseteq 1 .. added /\ \A y \in Elems(rest) : m < y
            /\ Len(rest) = Len(rcvQ.items) - 1 /\ Len(rcvQ.items) >= 1
            /\ \A k \in DOMAIN rest : k + 1 \in DOMAIN rcvQ.items
                                      /\ rest[k] = rcvQ.items[k + 1]
<1> DEFINE i == rcvQ.items
<1>0. /\ i \in Seq(Ids) /\ i \in Seq(Int) /\ i # <<>> /\ Rising(i)
      /\ rcvQ.dirty \subseteq Elems(i) /\ Elems(i) \subseteq 1 .. added
  BY ReceiveFacts DEF ReceiveQueueKept
<1> HIDE DEF i
<1>1. /\ Rising(Tail(i)) /\ \A y \in Elems(Tail(i)) : Head(i) < y
      /\ \A k \in DOMAIN Tail(i) : k + 1 \in DOMAIN i /\ Tail(i)[k] = i[k + 1]
      /\ Len(Tail(i)) = Len(i) - 1 /\ Len(i) >= 1 /\ Head(i) = i[1]
  BY <1>0, RisingTail
<1>2. /\ Head(i) \in Elems(i) /\ Elems(Tail(i)) \subseteq Elems(i)
      /\ Elems(i) \subseteq Elems(Tail(i)) \cup {Head(i)}
  BY <1>0, ElemsTail
<1>3. Head(i) \in Ids /\ Tail(i) \in Seq(Ids)
  BY <1>0
<1>4. Head(i) <= added
  BY <1>0, <1>2
<1> QED BY <1>0, <1>1, <1>2, <1>3, <1>4 DEF i

LEMMA CastGetReceives ==
  ASSUME TypeOK, ReceiveQueueKept, CastGet
  PROVE  /\ ReceiveQueueKept' /\ rcvQ' \in QueueType(Ids)
         /\ caster' \in [pc : {"none", "get", "cast", "exited"}, msg : Ids \cup {None}]
         /\ server = "grpc"
<1> DEFINE i == rcvQ.items
           m == Head(i)
<1>0. /\ UNCHANGED <<server, added, casts>> /\ caster.pc = "get" /\ Copied = casts
      /\ server = "grpc" /\ caster \in [pc : {"none", "get", "cast", "exited"}, msg : Ids \cup {None}]
  BY ReceiveFacts DEF CastGet, TypeOK, ReceiveQueueKept
<1>1. CASE i # <<>> /\ caster' = [pc |-> "cast", msg |-> m] /\ rcvQ' = QTake(rcvQ)
  <2>1. /\ m \in Ids /\ Tail(i) \in Seq(Ids) /\ m = i[1] /\ m <= added
        /\ rcvQ.dirty \ {m} \subseteq Elems(Tail(i)) /\ Rising(Tail(i))
        /\ Elems(Tail(i)) \subseteq 1 .. added
        /\ Len(Tail(i)) = Len(i) - 1 /\ Len(i) >= 1
        /\ \A k \in DOMAIN Tail(i) : k + 1 \in DOMAIN i /\ Tail(i)[k] = i[k + 1]
    BY <1>1, HeadTaken
  <2>2. /\ rcvQ'.items = Tail(i) /\ rcvQ'.dirty = rcvQ.dirty \ {m} /\ rcvQ'.closed = rcvQ.closed
        /\ rcvQ'.processing = rcvQ.processing \cup {m} /\ rcvQ' \in QueueType(Ids)
    BY <1>1, ReceiveFacts, QTakeType DEF QTake, QueueType
  <2>3. rcvQ.processing = {}
    BY <1>0 DEF ReceiveQueueKept
  <2>4. /\ \A k \in DOMAIN i : i[k] = casts + k
        /\ casts + Len(i) <= added /\ (~rcvQ.closed => casts + Len(i) = added)
        /\ casts \in Nat /\ added \in Nat /\ Len(i) \in Nat /\ DOMAIN i = 1 .. Len(i)
        /\ DOMAIN Tail(i) = 1 .. Len(i) - 1
    BY <1>0, <1>1, ReceiveFacts DEF ReceiveQueueKept
  <2> HIDE DEF i, m
  <2>5. m = casts + 1
    BY <2>1, <2>4
  <2>6. caster'.pc = "cast" /\ caster'.msg = m /\ Copied' = m
    BY <1>1 DEF Copied
  <2>7. \A k \in DOMAIN Tail(i) : Tail(i)[k] = m + k
    BY <2>1, <2>4, <2>5
  <2>8. m + Len(Tail(i)) <= added /\ (~rcvQ.closed => m + Len(Tail(i)) = added)
    BY <2>1, <2>4, <2>5
  <2>9. ReceiveQueueKept'
    BY <1>0, <2>1, <2>2, <2>3, <2>5, <2>6, <2>7, <2>8 DEF ReceiveQueueKept
  <2> QED BY <1>0, <1>1, <2>1, <2>2, <2>9 DEF m
<1>2. CASE caster' = [caster EXCEPT !.pc = "exited"] /\ rcvQ' = rcvQ
  <2>1. caster'.pc = "exited" /\ Copied' = casts
    BY <1>0, <1>2 DEF Copied
  <2>2. ReceiveQueueKept'
    BY <1>0, <1>2, <2>1 DEF ReceiveQueueKept, Elems, Rising
  <2> QED BY <1>0, <1>2, <2>2, ReceiveFacts
<1> QED BY <1>1, <1>2 DEF CastGet

LEMMA CastReceives ==
  ASSUME TypeOK, ReceiveQueueKept, Cast
  PROVE  /\ ReceiveQueueKept' /\ rcvQ' \in QueueType(Ids) /\ casts' \in 0 .. MaxMsgs
         /\ caster' \in [pc : {"none", "get", "cast", "exited"}, msg : Ids \cup {None}]
         /\ server = "grpc" /\ caster.msg \in Ids /\ casts' = casts + 1 /\ caster.msg = casts + 1
<1> DEFINE m == caster.msg
<1>0. /\ UNCHANGED <<server, added>> /\ caster.pc = "cast" /\ casts' = m
      /\ caster' = [pc |-> "get", msg |-> None] /\ rcvQ' = QDone(rcvQ, m)
  BY DEF Cast
<1>1. /\ server = "grpc" /\ m \in Ids /\ m = casts + 1 /\ Copied = m /\ m <= added
      /\ added <= MaxMsgs /\ MaxMsgs \in Nat /\ casts \in Nat /\ added \in Nat
  BY <1>0, ReceiveFacts
<1>2. m \notin rcvQ.dirty
  <2>0. \A k \in DOMAIN rcvQ.items : rcvQ.items[k] = Copied + k
    BY <1>1 DEF ReceiveQueueKept
  <2>1. \A k \in DOMAIN rcvQ.items : rcvQ.items[k] = m + k /\ k \in Nat /\ k >= 1
    BY <1>1, <2>0, ReceiveFacts
  <2>2. m \notin Elems(rcvQ.items)
    BY <1>1, <2>1 DEF Elems
  <2> QED BY <2>2 DEF ReceiveQueueKept
<1>3. /\ rcvQ'.items = rcvQ.items /\ rcvQ'.dirty = rcvQ.dirty
      /\ rcvQ'.processing = rcvQ.processing \ {m} /\ rcvQ'.closed = rcvQ.closed
      /\ rcvQ' \in QueueType(Ids)
  <2> DEFINE q == rcvQ
             r == QDone(q, m)
  <2>1. q \in QueueType(Ids)
    BY ReceiveFacts
  <2>2. m \notin q.dirty
    BY <1>2
  <2> HIDE DEF m, q
  <2>3. r.items = q.items /\ r.dirty = q.dirty \ {m} /\ r.processing = q.processing \ {m}
        /\ r.closed = q.closed
    BY <2>1, <2>2 DEF QDone, Requeues, QueueType
  <2>4. r \in QueueType(Ids)
    BY <2>1, QDoneType
  <2> QED BY <1>0, <2>2, <2>3, <2>4 DEF q, m
<1>4. rcvQ'.processing = {} /\ Copied' = m /\ caster'.pc = "get"
  BY <1>0, <1>3 DEF ReceiveQueueKept, Copied
<1> HIDE DEF m
<1>5. ReceiveQueueKept'
  <2>1. /\ rcvQ.dirty \subseteq Elems(rcvQ.items)
        /\ Rising(rcvQ.items) /\ Elems(rcvQ.items) \subseteq 1 .. added
        /\ \A k \in DOMAIN rcvQ.items : rcvQ.items[k] = Copied + k
        /\ Copied + Len(rcvQ.items) <= added
        /\ ~rcvQ.closed => Copied + Len(rcvQ.items) = added
    BY <1>1 DEF ReceiveQueueKept
  <2>2. /\ rcvQ'.dirty \subseteq Elems(rcvQ'.items)
        /\ Rising(rcvQ'.items) /\ Elems(rcvQ'.items) \subseteq 1 .. added'
        /\ \A k \in DOMAIN rcvQ'.items : rcvQ'.items[k] = Copied' + k
        /\ Copied' + Len(rcvQ'.items) <= added'
        /\ ~rcvQ'.closed => Copied' + Len(rcvQ'.items) = added'
    BY <1>0, <1>1, <1>3, <1>4, <2>1
  <2>3. server' = "grpc" /\ caster'.pc = "get" /\ rcvQ'.processing = {}
    BY <1>0, <1>1, <1>4
  <2> QED BY <2>2, <2>3 DEF ReceiveQueueKept
<1>6. casts' \in 0 .. MaxMsgs
  BY <1>0, <1>1
<1> QED BY <1>0, <1>1, <1>3, <1>5, <1>6 DEF m

LEMMA StopQueuesReceives ==
  ASSUME TypeOK, ReceiveQueueKept, StopQueues
  PROVE  /\ ReceiveQueueKept' /\ rcvQ' \in QueueType(Ids) /\ rcvQ'.items = rcvQ.items
<1>1. /\ UNCHANGED <<server, added, casts, caster>> /\ rcvQ' = QShutDown(rcvQ)
  BY DEF StopQueues
<1>2. /\ rcvQ' \in QueueType(Ids) /\ rcvQ'.items = rcvQ.items /\ rcvQ'.dirty = rcvQ.dirty
      /\ rcvQ'.processing = rcvQ.processing /\ rcvQ'.closed
  BY <1>1, ReceiveFacts, QShutDownType DEF QShutDown, QueueType
<1> QED BY <1>1, <1>2 DEF ReceiveQueueKept, Copied, Elems, Rising

\* A stream of a plugin takes the head and is done with it.
LEMMA StreamReceives ==
  ASSUME TypeOK, ReceiveQueueKept, server = "mpi", rcvQ.items # <<>>,
         UNCHANGED <<server, added, casts, caster>>,
         rcvQ' = QDone(QTake(rcvQ), Head(rcvQ.items))
  PROVE  ReceiveQueueKept' /\ rcvQ'.items = Tail(rcvQ.items)
<1> DEFINE i == rcvQ.items
           m == Head(i)
<1>1. /\ m \in Ids /\ Tail(i) \in Seq(Ids)
      /\ rcvQ.dirty \ {m} \subseteq Elems(Tail(i)) /\ Rising(Tail(i))
      /\ Elems(Tail(i)) \subseteq 1 .. added
  BY HeadTaken
<1>2. /\ rcvQ'.items = Tail(i) /\ rcvQ'.dirty = rcvQ.dirty \ {m}
      /\ rcvQ'.processing = rcvQ.processing \ {m}
  BY ReceiveFacts, TakeAndDone
<1>3. caster.pc = "none" /\ casts = 0 /\ rcvQ.processing = {}
  BY DEF ReceiveQueueKept
<1> HIDE DEF i, m
<1> QED BY <1>1, <1>2, <1>3 DEF ReceiveQueueKept, i

-----------------------------------------------------------------------------
(* The other steps that touch the streams, and the types.                    *)

SameStreams ==
  /\ st' \in [Streams -> StreamType]
  /\ \A s \in Streams : /\ SameReceiving(s) /\ SameSending(s)
                        /\ st'[s].send = st[s].send /\ st'[s].q = st[s].q

Quiet == Work \/ StopKill \/ StopPlugin \/ StopServer \/ RouterTakes

LEMMA QuietEffect ==
  ASSUME TypeOK, Quiet
  PROVE  AllElse /\ SameStreams
<1>1. AllElse
  BY DEF Quiet, Work, Listen, Serve, ServeMissed, Serves, StopKill, StopPlugin, StopServer,
         RouterTakes, AllElse
<1>2. CASE UNCHANGED st
  BY <1>1, <1>2 DEF TypeOK, SameStreams, SameReceiving, SameSending
<1>3. CASE StopServer
  <2>1. ASSUME NEW s \in Streams
        PROVE  /\ st'[s] \in StreamType /\ SameReceiving(s) /\ SameSending(s)
               /\ st'[s].send = st[s].send /\ st'[s].q = st[s].q
    <3> DEFINE c == st[s]
               r == [c EXCEPT !.broken = TRUE]
    <3>1. c \in StreamType /\ st'[s] \in {c, r}
      BY <1>3 DEF TypeOK, StopServer
    <3> HIDE DEF c
    <3>2. /\ r \in StreamType /\ r.id = c.id /\ r.inbox = c.inbox /\ r.since = c.since
          /\ r.left = c.left /\ r.env = c.env /\ r.sent = c.sent
          /\ r.afterwards = c.afterwards /\ r.send = c.send /\ r.recv = c.recv /\ r.q = c.q
      BY <3>1 DEF StreamType
    <3> HIDE DEF r
    <3> QED BY <3>1, <3>2 DEF c, SameReceiving, SameSending
  <2>2. st' = [s \in Streams |-> st'[s]]
    BY <1>3 DEF StopServer
  <2> QED BY <1>1, <2>1, <2>2 DEF SameStreams
<1> QED
  BY <1>1, <1>2, <1>3 DEF Quiet, Work, Listen, Serve, ServeMissed, Serves, StopKill,
                          StopPlugin, RouterTakes

LEMMA CastEffect ==
  ASSUME TypeOK, ReceiveQueueKept, Cast
  PROVE  /\ UNCHANGED <<server, added, streamQs, sQCount>>
         /\ st' \in [Streams -> StreamType]
         /\ \A s \in Streams :
              /\ SameReceiving(s) /\ SameSending(s) /\ st'[s].send = st[s].send
              /\ st'[s].q = IF s \in Elems(streamQs) THEN QAdd(st[s].q, caster.msg) ELSE st[s].q
<1>0. caster.msg \in Ids
  BY CastReceives
<1>1. ASSUME NEW s \in Streams
      PROVE  /\ st'[s] \in StreamType /\ SameReceiving(s) /\ SameSending(s)
             /\ st'[s].send = st[s].send
             /\ st'[s].q = IF s \in Elems(streamQs) THEN QAdd(st[s].q, caster.msg) ELSE st[s].q
  <2> DEFINE c == st[s]
             q == QAdd(c.q, caster.msg)
             r == [c EXCEPT !.q = q]
  <2>1. c \in StreamType /\ c.q \in QueueType(Ids)
    BY StreamFields
  <2>2. st'[s] = IF s \in Elems(streamQs) THEN r ELSE c
    BY DEF Cast
  <2>3. q \in QueueType(Ids)
    BY <1>0, <2>1, QueueOpsType
  <2> HIDE DEF c, q
  <2>4. /\ r \in StreamType /\ r.id = c.id /\ r.inbox = c.inbox /\ r.since = c.since
        /\ r.left = c.left /\ r.env = c.env /\ r.sent = c.sent
        /\ r.afterwards = c.afterwards /\ r.send = c.send /\ r.recv = c.recv /\ r.q = q
    BY <2>1, <2>3 DEF StreamType
  <2> HIDE DEF r
  <2> QED BY <2>1, <2>2, <2>4 DEF c, q, SameReceiving, SameSending
<1>2. st' = [s \in Streams |-> st'[s]] /\ UNCHANGED <<server, added, streamQs, sQCount>>
  BY DEF Cast
<1> QED BY <1>1, <1>2

\* The steps of the streams, by what they do to the rest.
LEMMA StreamsStep ==
  ASSUME TypeOK, NEW s \in Streams, StreamKept(s),
         Open(s) \/ Messenger(s) \/ Sender(s)
  PROVE  /\ StreamStep(s) /\ UNCHANGED <<server, added, caster, casts, stop, serve>>
         /\ rcvQ' \in QueueType(Ids) /\ sndQ' \in QueueType(Inbound)
<1>0. rcvQ \in QueueType(Ids) /\ sndQ \in QueueType(Inbound)
  BY DEF TypeOK
<1>1. CASE Open(s)
  BY <1>0, <1>1, OpenEffect DEF AllElse, Open, Becomes
<1>2. CASE Register(s)
  BY <1>0, <1>2, RegisterEffect DEF Register
<1>3. CASE Receive(s) \/ Take(s)
  BY <1>0, <1>3, TakeEffect DEF AllElse, Receive, Take, Becomes, StreamKept
<1>4. CASE RecvEnds(s)
  BY <1>0, <1>4, RecvEndsEffect DEF AllElse, RecvEnds, Becomes
<1>5. CASE Deregister(s)
  BY <1>0, <1>5, DeregisterEffect DEF Deregister
<1>6. CASE Tick(s)
  BY <1>0, <1>6, TickEffect DEF AllElse, Tick, Becomes
<1>7. CASE GetOne(s)
  <2>1. st[s].left > 0
    BY <1>7 DEF GetOne, StreamKept
  <2>2. UNCHANGED <<sndQ, stop, serve>>
    BY <1>7 DEF GetOne, Becomes
  <2> QED BY <1>0, <1>7, <2>1, <2>2, GetOneEffect
<1>8. CASE SendEnvelope(s) \/ SendFails(s)
  BY <1>0, <1>8, SendEffect DEF AllElse, SendEnvelope, SendFails, Becomes
<1> QED BY <1>1, <1>2, <1>3, <1>4, <1>5, <1>6, <1>7, <1>8 DEF Messenger, Sender

LEMMA TypeStep ==
  ASSUME IInv, Next
  PROVE  TypeOK'
<1>0. TypeOK /\ ReceiveQueueKept /\ ListKept /\ \A s \in Streams : StreamKept(s)
  BY DEF IInv
<1>1. server' \in Servers /\ stop' \in StopStages /\ serve' \in ServeStages
  <2>0. server \in Servers /\ stop \in StopStages /\ serve \in ServeStages
    BY <1>0 DEF TypeOK
  <2>1. CASE \/ Route \/ RouterTakes \/ CastGet \/ Cast \/ Work
              \/ StopQueues \/ StopKill \/ StopPlugin
    BY <2>0, <2>1 DEF Route, RouterTakes, CastGet, Cast, Work, Listen, Serve, ServeMissed,
                      Serves, StopQueues, StopKill, StopPlugin, StopStages, ServeStages
  <2>2. CASE StopServer
    <3>1. server' = server /\ stop' = "done"
          /\ serve' = CASE serve = "made" -> "stopped" [] serve = "serving" -> "ended"
                        [] serve = "off" -> "missed" [] OTHER -> serve
      BY <2>2 DEF StopServer
    <3> QED BY <2>0, <3>1 DEF StopStages, ServeStages
  <2>3. ASSUME NEW s \in Streams, Open(s) \/ Messenger(s) \/ Sender(s)
        PROVE  UNCHANGED <<server, stop, serve>>
    BY <1>0, <2>3, StreamsStep
  <2> QED BY <2>0, <2>1, <2>2, <2>3 DEF Next, Caster, Stop
<1>2. /\ added' \in 0 .. MaxMsgs /\ rcvQ' \in QueueType(Ids) /\ casts' \in 0 .. MaxMsgs
      /\ caster' \in [pc : {"none", "get", "cast", "exited"}, msg : Ids \cup {None}]
  <2>0. /\ added \in 0 .. MaxMsgs /\ rcvQ \in QueueType(Ids) /\ casts \in 0 .. MaxMsgs
        /\ caster \in [pc : {"none", "get", "cast", "exited"}, msg : Ids \cup {None}]
    BY <1>0 DEF TypeOK
  <2>1. CASE Route
    <3>1. UNCHANGED <<casts, caster>>
      BY <2>1 DEF Route
    <3> QED BY <1>0, <2>0, <2>1, <3>1, RouteReceives
  <2>2. CASE CastGet
    <3>1. UNCHANGED <<casts, added>>
      BY <2>2 DEF CastGet
    <3> QED BY <1>0, <2>0, <2>2, <3>1, CastGetReceives
  <2>3. CASE Cast
    <3>1. UNCHANGED added
      BY <2>3 DEF Cast
    <3> QED BY <1>0, <2>0, <2>3, <3>1, CastReceives
  <2>4. CASE StopQueues
    <3>1. UNCHANGED <<casts, added, caster>>
      BY <2>4 DEF StopQueues
    <3> QED BY <1>0, <2>0, <2>4, <3>1, StopQueuesReceives
  <2>5. CASE Quiet
    BY <1>0, <2>0, <2>5, QuietEffect DEF AllElse
  <2>6. ASSUME NEW s \in Streams, Open(s) \/ Messenger(s) \/ Sender(s)
        PROVE  UNCHANGED <<added, casts, caster>> /\ rcvQ' \in QueueType(Ids)
    BY <1>0, <2>6, StreamsStep
  <2> QED BY <2>0, <2>1, <2>2, <2>3, <2>4, <2>5, <2>6 DEF Next, Caster, Stop, Quiet
<1>3. st' \in [Streams -> StreamType] /\ sndQ' \in QueueType(Inbound)
  <2>0. st \in [Streams -> StreamType] /\ sndQ \in QueueType(Inbound)
    BY <1>0 DEF TypeOK
  <2>1. CASE Route \/ CastGet
    BY <2>0, <2>1 DEF Route, CastGet
  <2>2. CASE Cast
    <3>1. UNCHANGED sndQ
      BY <2>2 DEF Cast
    <3> QED BY <1>0, <2>0, <2>2, <3>1, CastEffect
  <2>3. CASE StopQueues
    <3>1. UNCHANGED st /\ sndQ' = QShutDown(sndQ)
      BY <2>3 DEF StopQueues
    <3> QED BY <2>0, <3>1, QShutDownType
  <2>4. CASE RouterTakes
    <3>1. UNCHANGED st /\ sndQ.items # <<>> /\ sndQ' = QDone(QTake(sndQ), Head(sndQ.items))
      BY <2>4 DEF RouterTakes
    <3> QED BY <2>0, <3>1, TakeAndDone
  <2>5. CASE Work \/ StopKill \/ StopPlugin \/ StopServer
    <3>1. UNCHANGED sndQ
      BY <2>5 DEF Work, Listen, Serve, ServeMissed, Serves, StopKill, StopPlugin, StopServer
    <3> QED BY <1>0, <2>0, <2>5, <3>1, QuietEffect DEF Quiet, SameStreams
  <2>6. ASSUME NEW s \in Streams, Open(s) \/ Messenger(s) \/ Sender(s)
        PROVE  st' \in [Streams -> StreamType] /\ sndQ' \in QueueType(Inbound)
    BY <1>0, <2>6, StreamsStep DEF StreamStep
  <2> QED BY <2>1, <2>2, <2>3, <2>4, <2>5, <2>6 DEF Next, Caster, Stop
<1>4. streamQs' \in Seq(Streams) /\ sQCount' \in Nat
  <2>0. streamQs \in Seq(Streams) /\ sQCount \in Nat
    BY <1>0 DEF TypeOK
  <2>1. CASE Route \/ RouterTakes \/ Caster \/ Work \/ Stop
    BY <2>0, <2>1 DEF Route, RouterTakes, Caster, CastGet, Cast, Work, Listen, Serve,
                      ServeMissed, Serves, Stop, StopQueues, StopKill, StopPlugin, StopServer
  <2>2. ASSUME NEW s \in Streams, Register(s)
        PROVE  streamQs' \in Seq(Streams) /\ sQCount' \in Nat
    <3>1. streamQs' = Append(streamQs, s) /\ sQCount' = sQCount + 1
      BY <2>2 DEF Register
    <3> QED BY <2>0, <3>1
  <2>3. ASSUME NEW s \in Streams, Deregister(s)
        PROVE  streamQs' \in Seq(Streams) /\ sQCount' \in Nat
    <3>1. streamQs' = RemoveAt(streamQs, Position(s)) /\ sQCount' = sQCount /\ st[s].recv = "remove"
      BY <2>3 DEF Deregister
    <3>2. s \in Elems(streamQs)
      BY <1>0, <3>1 DEF ListKept, Listed, StreamKept
    <3>3. Position(s) \in DOMAIN streamQs
      BY <1>0, <3>2, PositionIs
    <3> QED BY <2>0, <3>1, <3>3, RemoveEffect
  <2>4. ASSUME NEW s \in Streams,
               Open(s) \/ Receive(s) \/ Take(s) \/ RecvEnds(s) \/ Tick(s) \/ GetOne(s)
                 \/ SendEnvelope(s) \/ SendFails(s)
        PROVE  UNCHANGED <<streamQs, sQCount>>
    BY <2>4 DEF Open, Receive, Take, RecvEnds, Tick, GetOne, SendEnvelope, SendFails, Becomes
  <2> QED BY <2>0, <2>1, <2>2, <2>3, <2>4 DEF Next, Messenger, Sender
<1> QED BY <1>1, <1>2, <1>3, <1>4 DEF TypeOK

-----------------------------------------------------------------------------
(* Every step keeps the invariant.                                           *)

LEMMA ReceiveStep ==
  ASSUME IInv, Next
  PROVE  ReceiveQueueKept'
<1>0. TypeOK /\ ReceiveQueueKept /\ \A s \in Streams : StreamKept(s)
  BY DEF IInv
<1>1. CASE Route \/ Caster \/ StopQueues
  BY <1>0, <1>1, RouteReceives, CastGetReceives, CastReceives, StopQueuesReceives DEF Caster
<1>2. CASE Quiet
  BY <1>0, <1>2, QuietEffect, ReceiveQueueUnchanged DEF AllElse
<1>3. ASSUME NEW s \in Streams, GetOne(s)
      PROVE  ReceiveQueueKept'
  <2>1. st[s].left > 0
    BY <1>0, <1>3 DEF GetOne, StreamKept
  <2>2. UNCHANGED <<server, added, casts, caster>>
    BY <1>3 DEF GetOne, Becomes
  <2>3. \/ UNCHANGED rcvQ
        \/ /\ server # "grpc" /\ QueueOf(s).items # <<>>
           /\ rcvQ' = QDone(QTake(QueueOf(s)), Head(QueueOf(s).items))
    BY <1>0, <1>3, <2>1, GetOneEffect
  <2>4. CASE UNCHANGED rcvQ
    BY <1>0, <2>2, <2>4, ReceiveQueueUnchanged
  <2>5. CASE /\ server # "grpc" /\ QueueOf(s).items # <<>>
             /\ rcvQ' = QDone(QTake(QueueOf(s)), Head(QueueOf(s).items))
    <3>1. QueueOf(s) = rcvQ
      BY <2>5 DEF QueueOf
    <3>2. server = "mpi"
      BY <1>0, <2>5, ReceiveFacts
    <3> QED BY <1>0, <2>2, <2>5, <3>1, <3>2, StreamReceives
  <2> QED BY <2>3, <2>4, <2>5
<1>4. ASSUME NEW s \in Streams,
             Open(s) \/ Messenger(s) \/ Tick(s) \/ SendEnvelope(s) \/ SendFails(s)
      PROVE  UNCHANGED <<server, added, rcvQ, caster, casts>>
  BY <1>4 DEF Open, Messenger, Register, Receive, Take, RecvEnds, Deregister, Tick,
              SendEnvelope, SendFails, Becomes
<1> QED
  BY <1>0, <1>1, <1>2, <1>3, <1>4, ReceiveQueueUnchanged DEF Next, Stop, Quiet, Sender

\* The list changes with a registration and when a stream is taken out.
LEMMA ListUnchanged ==
  ASSUME ListKept, UNCHANGED <<server, streamQs, sQCount>>,
         \A s \in Streams : /\ st'[s].id = st[s].id
                            /\ server = "grpc" => (st'[s].recv \in Listed <=> st[s].recv \in Listed),
         Elems(streamQs) \subseteq Streams
  PROVE  ListKept'
<1>1. Elems(streamQs)' = Elems(streamQs)
  BY DEF Elems
<1> QED BY <1>1 DEF ListKept

LEMMA RegisterLists ==
  ASSUME TypeOK, ListKept, NEW s \in Streams, StreamKept(s), Register(s)
  PROVE  ListKept'
<1> DEFINE L == streamQs
           n == Len(L)
<1>0. L \in Seq(Streams) /\ n \in Nat /\ DOMAIN L = 1 .. n /\ sQCount \in Nat
      /\ Elems(L) \subseteq Streams
  <2>1. L \in Seq(Streams) /\ sQCount \in Nat
    BY DEF TypeOK
  <2> QED BY <2>1 DEF Elems
<1>1. /\ UNCHANGED server /\ L' = Append(L, s) /\ sQCount' = sQCount + 1 /\ server = "grpc"
      /\ st[s].recv = "lock" /\ st'[s].recv \in {"recv", "leave"} /\ st'[s].id = sQCount
      /\ \A t \in Streams \ {s} : st'[t] = st[t]
  BY RegisterEffect DEF StreamStep, OthersSame, StreamKept
<1>2. s \notin Elems(L)
  BY <1>1 DEF ListKept, Listed, Active
<1>3. /\ Elems(L') = Elems(L) \cup {s} /\ DOMAIN L' = 1 .. n + 1 /\ L'[n + 1] = s
      /\ \A k \in 1 .. n : L'[k] = L[k]
  BY <1>0, <1>1, ElemsAppend
<1>4. \A k \in 1 .. n : L[k] \in Elems(L)
  BY <1>0 DEF Elems
<1>5. /\ \A t \in Streams : t \in Elems(L) <=> st[t].recv \in Listed
      /\ \A j, k \in 1 .. n : L[j] = L[k] => j = k
      /\ \A t \in Elems(L) : st[t].id \in 0 .. sQCount - 1
      /\ \A t, u \in Elems(L) : st[t].id = st[u].id => t = u
  BY <1>0, <1>1 DEF ListKept
<1> HIDE DEF L, n
<1>6. \A t \in Streams : t \in Elems(L') <=> st'[t].recv \in Listed
  BY <1>1, <1>3, <1>5 DEF Listed, Active
<1>7. \A j, k \in 1 .. n + 1 : L'[j] = L'[k] => j = k
  <2> SUFFICES ASSUME NEW j \in 1 .. n + 1, NEW k \in 1 .. n + 1, L'[j] = L'[k]
               PROVE  j = k
    OBVIOUS
  <2>1. CASE j = n + 1 /\ k # n + 1
    BY <1>0, <1>2, <1>3, <1>4, <2>1
  <2>2. CASE k = n + 1 /\ j # n + 1
    BY <1>0, <1>2, <1>3, <1>4, <2>2
  <2>3. CASE j # n + 1 /\ k # n + 1
    BY <1>0, <1>3, <1>5, <2>3
  <2> QED BY <2>1, <2>2, <2>3
<1>8. \A t \in Elems(L) : t \in Streams \ {s}
  BY <1>0, <1>2
<1>9. \A t \in Elems(L') : st'[t].id \in 0 .. sQCount' - 1
  BY <1>0, <1>1, <1>3, <1>5, <1>8
<1>10. \A t, u \in Elems(L') : st'[t].id = st'[u].id => t = u
  BY <1>0, <1>1, <1>3, <1>5, <1>8
<1> QED BY <1>1, <1>3, <1>6, <1>7, <1>9, <1>10 DEF ListKept, L

LEMMA DeregisterLists ==
  ASSUME TypeOK, ListKept, NEW s \in Streams, StreamKept(s), Deregister(s)
  PROVE  ListKept'
<1> DEFINE L == streamQs
           n == Len(L)
           i == Position(s)
<1>0. L \in Seq(Streams) /\ n \in Nat /\ DOMAIN L = 1 .. n /\ sQCount \in Nat
      /\ Elems(L) \subseteq Streams
  <2>1. L \in Seq(Streams) /\ sQCount \in Nat
    BY DEF TypeOK
  <2> QED BY <2>1 DEF Elems
<1>1. /\ UNCHANGED <<server, sQCount>> /\ L' = RemoveAt(L, i) /\ server = "grpc"
      /\ st[s].recv = "remove" /\ st'[s].recv = "gone" /\ st'[s].id = st[s].id
      /\ \A t \in Streams \ {s} : st'[t] = st[t]
  BY DeregisterEffect DEF StreamStep, OthersSame, StreamKept
<1>2. s \in Elems(L)
  BY <1>1 DEF ListKept, Listed
<1>3. i \in 1 .. n /\ L[i] = s
  BY <1>0, <1>2, PositionIs
<1>5. /\ \A t \in Streams : t \in Elems(L) <=> st[t].recv \in Listed
      /\ \A j, k \in 1 .. n : L[j] = L[k] => j = k
      /\ \A t \in Elems(L) : st[t].id \in 0 .. sQCount - 1
      /\ \A t, u \in Elems(L) : st[t].id = st[u].id => t = u
  BY <1>0, <1>1 DEF ListKept
<1> HIDE DEF L, n, i
<1>4. /\ DOMAIN L' = 1 .. n - 1
      /\ \A k \in 1 .. n - 1 : L'[k] = L[IF k < i THEN k ELSE k + 1]
  <2>1. RemoveAt(L, i) \in Seq(Streams) /\ Len(RemoveAt(L, i)) = Len(L) - 1
        /\ \A k \in 1 .. Len(L) - 1 : RemoveAt(L, i)[k] = L[IF k < i THEN k ELSE k + 1]
    BY <1>0, <1>3, RemoveEffect
  <2> QED BY <1>0, <1>1, <2>1 DEF n
<1>6. Elems(L') = Elems(L) \ {s}
  <2>1. ASSUME NEW k \in 1 .. n - 1
        PROVE  L'[k] \in Elems(L) /\ L'[k] # s
    <3> DEFINE j == IF k < i THEN k ELSE k + 1
    <3>1. j \in 1 .. n /\ j # i /\ L'[k] = L[j]
      BY <1>0, <1>3, <1>4
    <3> QED BY <1>0, <1>3, <1>5, <3>1 DEF Elems
  <2>2. ASSUME NEW j \in 1 .. n, L[j] # s
        PROVE  \E k \in 1 .. n - 1 : L'[k] = L[j]
    <3>1. j # i
      BY <1>3, <2>2
    <3>2. CASE j < i
      BY <1>0, <1>3, <1>4, <3>2
    <3>3. CASE j > i
      <4>1. j - 1 \in 1 .. n - 1 /\ ~(j - 1 < i) /\ (j - 1) + 1 = j
        BY <1>0, <1>3, <3>3
      <4> QED BY <1>4, <4>1
    <3> QED BY <1>0, <1>3, <3>1, <3>2, <3>3
  <2>3. \A x : x \in Elems(L') <=> \E k \in 1 .. n - 1 : L'[k] = x
    BY <1>4 DEF Elems
  <2>4. \A x : x \in Elems(L) <=> \E j \in 1 .. n : L[j] = x
    BY <1>0 DEF Elems
  <2> QED BY <2>1, <2>2, <2>3, <2>4
<1>7. \A j, k \in 1 .. n - 1 : L'[j] = L'[k] => j = k
  BY <1>0, <1>3, <1>4, <1>5
<1>8. \A t \in Elems(L') : t \in Streams \ {s} /\ st'[t] = st[t]
  BY <1>0, <1>1, <1>6
<1>9. \A t \in Streams : t \in Elems(L') <=> st'[t].recv \in Listed
  BY <1>1, <1>5, <1>6 DEF Listed, Active
<1> QED BY <1>1, <1>4, <1>5, <1>6, <1>7, <1>8, <1>9 DEF ListKept, L

LEMMA ListStep ==
  ASSUME IInv, Next
  PROVE  ListKept'
<1>0. /\ TypeOK /\ ReceiveQueueKept /\ ListKept /\ \A s \in Streams : StreamKept(s)
      /\ Elems(streamQs) \subseteq Streams
  <2>1. TypeOK /\ ReceiveQueueKept /\ ListKept /\ \A s \in Streams : StreamKept(s)
    BY DEF IInv
  <2>2. streamQs \in Seq(Streams)
    BY <2>1 DEF TypeOK
  <2>3. Elems(streamQs) \subseteq Streams
    BY <2>2 DEF Elems
  <2> QED BY <2>1, <2>3
<1>1. CASE Route \/ CastGet \/ StopQueues
  <2>1. UNCHANGED <<server, streamQs, sQCount, st>>
    BY <1>1 DEF Route, CastGet, StopQueues
  <2> QED BY <1>0, <2>1, ListUnchanged
<1>2. CASE Quiet
  <2>1. /\ UNCHANGED <<server, streamQs, sQCount>>
        /\ \A s \in Streams : st'[s].id = st[s].id /\ st'[s].recv = st[s].recv
    BY <1>0, <1>2, QuietEffect DEF AllElse, SameStreams, SameReceiving
  <2> QED BY <1>0, <2>1, ListUnchanged
<1>3. CASE Cast
  <2>1. /\ UNCHANGED <<server, streamQs, sQCount>>
        /\ \A s \in Streams : st'[s].id = st[s].id /\ st'[s].recv = st[s].recv
    BY <1>0, <1>3, CastEffect DEF SameReceiving
  <2> QED BY <1>0, <2>1, ListUnchanged
<1>4. ASSUME NEW s \in Streams, Register(s) \/ Deregister(s)
      PROVE  ListKept'
  BY <1>0, <1>4, RegisterLists, DeregisterLists
<1>5. ASSUME NEW s \in Streams,
             UNCHANGED <<server, streamQs, sQCount>>, OthersSame(s),
             st'[s].id = st[s].id,
             server = "grpc" => (st'[s].recv \in Listed <=> st[s].recv \in Listed)
      PROVE  ListKept'
  <2>1. \A t \in Streams :
          /\ st'[t].id = st[t].id
          /\ server = "grpc" => (st'[t].recv \in Listed <=> st[t].recv \in Listed)
    BY <1>5 DEF OthersSame
  <2> QED BY <1>0, <1>5, <2>1, ListUnchanged
<1>6. ASSUME NEW s \in Streams, Open(s)
      PROVE  ListKept'
  <2>1. server = "grpc" => st[s].recv \notin Listed /\ st'[s].recv \notin Listed
    BY <1>0, <1>6, OpenEffect DEF Listed, Active
  <2> QED BY <1>0, <1>5, <1>6, <2>1, OpenEffect DEF AllElse, StreamStep
<1>7. ASSUME NEW s \in Streams, Receive(s) \/ Take(s)
      PROVE  ListKept'
  <2>1. st[s].recv = "take" => st[s].inbox # <<>>
    BY <1>0 DEF StreamKept
  <2>2. st[s].recv \in Listed /\ st'[s].recv \in Listed
    BY <1>0, <1>7, <2>1, TakeEffect DEF Listed, Active
  <2> QED BY <1>0, <1>5, <1>7, <2>1, <2>2, TakeEffect DEF AllElse, StreamStep
<1>8. ASSUME NEW s \in Streams, RecvEnds(s)
      PROVE  ListKept'
  <2>1. server = "grpc" => st[s].recv \in Listed /\ st'[s].recv \in Listed
    BY <1>0, <1>8, RecvEndsEffect DEF Listed, Active
  <2> QED BY <1>0, <1>5, <1>8, <2>1, RecvEndsEffect DEF AllElse, StreamStep
<1>9. ASSUME NEW s \in Streams, Tick(s) \/ SendEnvelope(s) \/ SendFails(s)
      PROVE  ListKept'
  <2>1. AllElse /\ StreamStep(s) /\ SameReceiving(s)
    BY <1>0, <1>9, TickEffect, SendEffect
  <2> QED BY <1>5, <2>1 DEF AllElse, StreamStep, SameReceiving
<1>10. ASSUME NEW s \in Streams, GetOne(s)
       PROVE  ListKept'
  <2>1. st[s].left > 0
    BY <1>0, <1>10 DEF GetOne, StreamKept
  <2>2. /\ StreamStep(s) /\ SameReceiving(s)
        /\ UNCHANGED <<server, added, caster, casts, streamQs, sQCount>>
    BY <1>0, <1>10, <2>1, GetOneEffect
  <2> QED BY <1>5, <2>2 DEF StreamStep, SameReceiving
<1> QED
  BY <1>1, <1>2, <1>3, <1>4, <1>6, <1>7, <1>8, <1>9, <1>10
     DEF Next, Stop, Caster, Quiet, Messenger, Sender

\* Others only begin to send.
LEMMA AloneBefore ==
  ASSUME UNCHANGED server, NEW t \in Streams, Alone(t)',
         \A u \in Streams \ {t} : st[u].send # "none" => st'[u].send # "none"
  PROVE  Alone(t)
BY DEF Alone

\* A stream that does not move itself.
LEMMA StreamUnmoved ==
  ASSUME UNCHANGED server, NEW t \in Streams, StreamKept(t),
         SameReceiving(t), SameSending(t), st'[t].send = st[t].send,
         st[t].left \in Nat, Len(QueueOf(t).items) \in Nat, Len(QueueOf(t).items)' \in Nat,
         Alone(t)' => Alone(t) /\ Len(QueueOf(t).items)' >= Len(QueueOf(t).items)
  PROVE  StreamKept(t)'
<1>1. Out(t)' = Out(t)
  BY DEF Out, SameSending
<1>2. Alone(t)' /\ st'[t].send = "get" => st'[t].left <= Len(QueueOf(t).items)'
  BY DEF StreamKept, SameSending
<1> QED BY <1>1, <1>2 DEF StreamKept, SameReceiving, SameSending

LEMMA QueueLength ==
  ASSUME TypeOK, NEW s \in Streams
  PROVE  Len(QueueOf(s).items) \in Nat
<1>1. QueueOf(s).items \in Seq(Ids)
  BY StreamFields
<1> QED BY <1>1

LEMMA AddLength ==
  ASSUME NEW r \in QueueType(Ids), NEW m \in Ids
  PROVE  Len(QAdd(r, m).items) >= Len(r.items)
<1> DEFINE i == r.items
<1>1. i \in Seq(Ids)
  BY DEF QueueType
<1>2. QAdd(r, m).items \in {i, Append(i, m)}
  BY DEF QAdd, QueueType
<1> HIDE DEF i
<1>3. Len(Append(i, m)) = Len(i) + 1 /\ Len(i) \in Nat
  BY <1>1
<1> QED BY <1>2, <1>3 DEF i

\* The steps that are not those of a stream.
LEMMA OtherStepsStream ==
  ASSUME TypeOK, TypeOK', ReceiveQueueKept, NEW t \in Streams, StreamKept(t),
         Route \/ Caster \/ StopQueues \/ Quiet
  PROVE  StreamKept(t)'
<1>0. st[t].left \in Nat /\ st[t].q \in QueueType(Ids)
  BY StreamFields
<1>1. Len(QueueOf(t).items) \in Nat /\ Len(QueueOf(t).items)' \in Nat
  <2>1. Len(QueueOf(t).items) \in Nat
    BY QueueLength
  <2>2. Len(QueueOf(t).items)' \in Nat
    <3>1. QueueOf(t)' \in QueueType(Ids)
      BY DEF TypeOK, QueueOf, StreamType
    <3>2. QueueOf(t)'.items \in Seq(Ids)
      BY <3>1 DEF QueueType
    <3> QED BY <3>2
  <2> QED BY <2>1, <2>2
<1>2. ASSUME SameStreams, UNCHANGED server,
             server # "grpc" => Len(rcvQ'.items) >= Len(rcvQ.items)
      PROVE  StreamKept(t)'
  <2>1. Alone(t)' => Alone(t)
    BY <1>2, AloneBefore DEF SameStreams
  <2>2. Len(QueueOf(t).items)' >= Len(QueueOf(t).items)
    BY <1>1, <1>2 DEF QueueOf, SameStreams
  <2> QED BY <1>0, <1>1, <1>2, <2>1, <2>2, StreamUnmoved DEF SameStreams
<1>3. UNCHANGED st => SameStreams
  BY DEF TypeOK, SameStreams, SameReceiving, SameSending
<1>4. Len(rcvQ.items) \in Nat
  BY ReceiveFacts
<1>5. CASE Route
  <2>1. UNCHANGED <<st, server>>
    BY <1>5 DEF Route
  <2> QED BY <1>2, <1>3, <1>5, <2>1, RouteReceives
<1>6. CASE CastGet
  <2>1. UNCHANGED <<st, server>> /\ server = "grpc"
    BY <1>6, CastGetReceives DEF CastGet
  <2> QED BY <1>2, <1>3, <2>1
<1>7. CASE StopQueues
  <2>1. UNCHANGED <<st, server>>
    BY <1>7 DEF StopQueues
  <2> QED BY <1>2, <1>3, <1>4, <1>7, <2>1, StopQueuesReceives
<1>8. CASE Quiet
  <2>1. SameStreams /\ UNCHANGED <<server, rcvQ>>
    BY <1>8, QuietEffect DEF AllElse
  <2> QED BY <1>2, <1>4, <2>1
<1>9. CASE Cast
  <2>1. /\ UNCHANGED server /\ server = "grpc" /\ caster.msg \in Ids
        /\ \A s \in Streams :
             /\ SameReceiving(s) /\ SameSending(s) /\ st'[s].send = st[s].send
             /\ st'[s].q = IF s \in Elems(streamQs) THEN QAdd(st[s].q, caster.msg) ELSE st[s].q
    BY <1>9, CastEffect, CastReceives
  <2>2. Alone(t)' => Alone(t)
    BY <2>1, AloneBefore
  <2>3. Len(st'[t].q.items) >= Len(st[t].q.items)
    BY <1>0, <1>1, <2>1, AddLength DEF QueueOf
  <2>4. Len(QueueOf(t).items)' >= Len(QueueOf(t).items)
    BY <2>1, <2>3 DEF QueueOf
  <2> QED BY <1>0, <1>1, <2>1, <2>2, <2>4, StreamUnmoved
<1> QED BY <1>5, <1>6, <1>7, <1>8, <1>9 DEF Caster

\* What the steps of a stream are to the others.
LEMMA SendsGoOn ==
  ASSUME TypeOK, NEW s \in Streams, StreamKept(s),
         Open(s) \/ Messenger(s) \/ Sender(s)
  PROVE  /\ st[s].send # "none" => st'[s].send # "none"
         /\ rcvQ' = rcvQ \/ (server # "grpc" /\ st'[s].send # "none")
<1>1. CASE Open(s)
  BY <1>1, OpenEffect DEF AllElse
<1>2. CASE Register(s)
  BY <1>2, RegisterEffect
<1>3. CASE Receive(s) \/ Take(s)
  BY <1>3, TakeEffect DEF AllElse, StreamKept
<1>4. CASE RecvEnds(s)
  BY <1>4, RecvEndsEffect DEF AllElse
<1>5. CASE Deregister(s)
  BY <1>5, DeregisterEffect
<1>6. CASE Tick(s)
  BY <1>6, TickEffect DEF AllElse
<1>7. CASE GetOne(s)
  <2>1. st[s].left > 0
    BY <1>7 DEF GetOne, StreamKept
  <2> QED BY <1>7, <2>1, GetOneEffect
<1>8. CASE SendEnvelope(s) \/ SendFails(s)
  BY <1>8, SendEffect DEF AllElse
<1> QED BY <1>1, <1>2, <1>3, <1>4, <1>5, <1>6, <1>7, <1>8 DEF Messenger, Sender

LEMMA OtherStreams ==
  ASSUME TypeOK, TypeOK', NEW s \in Streams, NEW t \in Streams \ {s},
         StreamKept(s), StreamKept(t), Open(s) \/ Messenger(s) \/ Sender(s)
  PROVE  StreamKept(t)'
<1>0. st'[t] = st[t] /\ UNCHANGED server /\ \A u \in Streams \ {s} : st'[u] = st[u]
  BY StreamsStep DEF StreamStep, OthersSame
<1>1. st[t].left \in Nat /\ Len(QueueOf(t).items) \in Nat
  BY StreamFields, QueueLength
<1>2. /\ st[s].send # "none" => st'[s].send # "none"
      /\ rcvQ' = rcvQ \/ (server # "grpc" /\ st'[s].send # "none")
  BY SendsGoOn
<1>3. Alone(t)' => Alone(t)
  <2>1. \A u \in Streams \ {t} : st[u].send # "none" => st'[u].send # "none"
    BY <1>0, <1>2
  <2> QED BY <1>0, <2>1, AloneBefore
<1>4. Alone(t)' => QueueOf(t)' = QueueOf(t)
  <2>1. CASE rcvQ' = rcvQ
    BY <1>0, <2>1 DEF QueueOf
  <2>2. CASE server # "grpc" /\ st'[s].send # "none"
    BY <1>0, <2>2 DEF Alone
  <2> QED BY <1>2, <2>1, <2>2
<1>5. SameReceiving(t) /\ SameSending(t) /\ st'[t].send = st[t].send
  BY <1>0 DEF SameReceiving, SameSending
<1>6. Len(QueueOf(t).items)' \in Nat
  <2>1. QueueOf(t)' \in QueueType(Ids)
    BY DEF TypeOK, QueueOf, StreamType
  <2>2. QueueOf(t)'.items \in Seq(Ids)
    BY <2>1 DEF QueueType
  <2> QED BY <2>2
<1>7. Alone(t)' => Len(QueueOf(t).items)' >= Len(QueueOf(t).items)
  BY <1>1, <1>4
<1> QED BY <1>0, <1>1, <1>3, <1>5, <1>6, <1>7, StreamUnmoved

\* The receive loop moves, or the stream is opened, listed or taken out.
LEMMA MessengerStream ==
  ASSUME TypeOK, NEW s \in Streams, StreamKept(s), Open(s) \/ Messenger(s)
  PROVE  StreamKept(s)'
<1>0. /\ st[s].left \in Nat /\ st[s].q \in QueueType(Ids) /\ Len(QueueOf(s).items) \in Nat
      /\ st[s].recv = "take" => st[s].inbox # <<>>
  BY StreamFields, QueueLength DEF StreamKept
<1>1. ASSUME SameSending(s), UNCHANGED <<server, rcvQ>>, OthersSame(s),
             st'[s].send \in {st[s].send, "tick"},
             st'[s].send = "get" => st[s].send = "get",
             st'[s].send # "exited" => st[s].send # "exited",
             st'[s].q.items = st[s].q.items,
             st'[s].recv \in {"none", "lock"} => st'[s].send = "none" /\ st[s].recv = "none",
             st'[s].recv = "take" => st'[s].inbox # <<>>,
             st'[s].recv \in {"lock", "remove"} => server = "grpc"
      PROVE  StreamKept(s)'
  <2>1. Out(s)' = Out(s)
    BY <1>1 DEF Out, SameSending
  <2>2. Alone(s)' => Alone(s)
    BY <1>1, AloneBefore DEF OthersSame
  <2>3. QueueOf(s).items' = QueueOf(s).items
    BY <1>1 DEF QueueOf
  <2> QED BY <1>1, <2>1, <2>2, <2>3 DEF StreamKept, SameSending
<1>2. CASE Open(s)
  <2>1. st[s].send = "none" /\ st[s].recv = "none"
    BY <1>2, OpenEffect DEF StreamKept
  <2> QED BY <1>1, <1>2, <2>1, OpenEffect DEF AllElse, StreamStep
<1>3. CASE Register(s)
  <2>1. st[s].send = "none"
    BY <1>3, RegisterEffect DEF StreamKept
  <2> QED BY <1>1, <1>3, <2>1, RegisterEffect DEF StreamStep
<1>4. CASE Receive(s) \/ Take(s)
  BY <1>0, <1>1, <1>4, TakeEffect DEF AllElse, StreamStep, Active
<1>5. CASE RecvEnds(s)
  <2>1. st'[s].q.items = st[s].q.items
    BY <1>0, <1>5, RecvEndsEffect DEF QShutDown, QueueType
  <2> QED BY <1>1, <1>5, <2>1, RecvEndsEffect DEF AllElse, StreamStep
<1>6. CASE Deregister(s)
  BY <1>1, <1>6, DeregisterEffect DEF StreamStep
<1> QED BY <1>2, <1>3, <1>4, <1>5, <1>6 DEF Messenger

\* The send routine moves.
LEMMA SenderStream ==
  ASSUME TypeOK, NEW s \in Streams, StreamKept(s), Sender(s)
  PROVE  StreamKept(s)'
<1>0. /\ st[s].left \in Nat /\ st[s].afterwards \in Nat /\ Len(QueueOf(s).items) \in Nat
      /\ st[s].recv \in {"none", "lock"} => st[s].send = "none"
      /\ st[s].recv = "take" => st[s].inbox # <<>>
      /\ st[s].recv \in {"lock", "remove"} => server = "grpc"
      /\ st[s].afterwards <= IF st[s].send = "exited" THEN 1 ELSE 0
  BY StreamFields, QueueLength DEF StreamKept
<1>1. CASE Tick(s)
  <2>1. /\ AllElse /\ SameReceiving(s) /\ st[s].send = "tick" /\ st'[s].q = st[s].q
        /\ st'[s].afterwards = st[s].afterwards
        /\ \/ st'[s].send = "exited"
           \/ /\ st'[s].send = "get" /\ st'[s].left = Len(QueueOf(s).items)
              /\ st'[s].left > 0
    BY <1>1, TickEffect
  <2>2. QueueOf(s)' = QueueOf(s)
    BY <2>1 DEF QueueOf, AllElse
  <2>3. st'[s].afterwards <= IF st'[s].send = "exited" THEN 1 ELSE 0
    BY <1>0, <2>1
  <2>4. st'[s].send = "get" => st'[s].left > 0 /\ st'[s].left <= Len(QueueOf(s).items)'
    BY <1>0, <2>1, <2>2
  <2> QED BY <1>0, <2>1, <2>3, <2>4 DEF StreamKept, SameReceiving, AllElse
<1>2. CASE SendEnvelope(s) \/ SendFails(s)
  <2>1. /\ AllElse /\ SameReceiving(s) /\ st[s].send = "send"
        /\ \/ st'[s].send = "tick" /\ st'[s].afterwards = st[s].afterwards
           \/ /\ st'[s].send = "exited"
              /\ st'[s].afterwards \in {st[s].afterwards, st[s].afterwards + 1}
    BY <1>2, SendEffect
  <2>2. st'[s].afterwards <= IF st'[s].send = "exited" THEN 1 ELSE 0
    BY <1>0, <2>1
  <2> QED BY <1>0, <2>1, <2>2 DEF StreamKept, SameReceiving, AllElse
<1>3. CASE GetOne(s)
  <2>0. st[s].left > 0 /\ st[s].send = "get"
    BY <1>3 DEF GetOne, StreamKept
  <2> DEFINE q == QueueOf(s)
             n == Len(q.items)
             done == QDone(QTake(q), Head(q.items))
  <2>1. /\ SameReceiving(s) /\ UNCHANGED server /\ OthersSame(s)
        /\ st'[s].afterwards = st[s].afterwards
        /\ \/ /\ q.items # <<>> /\ st'[s].left = st[s].left - 1
              /\ st'[s].send = (IF st[s].left = 1 THEN "send" ELSE "get")
              /\ IF server = "grpc" THEN st'[s].q = done ELSE rcvQ' = done
           \/ st'[s].send = "exited"
    BY <1>3, <2>0, GetOneEffect DEF StreamStep
  <2>2. st'[s].afterwards <= IF st'[s].send = "exited" THEN 1 ELSE 0
    BY <1>0, <2>0, <2>1
  <2>3. CASE st'[s].send = "exited"
    BY <1>0, <2>0, <2>1, <2>2, <2>3 DEF StreamKept, SameReceiving
  <2>4. CASE st'[s].send # "exited"
    <3>1. QueueOf(s)' = done
      BY <2>1, <2>4 DEF QueueOf
    <3>2. q \in QueueType(Ids) /\ q.items \in Seq(Ids) /\ q.items # <<>>
      BY <2>1, <2>4, StreamFields
    <3> HIDE DEF q
    <3>3. done.items = Tail(q.items)
      BY <3>2, TakeAndDone
    <3>4. Len(Tail(q.items)) = n - 1
      BY <3>2
    <3>5. Alone(s)' => Alone(s)
      BY <2>1, AloneBefore DEF OthersSame
    <3>6. st'[s].send = "get" => st'[s].left > 0
      BY <1>0, <2>0, <2>1, <2>4
    <3>7. Len(QueueOf(s).items)' = n - 1
      BY <3>1, <3>3, <3>4
    <3>8. Alone(s) => st[s].left <= n
      BY <2>0 DEF StreamKept, q
    <3>9. n \in Nat
      BY <1>0 DEF q
    <3>10. Alone(s)' /\ st'[s].send = "get" => st'[s].left <= Len(QueueOf(s).items)'
      BY <1>0, <2>1, <2>4, <3>5, <3>7, <3>8, <3>9
    <3> QED BY <1>0, <2>0, <2>1, <2>2, <3>6, <3>10 DEF StreamKept, SameReceiving
  <2> QED BY <2>3, <2>4
<1> QED BY <1>1, <1>2, <1>3 DEF Sender

LEMMA StreamKeptStep ==
  ASSUME IInv, TypeOK', Next, NEW t \in Streams
  PROVE  StreamKept(t)'
<1>0. TypeOK /\ ReceiveQueueKept /\ \A s \in Streams : StreamKept(s)
  BY DEF IInv
<1>1. CASE Route \/ Caster \/ StopQueues \/ Quiet
  BY <1>0, <1>1, OtherStepsStream
<1>2. ASSUME NEW s \in Streams, Open(s) \/ Messenger(s) \/ Sender(s)
      PROVE  StreamKept(t)'
  <2>1. CASE s # t
    BY <1>0, <1>2, <2>1, OtherStreams
  <2>2. CASE s = t
    BY <1>0, <1>2, <2>2, MessengerStream, SenderStream
  <2> QED BY <2>1, <2>2
<1> QED BY <1>1, <1>2 DEF Next, Stop, Quiet

-----------------------------------------------------------------------------
(* What the streams send.                                                    *)

LEMMA MessagesAreNumbers ==
  ASSUME NEW a \in Seq(Ids)
  PROVE  a \in Seq(Int)
<1>1. \A k \in 1 .. Len(a) : a[k] \in Ids
  OBVIOUS
<1>2. \A k \in 1 .. Len(a) : a[k] \in Int
  BY <1>1 DEF Ids
<1> QED BY <1>2

\* What the send routine does to what is out.
LEMMA OutAppends ==
  ASSUME TypeOK, NEW s \in Streams, NEW m \in Ids,
         st'[s].sent = st[s].sent, st'[s].env = Append(st[s].env, m)
  PROVE  Out(s)' = Append(Out(s), m) /\ Elems(Out(s)') = Elems(Out(s)) \cup {m}
<1>1. st[s].env \in Seq(Ids) /\ st[s].sent \in Seq(Ids) /\ Out(s) \in Seq(Ids)
  BY StreamFields
<1>2. Out(s)' = Append(Out(s), m)
  <2> DEFINE a == st[s].sent
             b == st[s].env
  <2>1. Out(s) = a \o b /\ Out(s)' = a \o Append(b, m)
    BY DEF Out
  <2> HIDE DEF a, b
  <2>2. a \in Seq(Ids) /\ b \in Seq(Ids)
    BY <1>1 DEF a, b
  <2>3. a \o Append(b, m) = Append(a \o b, m)
    BY <2>2, AppendAtEnd
  <2> QED BY <2>1, <2>3
<1> QED BY <1>1, <1>2, ElemsAppend

LEMMA OutSent ==
  ASSUME TypeOK, NEW s \in Streams, SendEnvelope(s) \/ SendFails(s)
  PROVE  /\ st'[s].send # "exited" => Out(s)' = Out(s)
         /\ Elems(Out(s)') \subseteq Elems(Out(s)) /\ (Rising(Out(s)) => Rising(Out(s)'))
<1>1. /\ st[s].env \in Seq(Ids) /\ st[s].sent \in Seq(Ids) /\ Out(s) \in Seq(Ids)
      /\ Ids \subseteq Int
  BY StreamFields
<1>2. /\ st'[s].env = <<>>
      /\ \/ st'[s].sent = st[s].sent \o st[s].env
         \/ st'[s].send = "exited" /\ st'[s].sent = st[s].sent
  BY SendEffect
<1>3. ASSUME NEW a \in Seq(Ids) PROVE a \o <<>> = a
  BY <1>3, ConcatEmptySeq
<1>4. CASE st'[s].sent = st[s].sent \o st[s].env
  <2>1. Out(s)' = Out(s)
    BY <1>1, <1>2, <1>3, <1>4 DEF Out
  <2> QED BY <2>1
<1>5. CASE st'[s].send = "exited" /\ st'[s].sent = st[s].sent
  <2>1. Out(s)' = st[s].sent
    BY <1>1, <1>2, <1>3, <1>5 DEF Out
  <2> DEFINE a == st[s].sent
             b == st[s].env
  <2>2. Out(s) = a \o b /\ a \in Seq(Int) /\ b \in Seq(Int) /\ a \in Seq(Ids) /\ b \in Seq(Ids)
    <3>1. Out(s) = a \o b /\ a \in Seq(Ids) /\ b \in Seq(Ids)
      BY <1>1 DEF Out
    <3> HIDE DEF a, b
    <3> QED BY <3>1, MessagesAreNumbers
  <2>3. Elems(a) \subseteq Elems(Out(s)) /\ (Rising(Out(s)) => Rising(a))
    <3> HIDE DEF a, b
    <3>1. Elems(a) \subseteq Elems(a \o b)
      <4>1. /\ DOMAIN (a \o b) = 1 .. Len(a) + Len(b) /\ DOMAIN a = 1 .. Len(a)
            /\ Len(a) \in Nat /\ Len(b) \in Nat
            /\ \A k \in 1 .. Len(a) + Len(b) :
                 (a \o b)[k] = IF k <= Len(a) THEN a[k] ELSE b[k - Len(a)]
        BY <2>2, ConcatProperties
      <4>2. \A k \in DOMAIN a : k \in DOMAIN (a \o b) /\ (a \o b)[k] = a[k]
        BY <4>1
      <4> QED BY <4>2 DEF Elems
    <3>2. Rising(a \o b) => Rising(a)
      BY <2>2, RisingPrefix
    <3> QED BY <2>2, <3>1, <3>2
  <2> QED BY <1>5, <2>1, <2>3
<1> QED BY <1>2, <1>4, <1>5

LEMMA BroadcastUnchanged ==
  ASSUME UNCHANGED <<server, casts>>, NEW t \in Streams, BroadcastKept(t),
         st'[t].q = st[t].q, Out(t)' = Out(t),
         st'[t].recv \in {"remove", "gone"} <=> st[t].recv \in {"remove", "gone"},
         st'[t].recv \in {"none", "lock"} => st[t].recv \in {"none", "lock"},
         st'[t].recv \in Active => st[t].recv \in Active /\ st'[t].since = st[t].since,
         st'[t].send # "exited" => st[t].send # "exited"
  PROVE  BroadcastKept(t)'
BY DEF BroadcastKept

LEMMA CastBroadcasts ==
  ASSUME TypeOK, ReceiveQueueKept, ListKept, NEW t \in Streams, BroadcastKept(t), Cast
  PROVE  BroadcastKept(t)'
<1> DEFINE m == caster.msg
           q == st[t].q
           i == q.items
           n == casts - Len(i)
<1>0. /\ UNCHANGED server /\ server = "grpc" /\ m \in Ids /\ casts' = casts + 1 /\ m = casts + 1
      /\ q \in QueueType(Ids) /\ i \in Seq(Ids) /\ casts \in Nat
      /\ Len(i) \in Nat /\ DOMAIN i = 1 .. Len(i)
  <2>1. q \in QueueType(Ids)
    BY StreamFields
  <2>2. i \in Seq(Ids)
    BY <2>1 DEF QueueType
  <2> HIDE DEF q, i
  <2> QED BY <2>1, <2>2, CastReceives, CastEffect, ReceiveFacts
<1>1. /\ SameReceiving(t) /\ SameSending(t) /\ st'[t].send = st[t].send
      /\ st'[t].q = IF t \in Elems(streamQs) THEN QAdd(q, m) ELSE q
  BY CastEffect
<1>2. Out(t)' = Out(t)
  BY <1>1 DEF SameSending, Out
<1>3. t \in Elems(streamQs) <=> st[t].recv \in Listed
  BY <1>0 DEF ListKept
<1>4. q.processing = {} /\ (q.closed <=> st[t].recv \in {"remove", "gone"})
  BY <1>0 DEF BroadcastKept
<1>5. CASE st[t].recv \notin Active
  <2>1. st'[t].q = q
    <3>1. st[t].recv = "remove" => QAdd(q, m) = q
      BY <1>0, <1>4, AddEffect
    <3> QED BY <1>1, <1>3, <1>5, <3>1 DEF Listed
  <2> QED BY <1>0, <1>1, <1>5, <2>1 DEF BroadcastKept, SameReceiving
<1>6. CASE st[t].recv \in Active
  <2>1. /\ st[t].since <= n /\ q.dirty = Elems(i) /\ \A k \in DOMAIN i : i[k] = n + k
        /\ st[t].send # "exited" =>
             Rising(Out(t)) /\ Elems(Out(t)) = (st[t].since + 1 .. n) \ BadOf[server]
    BY <1>0, <1>6 DEF BroadcastKept
  <2>2. ~q.closed /\ st'[t].q = QAdd(q, m)
    BY <1>1, <1>3, <1>4, <1>6 DEF Active, Listed
  <2>3. m \notin q.dirty
    <3>1. \A k \in DOMAIN i : i[k] # m
      BY <1>0, <2>1
    <3> QED BY <2>1, <3>1 DEF Elems
  <2>4. /\ st'[t].q.items = Append(i, m) /\ st'[t].q.dirty = q.dirty \cup {m}
        /\ st'[t].q.processing = {} /\ ~st'[t].q.closed
    BY SMTT(30), <1>0, <1>4, <2>2, <2>3, AddEffect
  <2>5. /\ Elems(Append(i, m)) = Elems(i) \cup {m} /\ Len(Append(i, m)) = Len(i) + 1
        /\ DOMAIN Append(i, m) = 1 .. Len(i) + 1 /\ Append(i, m)[Len(i) + 1] = m
        /\ \A k \in 1 .. Len(i) : Append(i, m)[k] = i[k]
    BY <1>0, ElemsAppend
  <2> HIDE DEF m, i, q
  <2>6. casts' - Len(st'[t].q.items) = n
    BY <1>0, <2>4, <2>5
  <2>7. \A k \in DOMAIN st'[t].q.items : st'[t].q.items[k] = n + k
    <3> SUFFICES ASSUME NEW k \in 1 .. Len(i) + 1 PROVE Append(i, m)[k] = n + k
      BY <2>4, <2>5
    <3>1. CASE k = Len(i) + 1
      BY <1>0, <2>5, <3>1
    <3>2. CASE k # Len(i) + 1
      BY <1>0, <2>1, <2>5, <3>2
    <3> QED BY <3>1, <3>2
  <2>8. st'[t].q.dirty = Elems(st'[t].q.items)
    BY <2>1, <2>4, <2>5
  <2> HIDE DEF n
  <2>9. st'[t].recv = st[t].recv /\ st'[t].since = st[t].since
    BY <1>1 DEF SameReceiving
  <2> QED BY <1>0, <1>1, <1>2, <1>6, <2>1, <2>4, <2>6, <2>7, <2>8, <2>9
          DEF BroadcastKept, Active
<1> QED BY <1>5, <1>6

LEMMA RegisterBroadcasts ==
  ASSUME TypeOK, NEW s \in Streams, StreamKept(s), BroadcastKept(s), Register(s)
  PROVE  BroadcastKept(s)'
<1>1. /\ UNCHANGED <<server, casts>> /\ SameSending(s) /\ st[s].recv = "lock"
      /\ st'[s].q = st[s].q /\ st'[s].since = casts /\ st'[s].recv \in {"recv", "leave"}
  BY RegisterEffect
<1>2. Out(s)' = <<>> /\ server = "grpc"
  BY <1>1 DEF StreamKept, Out, SameSending
<1>3. st'[s].q = NewQueue
  BY <1>1, <1>2 DEF BroadcastKept
<1>4. /\ NewQueue.processing = {} /\ NewQueue.items = <<>> /\ NewQueue.dirty = {}
      /\ ~NewQueue.closed
  BY DEF NewQueue
<1>5. casts \in Nat
  <2>1. casts \in 0 .. MaxMsgs /\ MaxMsgs \in Nat
    BY StreamsAssumption DEF TypeOK
  <2> QED BY <2>1
<1>6. casts + 1 .. casts = {} /\ casts - Len(<<>>) = casts /\ casts <= casts
  BY <1>5
<1>7. Elems(<<>>) = {} /\ Rising(<<>>)
  BY DEF Elems, Rising
<1> QED BY <1>1, <1>2, <1>3, <1>4, <1>5, <1>6, <1>7 DEF BroadcastKept, Active

\* The message that Get returns goes from the head of the queue to the end of what
\* is out, unless it has no external form.
LEMMA GetOneBroadcasts ==
  ASSUME TypeOK, NEW s \in Streams, StreamKept(s), BroadcastKept(s), GetOne(s),
         server = "grpc"
  PROVE  BroadcastKept(s)'
<1> DEFINE q == st[s].q
           i == q.items
           m == Head(i)
           done == QDone(QTake(q), m)
           n == casts - Len(i)
<1>0. /\ q \in QueueType(Ids) /\ i \in Seq(Ids) /\ i \in Seq(Int) /\ casts \in Nat
      /\ Len(i) \in Nat /\ DOMAIN i = 1 .. Len(i) /\ st[s].env \in Seq(Ids)
      /\ st[s].sent \in Seq(Ids) /\ Out(s) \in Seq(Ids) /\ Out(s) \in Seq(Int)
      /\ st[s].since \in Nat
  <2>1. /\ q \in QueueType(Ids) /\ Out(s) \in Seq(Ids) /\ st[s].env \in Seq(Ids)
        /\ st[s].sent \in Seq(Ids) /\ st[s].since \in Nat
    BY StreamFields
  <2>2. i \in Seq(Ids)
    BY <2>1 DEF QueueType
  <2>3. casts \in 0 .. MaxMsgs /\ MaxMsgs \in Nat
    BY StreamsAssumption DEF TypeOK
  <2> HIDE DEF q, i
  <2> QED BY <2>1, <2>2, <2>3, MessagesAreNumbers
<1>1. /\ SameReceiving(s) /\ UNCHANGED <<server, casts>> /\ st[s].send = "get"
      /\ st'[s].sent = st[s].sent
      /\ \/ /\ i # <<>> /\ st'[s].send \in {"send", "get"} /\ st'[s].q = done
            /\ st'[s].env = IF m \in BadOf[server] THEN st[s].env ELSE Append(st[s].env, m)
         \/ st'[s].q = q /\ st'[s].send = "exited"
  <2>1. st[s].left > 0 /\ QueueOf(s) = q
    BY DEF GetOne, StreamKept, QueueOf
  <2> QED BY <2>1, GetOneEffect
<1>2. st[s].recv \notin {"none", "lock"}
  BY <1>1 DEF StreamKept
<1>3. q.processing = {} /\ (q.closed <=> st[s].recv \in {"remove", "gone"})
  BY DEF BroadcastKept
<1>4. CASE st'[s].q = q /\ st'[s].send = "exited"
  BY <1>1, <1>2, <1>4 DEF BroadcastKept, SameReceiving
<1>5. CASE i # <<>> /\ st'[s].send \in {"send", "get"} /\ st'[s].q = done
  <2> HIDE DEF q, i, m
  <2>1. /\ done.items = Tail(i) /\ done.closed = q.closed /\ done.dirty = q.dirty \ {m}
        /\ done.processing = {}
    BY <1>0, <1>3, <1>5, TakeAndDone DEF i, m
  <2> HIDE DEF done
  <2>2. CASE st[s].recv \notin Active
    BY <1>1, <1>2, <1>3, <1>5, <2>1, <2>2 DEF BroadcastKept, SameReceiving, q
  <2>3. CASE st[s].recv \in Active
    <3>1. /\ st[s].since <= n /\ q.dirty = Elems(i) /\ \A k \in DOMAIN i : i[k] = n + k
          /\ Rising(Out(s)) /\ Elems(Out(s)) = (st[s].since + 1 .. n) \ BadOf[server]
      BY <1>1, <2>3 DEF BroadcastKept, q, i
    <3>2. /\ Len(Tail(i)) = Len(i) - 1 /\ Len(i) >= 1 /\ m = i[1] /\ m \in Ids
          /\ Rising(i) /\ \A y \in Elems(Tail(i)) : m < y
          /\ \A k \in DOMAIN Tail(i) : k + 1 \in DOMAIN i /\ Tail(i)[k] = i[k + 1]
          /\ DOMAIN Tail(i) = 1 .. Len(i) - 1
      <4>1. \A j, k \in DOMAIN i : j < k => i[j] < i[k]
        BY <1>0, <3>1
      <4>2. Rising(i)
        BY <4>1 DEF Rising
      <4>3. m \in Ids /\ DOMAIN Tail(i) = 1 .. Len(i) - 1
        BY <1>0, <1>5 DEF m
      <4> QED BY <1>0, <1>5, <4>2, <4>3, RisingTail DEF m
    <3>3. m = n + 1 /\ casts' - Len(Tail(i)) = n + 1 /\ n \in Int
      <4>1. n \in Int /\ casts - (Len(i) - 1) = n + 1
        BY <1>0
      <4>2. 1 \in DOMAIN i
        BY <1>0, <3>2
      <4> HIDE DEF n
      <4>3. m = n + 1
        BY <3>1, <3>2, <4>2
      <4>4. casts' - Len(Tail(i)) = n + 1
        BY <1>1, <3>2, <4>1
      <4> QED BY <4>1, <4>3, <4>4
    <3>4. Elems(i) \ {m} = Elems(Tail(i))
      <4>1. Elems(Tail(i)) \subseteq Elems(i) /\ Elems(i) \subseteq Elems(Tail(i)) \cup {m}
        BY <1>0, <1>5, ElemsTail DEF m
      <4>2. m \notin Elems(Tail(i))
        BY <3>2, <3>3
      <4> QED BY <4>1, <4>2
    <3> HIDE DEF n
    <3>5. \A k \in DOMAIN Tail(i) : Tail(i)[k] = (n + 1) + k
      BY <1>0, <3>1, <3>2, <3>3
    <3>6. Rising(Out(s)') /\ Elems(Out(s)') = (st[s].since + 1 .. n + 1) \ BadOf[server]
      <4>1. st[s].since + 1 .. n + 1 = (st[s].since + 1 .. n) \cup {m}
        BY <1>0, <3>1, <3>3
      <4>2. \A y \in Elems(Out(s)) : y < m
        BY <1>0, <3>1, <3>3
      <4>3. CASE m \in BadOf[server]
        <5>1. Out(s)' = Out(s)
          BY <1>1, <1>5, <4>3 DEF Out
        <5> QED BY <3>1, <4>1, <4>3, <5>1
      <4>4. CASE m \notin BadOf[server]
        <5>1. Out(s)' = Append(Out(s), m) /\ Elems(Out(s)') = Elems(Out(s)) \cup {m}
          BY <1>1, <1>5, <3>2, <4>4, OutAppends
        <5>2. m \in Int
          BY <3>3
        <5>3. Rising(Append(Out(s), m))
          BY <1>0, <3>1, <4>2, <5>2, RisingAppend
        <5> QED BY <3>1, <4>1, <4>4, <5>1, <5>3
      <4> QED BY <4>3, <4>4
    <3>7. st[s].since <= n + 1
      BY <1>0, <3>1, <3>3
    <3>8. /\ st'[s].recv = st[s].recv /\ st'[s].since = st[s].since /\ server' = server
          /\ st'[s].q.items = Tail(i) /\ st'[s].q.dirty = Elems(Tail(i))
          /\ st'[s].q.processing = {} /\ ~st'[s].q.closed /\ ~(st[s].recv \in {"remove", "gone"})
      BY <1>1, <1>3, <1>5, <2>1, <2>3, <3>1, <3>4 DEF SameReceiving, Active
    <3> HIDE DEF i
    <3>9. casts' - Len(st'[s].q.items) = n + 1
      BY <3>3, <3>8
    <3> QED BY <1>2, <2>3, <3>5, <3>6, <3>7, <3>8, <3>9 DEF BroadcastKept
  <2> QED BY <2>2, <2>3
<1> QED BY <1>1, <1>4, <1>5

\* A stream whose receive loop has ended is no longer promised anything.
LEMMA RecvEndsBroadcasts ==
  ASSUME TypeOK, NEW s \in Streams, BroadcastKept(s), RecvEnds(s), server = "grpc"
  PROVE  BroadcastKept(s)'
<1>1. /\ UNCHANGED server /\ st'[s].recv = "remove" /\ st'[s].q = QShutDown(st[s].q)
  BY RecvEndsEffect DEF AllElse
<1>2. st[s].q \in QueueType(Ids) /\ st[s].q.processing = {}
  BY StreamFields DEF BroadcastKept
<1>3. QShutDown(st[s].q).closed /\ QShutDown(st[s].q).processing = {}
  BY <1>2 DEF QShutDown, QueueType
<1> QED BY <1>1, <1>3 DEF BroadcastKept, Active

LEMMA BroadcastStep ==
  ASSUME IInv, Next, NEW t \in Streams
  PROVE  BroadcastKept(t)'
<1>0. /\ TypeOK /\ ReceiveQueueKept /\ ListKept
      /\ \A s \in Streams : StreamKept(s) /\ BroadcastKept(s)
  BY DEF IInv
<1>1. UNCHANGED server
  <2>1. CASE Route \/ Caster \/ StopQueues \/ Quiet
    BY <1>0, <2>1, QuietEffect DEF Route, Caster, CastGet, Cast, StopQueues, AllElse
  <2>2. CASE \E s \in Streams : Open(s) \/ Messenger(s) \/ Sender(s)
    BY <1>0, <2>2, StreamsStep
  <2> QED BY <2>1, <2>2 DEF Next, Stop, Quiet
<1>2. CASE server # "grpc"
  BY <1>1, <1>2 DEF BroadcastKept
<1>3. CASE server = "grpc"
  <2>1. ASSUME SameReceiving(t), SameSending(t), UNCHANGED casts,
               st'[t].send = st[t].send, st'[t].q = st[t].q
        PROVE  BroadcastKept(t)'
    <3>1. Out(t)' = Out(t)
      BY <2>1 DEF Out, SameSending
    <3> QED BY <1>0, <1>1, <2>1, <3>1, BroadcastUnchanged DEF SameReceiving
  <2>2. CASE Route \/ CastGet \/ StopQueues
    <3>1. UNCHANGED <<st, casts>>
      BY <2>2 DEF Route, CastGet, StopQueues
    <3> QED BY <2>1, <3>1 DEF SameReceiving, SameSending
  <2>3. CASE Quiet
    BY <1>0, <2>1, <2>3, QuietEffect DEF SameStreams, AllElse
  <2>4. CASE Cast
    BY <1>0, <2>4, CastBroadcasts
  <2>5. ASSUME NEW s \in Streams, Open(s) \/ Messenger(s) \/ Sender(s)
        PROVE  BroadcastKept(t)'
    <3>0. UNCHANGED casts /\ StreamStep(s)
      BY <1>0, <2>5, StreamsStep
    <3>1. CASE s # t
      <4>1. st'[t] = st[t]
        BY <3>0, <3>1 DEF StreamStep, OthersSame
      <4> QED BY <2>1, <3>0, <4>1 DEF SameReceiving, SameSending
    <3>2. CASE s = t /\ (Open(t) \/ Receive(t) \/ Take(t) \/ Deregister(t))
      <4>1. SameSending(t) /\ st'[t].q = st[t].q /\ st'[t].since = st[t].since
            /\ st'[t].send = st[t].send
            /\ (st'[t].recv \in {"remove", "gone"} <=> st[t].recv \in {"remove", "gone"})
            /\ (st'[t].recv \in {"none", "lock"} => st[t].recv \in {"none", "lock"})
            /\ (st'[t].recv \in Active => st[t].recv \in Active)
        <5>1. CASE Open(t)
          BY <1>0, <1>3, <5>1, OpenEffect DEF Active
        <5>2. CASE Receive(t) \/ Take(t)
          <6>1. st[t].recv = "take" => st[t].inbox # <<>>
            BY <1>0 DEF StreamKept
          <6> QED BY <1>0, <5>2, <6>1, TakeEffect DEF Active
        <5>3. CASE Deregister(t)
          BY <1>0, <5>3, DeregisterEffect DEF Active
        <5> QED BY <3>2, <5>1, <5>2, <5>3
      <4>2. Out(t)' = Out(t)
        BY <4>1 DEF Out, SameSending
      <4> QED BY <1>0, <1>1, <3>0, <4>1, <4>2, BroadcastUnchanged
    <3>3. CASE s = t /\ Register(t)
      BY <1>0, <3>3, RegisterBroadcasts
    <3>4. CASE s = t /\ RecvEnds(t)
      BY <1>0, <1>3, <3>4, RecvEndsBroadcasts
    <3>5. CASE s = t /\ GetOne(t)
      BY <1>0, <1>3, <3>5, GetOneBroadcasts
    <3>6. CASE s = t /\ Tick(t)
      <4>1. /\ SameReceiving(t) /\ st[t].send # "exited" /\ st'[t].q = st[t].q
            /\ st'[t].env = st[t].env /\ st'[t].sent = st[t].sent
        BY <1>0, <3>6, TickEffect
      <4>2. Out(t)' = Out(t)
        BY <4>1 DEF Out
      <4> QED BY <1>0, <1>1, <3>0, <4>1, <4>2, BroadcastUnchanged DEF SameReceiving
    <3>7. CASE s = t /\ (SendEnvelope(t) \/ SendFails(t))
      <4>1. /\ SameReceiving(t) /\ st[t].send # "exited" /\ st'[t].q = st[t].q
            /\ st'[t].send # "exited" => Out(t)' = Out(t)
        BY <1>0, <3>7, SendEffect, OutSent
      <4>2. BroadcastKept(t)
        BY <1>0
      <4> QED BY <1>1, <3>0, <4>1, <4>2 DEF BroadcastKept, SameReceiving
    <3> QED
      BY <2>5, <3>1, <3>2, <3>3, <3>4, <3>5, <3>6, <3>7 DEF Messenger, Sender
  <2> QED BY <2>2, <2>3, <2>4, <2>5 DEF Next, Stop, Caster, Quiet
<1> QED BY <1>2, <1>3

-----------------------------------------------------------------------------
(* What the streams of a plugin send.                                        *)

\* Nothing more is out, and what is new in the queue comes last.
LEMMA SharingShrinks ==
  ASSUME SharingKept, UNCHANGED server, server = "mpi",
         added \in Nat, added' \in {added, added + 1},
         \A s \in Streams : /\ Elems(Out(s)') \subseteq Elems(Out(s))
                            /\ Rising(Out(s)) => Rising(Out(s)'),
         \A k \in DOMAIN rcvQ'.items :
           \/ \E j \in DOMAIN rcvQ.items : rcvQ'.items[k] = rcvQ.items[j]
           \/ rcvQ'.items[k] = added + 1
  PROVE  SharingKept'
<1>1. /\ \A s, t \in Streams :
           Rising(Out(s)) /\ (s # t => Elems(Out(s)) \cap Elems(Out(t)) = {})
      /\ \A s \in Streams : Elems(Out(s)) \subseteq 1 .. added
      /\ \A s \in Streams, k \in DOMAIN rcvQ.items : \A x \in Elems(Out(s)) : x < rcvQ.items[k]
  BY DEF SharingKept, SentOnceInOrder
<1>2. \A s, t \in Streams :
        Rising(Out(s)') /\ (s # t => Elems(Out(s)') \cap Elems(Out(t)') = {})
  <2> SUFFICES ASSUME NEW s \in Streams, NEW t \in Streams
               PROVE  Rising(Out(s)') /\ (s # t => Elems(Out(s)') \cap Elems(Out(t)') = {})
    OBVIOUS
  <2>1. Rising(Out(s)) /\ (s # t => Elems(Out(s)) \cap Elems(Out(t)) = {})
    BY <1>1
  <2>2. /\ Elems(Out(s)') \subseteq Elems(Out(s)) /\ (Rising(Out(s)) => Rising(Out(s)'))
        /\ Elems(Out(t)') \subseteq Elems(Out(t))
    OBVIOUS
  <2> QED BY <2>1, <2>2
<1>3. \A s \in Streams : Elems(Out(s)') \subseteq 1 .. added'
  <2>1. 1 .. added \subseteq 1 .. added'
    OBVIOUS
  <2> QED BY <1>1, <2>1
<1>4. ASSUME NEW s \in Streams, NEW k \in DOMAIN rcvQ'.items, NEW x \in Elems(Out(s)')
      PROVE  x < rcvQ'.items[k]
  <2>1. x \in Elems(Out(s))
    OBVIOUS
  <2>2. x \in 1 .. added /\ \A j \in DOMAIN rcvQ.items : x < rcvQ.items[j]
    BY <1>1, <2>1
  <2>3. CASE \E j \in DOMAIN rcvQ.items : rcvQ'.items[k] = rcvQ.items[j]
    BY <2>2, <2>3
  <2>4. CASE rcvQ'.items[k] = added + 1
    BY <2>2, <2>4
  <2> QED BY <2>3, <2>4
<1>5. SentOnceInOrder'
  BY <1>2 DEF SentOnceInOrder
<1> QED BY <1>3, <1>4, <1>5 DEF SharingKept

\* The head of the queue comes after all that is out, so it is new on every stream.
LEMMA GetOneShares ==
  ASSUME TypeOK, ReceiveQueueKept, SharingKept, server = "mpi",
         NEW s \in Streams, StreamKept(s), GetOne(s)
  PROVE  SharingKept'
<1> DEFINE i == rcvQ.items
           m == Head(i)
           done == QDone(QTake(rcvQ), m)
<1>0. /\ st[s].left > 0 /\ QueueOf(s) = rcvQ /\ added \in Nat /\ rcvQ \in QueueType(Ids)
      /\ DOMAIN i = 1 .. Len(i) /\ Len(i) \in Nat
      /\ Out(s) \in Seq(Ids) /\ Out(s) \in Seq(Int)
  <2>1. st[s].left > 0 /\ QueueOf(s) = rcvQ
    BY DEF GetOne, StreamKept, QueueOf
  <2>2. Out(s) \in Seq(Ids)
    BY StreamFields
  <2> QED BY <2>1, <2>2, ReceiveFacts, MessagesAreNumbers
<1>1. /\ StreamStep(s) /\ UNCHANGED <<server, added>> /\ st'[s].sent = st[s].sent
      /\ \/ /\ i # <<>> /\ rcvQ' = done
            /\ st'[s].env = IF m \in BadOf[server] THEN st[s].env ELSE Append(st[s].env, m)
         \/ UNCHANGED rcvQ /\ st'[s].env = st[s].env
  BY <1>0, GetOneEffect
<1>2. \A t \in Streams \ {s} : Out(t)' = Out(t)
  BY <1>1 DEF StreamStep, OthersSame, Out
<1>3. CASE UNCHANGED rcvQ /\ st'[s].env = st[s].env
  <2>1. Out(s)' = Out(s)
    BY <1>1, <1>3 DEF Out
  <2>2. \A t \in Streams : Out(t)' = Out(t)
    BY <1>2, <2>1
  <2> QED BY <1>0, <1>1, <1>3, <2>2, SharingShrinks
<1>4. CASE /\ i # <<>> /\ rcvQ' = done
           /\ st'[s].env = IF m \in BadOf[server] THEN st[s].env ELSE Append(st[s].env, m)
  <2>1. /\ m \in Ids /\ m = i[1] /\ m <= added /\ \A y \in Elems(Tail(i)) : m < y
        /\ Len(Tail(i)) = Len(i) - 1 /\ Len(i) >= 1
        /\ \A k \in DOMAIN Tail(i) : k + 1 \in DOMAIN i /\ Tail(i)[k] = i[k + 1]
    BY <1>4, HeadTaken
  <2>2. rcvQ'.items = Tail(i)
    BY <1>0, <1>4, TakeAndDone
  <2> HIDE DEF i, m, done
  <2>3. \A k \in DOMAIN rcvQ'.items : \E j \in DOMAIN i : rcvQ'.items[k] = i[j]
    BY <2>1, <2>2
  <2>4. CASE m \in BadOf[server]
    <3>1. Out(s)' = Out(s)
      BY <1>1, <1>4, <2>4 DEF Out
    <3>2. \A t \in Streams : Out(t)' = Out(t)
      BY <1>2, <3>1
    <3> QED BY <1>0, <1>1, <2>3, <3>2, SharingShrinks DEF i
  <2>5. CASE m \notin BadOf[server]
    <3>1. Out(s)' = Append(Out(s), m) /\ Elems(Out(s)') = Elems(Out(s)) \cup {m}
      BY <1>1, <1>4, <2>1, <2>5, OutAppends
    <3>2. /\ \A t, u \in Streams :
               Rising(Out(t)) /\ (t # u => Elems(Out(t)) \cap Elems(Out(u)) = {})
          /\ \A t \in Streams : Elems(Out(t)) \subseteq 1 .. added
          /\ \A t \in Streams, k \in DOMAIN i : \A x \in Elems(Out(t)) : x < i[k]
      BY DEF SharingKept, SentOnceInOrder, i
    <3>3. m \in Int /\ m \in 1 .. added /\ 1 \in DOMAIN i
      BY <1>0, <2>1 DEF Ids
    <3>4. \A t \in Streams : \A x \in Elems(Out(t)) : x < m
      BY <2>1, <3>2, <3>3
    <3>5. \A t \in Streams : m \notin Elems(Out(t))
      BY <3>3, <3>4
    <3>6. Rising(Out(s)')
      <4>1. Rising(Append(Out(s), m))
        BY <1>0, <3>2, <3>3, <3>4, RisingAppend
      <4> QED BY <3>1, <4>1
    <3>7. \A t \in Streams : Elems(Out(t)') = IF t = s THEN Elems(Out(s)) \cup {m} ELSE Elems(Out(t))
      BY <1>2, <3>1
    <3>8. \A t, u \in Streams :
            Rising(Out(t)') /\ (t # u => Elems(Out(t)') \cap Elems(Out(u)') = {})
      <4>1. \A t \in Streams : Rising(Out(t)')
        BY <1>2, <3>2, <3>6
      <4>2. \A t, u \in Streams : t # u => Elems(Out(t)') \cap Elems(Out(u)') = {}
        <5> SUFFICES ASSUME NEW t \in Streams, NEW u \in Streams, t # u
                     PROVE  Elems(Out(t)') \cap Elems(Out(u)') = {}
          OBVIOUS
        <5>1. Elems(Out(t)) \cap Elems(Out(u)) = {} /\ m \notin Elems(Out(t)) /\ m \notin Elems(Out(u))
          BY <3>2, <3>5
        <5>2. CASE t = s
          BY <3>7, <5>1, <5>2
        <5>3. CASE u = s
          BY <3>7, <5>1, <5>3
        <5>4. CASE t # s /\ u # s
          BY <3>7, <5>1, <5>4
        <5> QED BY <5>2, <5>3, <5>4
      <4> QED BY <4>1, <4>2
    <3>9. \A t \in Streams : Elems(Out(t)') \subseteq 1 .. added'
      BY <1>1, <3>2, <3>3, <3>7
    <3>10. ASSUME NEW t \in Streams, NEW k \in DOMAIN rcvQ'.items, NEW x \in Elems(Out(t)')
           PROVE  x < rcvQ'.items[k]
      <4>1. x \in Elems(Out(t)) \/ x = m
        BY <3>7, <3>10
      <4>2. rcvQ'.items[k] \in Elems(Tail(i)) /\ \E j \in DOMAIN i : rcvQ'.items[k] = i[j]
        BY <2>2, <2>3, <3>10 DEF Elems
      <4>3. CASE x \in Elems(Out(t))
        BY <3>2, <4>2, <4>3
      <4>4. CASE x = m
        BY <2>1, <4>2, <4>4
      <4> QED BY <4>1, <4>3, <4>4
    <3>11. SentOnceInOrder'
      BY <3>8 DEF SentOnceInOrder
    <3> QED BY <3>9, <3>10, <3>11 DEF SharingKept
  <2> QED BY <2>4, <2>5
<1> QED BY <1>1, <1>3, <1>4

LEMMA SharingStep ==
  ASSUME IInv, Next
  PROVE  SharingKept'
<1>0. TypeOK /\ ReceiveQueueKept /\ SharingKept /\ \A s \in Streams : StreamKept(s)
  BY DEF IInv
<1>1. UNCHANGED server
  <2>1. CASE Route \/ Caster \/ StopQueues \/ Quiet
    BY <1>0, <2>1, QuietEffect DEF Route, Caster, CastGet, Cast, StopQueues, AllElse
  <2>2. CASE \E s \in Streams : Open(s) \/ Messenger(s) \/ Sender(s)
    BY <1>0, <2>2, StreamsStep
  <2> QED BY <2>1, <2>2 DEF Next, Stop, Quiet
<1>2. CASE server # "mpi"
  BY <1>1, <1>2 DEF SharingKept
<1>3. CASE server = "mpi"
  <2>0. added \in Nat
    BY <1>0, ReceiveFacts
  <2>1. ASSUME UNCHANGED <<added, rcvQ>>, \A s \in Streams : SameSending(s)
        PROVE  SharingKept'
    <3>1. \A s \in Streams : Out(s)' = Out(s)
      BY <2>1 DEF Out, SameSending
    <3> QED BY <1>0, <1>1, <1>3, <2>0, <2>1, <3>1, SharingShrinks
  <2>2. CASE Route
    <3>1. UNCHANGED st /\ added' = added + 1
      BY <2>2 DEF Route
    <3>2. \A s \in Streams : Out(s)' = Out(s)
      BY <3>1 DEF Out
    <3>3. \A k \in DOMAIN rcvQ'.items :
            \/ \E j \in DOMAIN rcvQ.items : rcvQ'.items[k] = rcvQ.items[j]
            \/ rcvQ'.items[k] = added + 1
      BY <1>0, <2>2, RouteReceives
    <3> QED BY <1>0, <1>1, <1>3, <2>0, <3>1, <3>2, <3>3, SharingShrinks
  <2>3. CASE Caster
    BY <1>0, <1>3, <2>3, CastGetReceives, CastReceives DEF Caster
  <2>4. CASE StopQueues
    <3>1. UNCHANGED <<st, added>> /\ rcvQ'.items = rcvQ.items
      BY <1>0, <2>4, StopQueuesReceives DEF StopQueues
    <3>2. \A s \in Streams : Out(s)' = Out(s)
      BY <3>1 DEF Out
    <3> QED BY <1>0, <1>1, <1>3, <2>0, <3>1, <3>2, SharingShrinks
  <2>5. CASE Quiet
    BY <1>0, <2>1, <2>5, QuietEffect DEF SameStreams, AllElse
  <2>6. ASSUME NEW s \in Streams, Open(s) \/ Messenger(s) \/ Sender(s)
        PROVE  SharingKept'
    <3>0. \A t \in Streams \ {s} : st'[t] = st[t]
      BY <1>0, <2>6, StreamsStep DEF StreamStep, OthersSame
    <3>1. ASSUME UNCHANGED <<added, rcvQ>>, SameSending(s)
          PROVE  SharingKept'
      <4>1. \A t \in Streams : SameSending(t)
        BY <3>0, <3>1 DEF SameSending
      <4> QED BY <2>1, <3>1, <4>1
    <3>2. CASE Open(s)
      BY <1>0, <3>1, <3>2, OpenEffect DEF AllElse
    <3>3. CASE Register(s)
      BY <1>0, <3>1, <3>3, RegisterEffect
    <3>4. CASE Receive(s) \/ Take(s)
      BY <1>0, <3>1, <3>4, TakeEffect DEF AllElse, StreamKept
    <3>5. CASE RecvEnds(s)
      BY <1>0, <3>1, <3>5, RecvEndsEffect DEF AllElse
    <3>6. CASE Deregister(s)
      BY <1>0, <3>1, <3>6, DeregisterEffect
    <3>7. ASSUME UNCHANGED <<added, rcvQ>>, Elems(Out(s)') \subseteq Elems(Out(s)),
                 Rising(Out(s)) => Rising(Out(s)')
          PROVE  SharingKept'
      <4>1. \A t \in Streams \ {s} : Out(t)' = Out(t)
        BY <3>0 DEF Out
      <4>2. \A t \in Streams : /\ Elems(Out(t)') \subseteq Elems(Out(t))
                               /\ Rising(Out(t)) => Rising(Out(t)')
        BY <3>7, <4>1
      <4> QED BY <1>0, <1>1, <1>3, <2>0, <3>7, <4>2, SharingShrinks
    <3>8. CASE Tick(s)
      <4>1. AllElse /\ st'[s].env = st[s].env /\ st'[s].sent = st[s].sent
        BY <1>0, <3>8, TickEffect
      <4>2. Out(s)' = Out(s)
        BY <4>1 DEF Out
      <4> QED BY <3>7, <4>1, <4>2 DEF AllElse
    <3>9. CASE SendEnvelope(s) \/ SendFails(s)
      BY <1>0, <3>7, <3>9, SendEffect, OutSent DEF AllElse
    <3>10. CASE GetOne(s)
      BY <1>0, <1>3, <3>10, GetOneShares
    <3> QED
      BY <2>6, <3>2, <3>3, <3>4, <3>5, <3>6, <3>8, <3>9, <3>10 DEF Messenger, Sender
  <2> QED BY <2>2, <2>3, <2>4, <2>5, <2>6 DEF Next, Stop, Quiet
<1> QED BY <1>2, <1>3

-----------------------------------------------------------------------------
(* The theorems.                                                             *)

LEMMA InitIInv == Init => IInv
<1> SUFFICES ASSUME Init PROVE IInv
  OBVIOUS
<1>0. MaxMsgs \in Nat /\ server \in Servers /\ Servers \subseteq {"grpc", "mpi"}
  BY StreamsAssumption DEF Init
<1>1. /\ NewQueue \in QueueType(Ids) /\ NewQueue \in QueueType(Inbound)
      /\ NewQueue.processing = {} /\ NewQueue.items = <<>> /\ NewQueue.dirty = {}
      /\ ~NewQueue.closed
  BY NewQueueType DEF NewQueue
<1>2. /\ NoStream.recv = "none" /\ NoStream.send = "none" /\ NoStream.q = NewQueue
      /\ NoStream.sent = <<>> /\ NoStream.env = <<>> /\ NoStream.afterwards = 0
  BY DEF NoStream
<1>3. NoStream \in StreamType
  <2> DEFINE q == NewQueue
  <2>1. q \in QueueType(Ids)
    BY <1>1
  <2> HIDE DEF q
  <2>2. [id |-> -1, recv |-> "none", inbox |-> <<>>, send |-> "none", q |-> q,
         left |-> 0, env |-> <<>>, sent |-> <<>>, since |-> 0, broken |-> FALSE,
         afterwards |-> 0] \in StreamType
    BY <2>1 DEF StreamType, Pcs
  <2> QED BY <2>2 DEF NoStream, q
<1>4. /\ added = 0 /\ rcvQ = NewQueue /\ sndQ = NewQueue /\ casts = 0 /\ streamQs = <<>>
      /\ sQCount = 0 /\ \A s \in Streams : st[s] = NoStream
      /\ st \in [Streams -> {NoStream}] /\ stop = "no" /\ serve = "off"
      /\ caster.pc = IF server = "grpc" THEN "get" ELSE "none"
      /\ caster \in [pc : {"none", "get", "cast", "exited"}, msg : Ids \cup {None}]
  BY DEF Init
<1> HIDE DEF NoStream, NewQueue
<1>5. TypeOK
  <2>1. st \in [Streams -> StreamType]
    BY <1>3, <1>4
  <2>2. added \in 0 .. MaxMsgs /\ casts \in 0 .. MaxMsgs
    BY <1>0, <1>4
  <2> QED BY <1>0, <1>1, <1>4, <2>1, <2>2 DEF TypeOK, StopStages, ServeStages
<1>6. /\ Elems(<<>>) = {} /\ Rising(<<>>) /\ DOMAIN <<>> = {} /\ Len(<<>>) = 0
      /\ <<>> \o <<>> = <<>>
  BY DEF Elems, Rising
<1>7. ReceiveQueueKept
  BY <1>0, <1>1, <1>4, <1>6 DEF ReceiveQueueKept, Copied
<1>8. ListKept
  BY <1>2, <1>4, <1>6 DEF ListKept, Listed, Active
<1>9. \A s \in Streams : Out(s) = <<>>
  BY <1>2, <1>4, <1>6 DEF Out
<1>10. SharingKept
  BY <1>1, <1>4, <1>6, <1>9 DEF SharingKept, SentOnceInOrder
<1>11. \A s \in Streams : StreamKept(s) /\ BroadcastKept(s)
  BY <1>1, <1>2, <1>4, <1>9 DEF StreamKept, BroadcastKept, Active
<1> QED BY <1>5, <1>7, <1>8, <1>10, <1>11 DEF IInv

LEMMA StutterIInv == IInv /\ UNCHANGED vars => IInv'
<1> SUFFICES ASSUME IInv, UNCHANGED vars PROVE IInv'
  OBVIOUS
<1>1. TypeOK'
  BY DEF IInv, vars, TypeOK
<1>2. ReceiveQueueKept'
  BY ReceiveQueueUnchanged DEF IInv, vars
<1>3. ListKept'
  BY DEF IInv, vars, ListKept, Elems
<1>4. \A s \in Streams : Out(s)' = Out(s)
  BY DEF vars, Out
<1>5. SharingKept'
  BY <1>4 DEF IInv, vars, SharingKept, SentOnceInOrder
<1>6. ASSUME NEW s \in Streams PROVE StreamKept(s)' /\ BroadcastKept(s)'
  <2>1. StreamKept(s) /\ BroadcastKept(s)
    BY DEF IInv
  <2>2. StreamKept(s)'
    BY <1>4, <2>1 DEF vars, StreamKept, Alone, QueueOf
  <2>3. BroadcastKept(s)'
    BY <1>4, <2>1 DEF vars, BroadcastKept
  <2> QED BY <2>2, <2>3
<1> QED BY <1>1, <1>2, <1>3, <1>5, <1>6 DEF IInv

\* The invariant holds in every reachable state of either controller, while streams
\* open, break and end around each other and Stop comes at any time
\* (grpcmessageserver.go:85-308, mpi.go:183-374).
THEOREM Inductive == Spec => []IInv
<1>1. ASSUME IInv, Next PROVE IInv'
  <2>1. TypeOK'
    BY <1>1, TypeStep
  <2> QED
    BY <1>1, <2>1, ReceiveStep, ListStep, SharingStep, StreamKeptStep, BroadcastStep DEF IInv
<1> QED BY <1>1, InitIInv, StutterIInv, PTL DEF Spec

\* A stream that takes part in the broadcast has out, and then queued, what was
\* copied since its registration, less what cannot be converted.
LEMMA BroadcastComplete ==
  ASSUME IInv, NEW s \in Streams, server = "grpc",
         st[s].recv \in Active, st[s].send # "exited"
  PROVE  /\ Rising(Out(s) \o st[s].q.items)
         /\ Elems(Out(s)) \cup (Elems(st[s].q.items) \ BadOf[server])
              = (st[s].since + 1 .. casts) \ BadOf[server]
<1> DEFINE i == st[s].q.items
           n == casts - Len(i)
           o == Out(s)
           since == st[s].since
<1>0. TypeOK /\ BroadcastKept(s)
  BY DEF IInv
<1>1. /\ i \in Seq(Int) /\ o \in Seq(Int) /\ since \in Nat /\ casts \in Nat /\ Len(i) \in Nat
      /\ DOMAIN i = 1 .. Len(i)
  <2>1. st[s].q \in QueueType(Ids) /\ o \in Seq(Ids) /\ since \in Nat
    BY <1>0, StreamFields
  <2>2. i \in Seq(Ids)
    BY <2>1 DEF QueueType
  <2>3. casts \in 0 .. MaxMsgs /\ MaxMsgs \in Nat
    BY <1>0, StreamsAssumption DEF TypeOK
  <2> HIDE DEF i, o, since
  <2> QED BY <2>1, <2>2, <2>3, MessagesAreNumbers
<1>2. /\ since <= n /\ \A k \in DOMAIN i : i[k] = n + k
      /\ Rising(o) /\ Elems(o) = (since + 1 .. n) \ BadOf[server]
  BY <1>0 DEF BroadcastKept
<1>3. n \in Int /\ n + Len(i) = casts /\ n >= since /\ n <= casts
  BY <1>1, <1>2
<1> HIDE DEF i, n, o, since
<1>4. Rising(i)
  <2>1. \A j, k \in DOMAIN i : j < k => i[j] < i[k]
    BY <1>1, <1>2, <1>3
  <2> QED BY <2>1 DEF Rising
<1>5. Elems(i) = n + 1 .. casts
  <2>1. \A k \in DOMAIN i : i[k] \in n + 1 .. casts
    BY <1>1, <1>2, <1>3
  <2>2. ASSUME NEW x \in n + 1 .. casts PROVE x \in Elems(i)
    <3>1. x - n \in DOMAIN i /\ n + (x - n) = x
      BY <1>1, <1>3
    <3>2. i[x - n] = x
      BY <1>2, <3>1
    <3> QED BY <3>1, <3>2 DEF Elems
  <2> QED BY <2>1, <2>2 DEF Elems
<1>6. Rising(o \o i)
  <2>1. \A x \in Elems(o), y \in Elems(i) : x < y
    BY <1>1, <1>2, <1>3, <1>5
  <2> QED BY <1>1, <1>2, <1>4, <2>1, RisingConcat
<1>7. (since + 1 .. n) \cup (n + 1 .. casts) = since + 1 .. casts
  BY <1>1, <1>3
<1>8. Elems(o) \cup (Elems(i) \ BadOf[server]) = (since + 1 .. casts) \ BadOf[server]
  BY <1>2, <1>5, <1>7
<1> QED BY <1>6, <1>8 DEF i, o, since

\* Every stream of the message server is sent each message copied since it was
\* registered, in order and once, whatever the other streams do: they open, lag
\* behind, break and are taken out of the list (grpcmessageserver.go:133-155, 207-308).
THEOREM EveryStreamIsServed == Spec => []StreamsInv
<1>1. IInv => StreamsInv
  BY BroadcastComplete DEF IInv, StreamsInv, EachStreamGetsAll, Active
<1> QED BY <1>1, Inductive, PTL

\* The streams of a plugin send no message twice and none out of order; a send routine
\* sleeps inside Get only because another one takes from the same queue; and a stream
\* that is gone loses one envelope at most (mpi.go:323-374).
THEOREM StreamsOfPlugin == Spec => []PluginInv
<1>1. IInv => PluginInv
  <2> SUFFICES ASSUME IInv PROVE PluginInv
    OBVIOUS
  <2>0. /\ TypeOK /\ ReceiveQueueKept /\ SharingKept /\ \A s \in Streams : StreamKept(s)
        /\ \A s \in Streams : st[s].left \in Nat /\ st[s].afterwards \in Nat
    BY StreamFields DEF IInv
  <2>1. OneEnvelopeLost
    BY <2>0 DEF OneEnvelopeLost, StreamKept
  <2>2. SentOnceInOrder
    BY <2>0 DEF SharingKept, SentOnceInOrder
  <2>3. WaitsOnlyWhenShared
    <3> SUFFICES ASSUME NEW s \in Streams, st[s].send = "get", QueueOf(s).items = <<>>
                 PROVE  server = "mpi" /\ \E t \in Streams \ {s} : st[t].send # "none"
      BY DEF WaitsOnlyWhenShared
    <3>1. st[s].left > 0 /\ Len(QueueOf(s).items) = 0
      BY <2>0 DEF StreamKept
    <3>2. ~Alone(s)
      BY <2>0, <3>1 DEF StreamKept
    <3> QED BY <2>0, <3>2, ReceiveFacts DEF Alone
  <2> QED BY <2>1, <2>2, <2>3 DEF PluginInv
<1> QED BY <1>1, Inductive, PTL

-----------------------------------------------------------------------------
(* The inductive invariant of the process watcher.                           *)

mpi == job["mpi"]
loop == job["loop"]

ProcessType == [state : States, child : BOOLEAN, owner : Procs, again : BOOLEAN]
WatcherType == [proc : Procs, pid : Pids, notChild : BOOLEAN, watching : BOOLEAN,
                status : {0, 1}, stop : {0, 1},
                select : {"select", "send", "delete", "done"},
                helper : {"none", "waiting", "done"}]

JobPlaces == {"idle", "start", "restore", "got", "notify", "send", "kill", "await", "delete"}
JobType == [pc : JobPlaces, p : Procs \cup {NoProc}, w : Nat]

\* What the types say of the two goroutines.
JobsTyped ==
  \A a \in Actors : /\ job[a].pc \in JobPlaces /\ job[a].p \in used \cup {NoProc}
                    /\ job[a].w \in 0 .. Len(watchers)

\* StopProcess from the lock to the unlock.
Stopping == {"notify", "send", "kill", "await", "delete"}

\* The watcher has still to see the end of its process, or to report it.
Follows(x) == x.watching \/ x.status = 1 \/ x.select = "send"

\* A Proc object is used before anything refers to it.
UsedKept ==
  /\ \A i \in Pids : os[i].owner \in used
  /\ \A w \in Watchers : watchers[w].proc \in used
  /\ procs \in used \cup {NoProc}
  /\ \A p \in Procs : pidOf[p] # 0 => p \in used

\* Who is in a method of ProcMaster holds the lock.
LockKept ==
  /\ job \in [Actors -> JobType]
  /\ mpi.pc \in Stopping <=> lock = "mpi"
  /\ loop.pc = "start" <=> lock = "loop"
  /\ mpi.pc \in Stopping \cup {"idle", "start", "restore"}
  /\ loop.pc \in {"idle", "got", "start"}
  /\ mpi.pc # "idle" => mpi.p \in used
  /\ loop.pc # "idle" => loop.p \in used

\* The map has the one watcher whose goroutines have not deleted it.
EntryKept == \A w \in Watchers : watchers[w].select # "done" => entry = w

\* The end of a process passes from the watching goroutine to the channel and from
\* there to one reader; the watcher follows the present process of its Proc; it gives
\* up before that only for a StopProcess that waits for it.
KeptAs(w, x) ==
  /\ x.watching => x.status = 0
  /\ x.watching \/ x.status = 1 => x.select # "send"
  /\ x.helper = "done" => ~Follows(x)
  /\ Follows(x) => /\ pidOf[x.proc] \in Pids
                   /\ ~x.notChild => x.pid = pidOf[x.proc]
                   /\ ~x.watching => os[pidOf[x.proc]].state = "gone"
                   /\ x.stop = 1 \/ x.select \in {"delete", "done"} =>
                        mpi.pc \in {"kill", "await"} /\ mpi.w = w
WatcherKept(w) == KeptAs(w, watchers[w])

OneFollows ==
  \A v, w \in Watchers : Follows(watchers[v]) /\ Follows(watchers[w]) => v = w

\* StopProcess works on the Proc that is registered, and on its watcher.
StopKept ==
  /\ mpi.pc \in Stopping => mpi.p = procs
  /\ mpi.pc \in {"send", "kill", "await"} => entry \in {0, mpi.w}
  /\ mpi.pc \in {"send", "await"} => mpi.w # 0
  /\ mpi.pc \in {"notify", "send", "kill"} => pidOf[mpi.p] # 0
  /\ mpi.pc \in {"await", "delete"} =>
       pidOf[mpi.p] = 0 \/ os[pidOf[mpi.p]].state # "running"

\* Until its Start has the lock a Proc is nobody else's.
StartKept ==
  mpi.pc \in {"start", "restore"} =>
    /\ \A w \in Watchers : watchers[w].proc # mpi.p
    /\ \A i \in Pids : os[i].owner # mpi.p
    /\ procs # mpi.p
    /\ loop.pc # "idle" => loop.p # mpi.p
    /\ mpi.pc = "restore" => pidOf[mpi.p] # 0

\* The Proc that WatchProcs restarts is dead, and nobody watches it.
LoopKept ==
  loop.pc # "idle" =>
    /\ pidOf[loop.p] \in Pids /\ os[pidOf[loop.p]].state = "gone"
    /\ \A w \in Watchers : watchers[w].proc = loop.p => ~Follows(watchers[w])

\* A child that runs since StartProcess is the present process of the Proc registered.
OwnKept ==
  \A i \in Pids : os[i].state = "running" /\ os[i].child /\ ~os[i].again =>
    procs = os[i].owner /\ pidOf[procs] = i

WInv == /\ ProcTypeOK /\ UsedKept /\ LockKept /\ EntryKept
        /\ \A w \in Watchers : WatcherKept(w)
        /\ OneFollows /\ StopKept /\ StartKept /\ LoopKept /\ OwnKept

-----------------------------------------------------------------------------
(* What a step changes.                                                      *)

\* One watcher is replaced by another.
LEMMA WatcherChange ==
  ASSUME watchers \in Seq(WatcherType), NEW w \in Watchers, NEW x \in WatcherType,
         watchers' = [watchers EXCEPT ![w] = x]
  PROVE  /\ watchers' \in Seq(WatcherType) /\ Len(watchers') = Len(watchers)
         /\ Watchers' = Watchers /\ watchers'[w] = x
         /\ \A v \in Watchers : v # w => watchers'[v] = watchers[v]
BY ExceptSeq DEF Watchers

\* One process changes its state.
LEMMA ProcessChange ==
  ASSUME os \in Seq(ProcessType), NEW i \in Pids, NEW s \in States,
         os' = [os EXCEPT ![i].state = s]
  PROVE  /\ os' \in Seq(ProcessType) /\ Len(os') = Len(os) /\ Pids' = Pids
         /\ os'[i].state = s
         /\ \A j \in Pids : /\ j # i => os'[j].state = os[j].state
                            /\ os'[j].child = os[j].child /\ os'[j].owner = os[j].owner
                            /\ os'[j].again = os[j].again
<1> DEFINE y == [os[i] EXCEPT !.state = s]
<1>1. os[i] \in ProcessType
  BY DEF Pids
<1>2. y \in ProcessType /\ y.state = s /\ y.child = os[i].child /\ y.owner = os[i].owner
      /\ y.again = os[i].again
  BY <1>1 DEF ProcessType
<1>3. os' = [os EXCEPT ![i] = y]
  OBVIOUS
<1> HIDE DEF y
<1> QED BY <1>2, <1>3, ExceptSeq DEF Pids

\* Only one of the two goroutines that use ProcMaster moves.
LEMMA MpiMoves ==
  ASSUME LockKept, NEW x \in JobType, job' = [job EXCEPT !["mpi"] = x]
  PROVE  job' \in [Actors -> JobType] /\ mpi' = x /\ loop' = loop
BY DEF LockKept, Actors, mpi, loop

LEMMA LoopMoves ==
  ASSUME LockKept, NEW x \in JobType, job' = [job EXCEPT !["loop"] = x]
  PROVE  job' \in [Actors -> JobType] /\ loop' = x /\ mpi' = mpi
BY DEF LockKept, Actors, mpi, loop

\* Where a goroutine is and where it goes.
LEMMA JobTyped ==
  ASSUME ProcTypeOK, LockKept
  PROVE  /\ mpi \in JobType /\ loop \in JobType /\ Rest \in JobType
         /\ Rest.pc = "idle" /\ Rest.p = NoProc /\ Rest.w = 0
         /\ mpi.w \in 0 .. Len(watchers)
<1>1. mpi \in JobType /\ loop \in JobType
  BY DEF LockKept, Actors, mpi, loop
<1>2. Rest \in JobType /\ Rest.pc = "idle" /\ Rest.p = NoProc /\ Rest.w = 0
  BY DEF Rest, JobType, JobPlaces
<1>3. mpi.w \in 0 .. Len(watchers)
  BY DEF ProcTypeOK, Actors, mpi
<1> QED BY <1>1, <1>2, <1>3

\* A call that ended leaves the types of the two goroutines.
LEMMA MpiIdleTyped ==
  ASSUME ProcTypeOK, UNCHANGED used, loop' = loop,
         mpi'.pc = "idle", mpi'.p = NoProc, mpi'.w = 0,
         Len(watchers) \in Nat, Len(watchers') \in Nat, Len(watchers) <= Len(watchers')
  PROVE  JobsTyped'
<1>1. /\ loop.pc \in JobPlaces /\ loop.p \in used \cup {NoProc}
      /\ loop.w \in 0 .. Len(watchers)
  BY DEF ProcTypeOK, JobPlaces, Actors, loop
<1>2. loop.w \in 0 .. Len(watchers')
  BY <1>1
<1>3. /\ job'["loop"].pc \in JobPlaces /\ job'["loop"].p \in used' \cup {NoProc}
      /\ job'["loop"].w \in 0 .. Len(watchers')
  BY <1>1, <1>2 DEF loop
<1>4. /\ job'["mpi"].pc \in JobPlaces /\ job'["mpi"].p \in used' \cup {NoProc}
      /\ job'["mpi"].w \in 0 .. Len(watchers')
  BY DEF JobPlaces, mpi
<1> QED BY <1>3, <1>4 DEF JobsTyped, Actors

\* What the types say of the processes and the watchers.
LEMMA Typed ==
  ASSUME ProcTypeOK
  PROVE  /\ os \in Seq(ProcessType) /\ watchers \in Seq(WatcherType)
         /\ \A i \in Pids : os[i] \in ProcessType
         /\ \A w \in Watchers : watchers[w] \in WatcherType
         /\ Len(os) \in Nat /\ Len(watchers) \in Nat
         /\ entry \in Nat /\ pidfile \in Nat
         /\ pidOf \in [Procs -> Nat] /\ \A p \in Procs : pidOf[p] = 0 \/ pidOf[p] \in Pids
<1>1. os \in Seq(ProcessType) /\ watchers \in Seq(WatcherType)
  BY DEF ProcTypeOK, ProcessType, WatcherType
<1>2. /\ pidOf \in [Procs -> 0 .. Len(os)] /\ pidfile \in 0 .. Len(os)
      /\ entry \in 0 .. Len(watchers)
  BY DEF ProcTypeOK
<1>3. Len(os) \in Nat /\ Len(watchers) \in Nat
  BY <1>1
<1>4. entry \in Nat /\ pidfile \in Nat /\ pidOf \in [Procs -> Nat]
      /\ \A p \in Procs : pidOf[p] = 0 \/ pidOf[p] \in Pids
  BY <1>2, <1>3 DEF Pids
<1>5. \A i \in Pids : os[i] \in ProcessType
  BY <1>1 DEF Pids
<1>6. \A w \in Watchers : watchers[w] \in WatcherType
  BY <1>1 DEF Watchers
<1> QED BY <1>1, <1>3, <1>4, <1>5, <1>6

-----------------------------------------------------------------------------
(* The actions.                                                              *)

\* StopWatcher finds the entry of the registered Proc, or none.
LEMMA NotifyKeeps ==
  ASSUME WInv, Notify
  PROVE  WInv'
<1> USE DEF WInv
<1> DEFINE x == [mpi EXCEPT !.pc = IF entry = 0 THEN "kill" ELSE "send", !.w = entry]
<1>1. /\ x \in JobType /\ x.pc = (IF entry = 0 THEN "kill" ELSE "send")
      /\ x.p = mpi.p /\ x.w = entry
  BY JobTyped, Typed DEF JobType, JobPlaces
<1>2. job' = [job EXCEPT !["mpi"] = x]
  BY DEF Notify, LockKept, Actors, mpi
<1> HIDE DEF x
<1>3. /\ mpi'.pc = (IF entry = 0 THEN "kill" ELSE "send") /\ mpi'.p = mpi.p /\ mpi'.w = entry
      /\ loop' = loop /\ job' \in [Actors -> JobType]
  BY <1>1, <1>2, MpiMoves
<1>4. ProcTypeOK'
  BY <1>3 DEF ProcTypeOK, Notify, mpi, loop, Actors, Pids
<1>5. UsedKept' /\ EntryKept' /\ OneFollows'
  BY DEF Notify, UsedKept, EntryKept, OneFollows, Pids, Watchers
<1>6. LockKept'
  BY <1>3 DEF Notify, LockKept, Stopping, mpi
<1>7. \A w \in Watchers' : WatcherKept(w)'
  BY <1>3 DEF Notify, WatcherKept, KeptAs, Follows, Watchers, Pids, mpi
<1>8. StopKept'
  BY <1>3 DEF Notify, StopKept, Stopping, mpi
<1>9. StartKept' /\ LoopKept' /\ OwnKept'
  BY <1>3 DEF Notify, StartKept, LoopKept, OwnKept, Pids, Watchers
<1> QED BY <1>4, <1>5, <1>6, <1>7, <1>8, <1>9

\* The lock is free: nobody else is in a method of ProcMaster.
LEMMA StopProcessKeeps ==
  ASSUME WInv, StopProcess
  PROVE  WInv'
<1> USE DEF WInv
<1> DEFINE x == [pc |-> IF IsAlive(procs) THEN "notify" ELSE "delete", p |-> procs, w |-> 0]
<1>0. procs \in used /\ procs \in Procs /\ lock = "free" /\ lock' = "mpi"
  BY DEF StopProcess, UsedKept, ProcTypeOK, TakeLock
<1>1. x \in JobType /\ x.pc \in {"notify", "delete"} /\ (x.pc = "notify" <=> IsAlive(procs))
      /\ x.p = procs /\ x.w = 0
  BY <1>0 DEF JobType, JobPlaces
<1>2. job' = [job EXCEPT !["mpi"] = x]
  BY DEF StopProcess
<1> HIDE DEF x
<1>3. /\ mpi'.pc \in {"notify", "delete"} /\ (mpi'.pc = "notify" <=> IsAlive(procs))
      /\ mpi'.p = procs /\ mpi'.w = 0 /\ mpi.pc = "idle"
      /\ loop' = loop /\ job' \in [Actors -> JobType]
  BY <1>1, <1>2, MpiMoves DEF StopProcess, mpi
<1>4. UNCHANGED <<os, pidOf, used, pidfile, procs, entry, watchers, past>>
  BY DEF StopProcess
<1>5. ProcTypeOK'
  BY SMTT(30), <1>0, <1>3, <1>4, Typed DEF ProcTypeOK, mpi, loop, Actors, Pids
<1>6. UsedKept' /\ EntryKept' /\ OneFollows'
  BY <1>4 DEF UsedKept, EntryKept, OneFollows, Pids, Watchers
<1>7. LockKept'
  BY <1>0, <1>3, <1>4 DEF LockKept, Stopping
<1>8. \A v \in Watchers' : WatcherKept(v)'
  BY <1>3, <1>4 DEF WatcherKept, KeptAs, Follows, Watchers, Pids
<1>9. StopKept'
  <2>1. ~IsAlive(procs) => pidOf[procs] = 0 \/ os[pidOf[procs]].state # "running"
    BY DEF IsAlive, AlivePid
  <2>2. IsAlive(procs) => pidOf[procs] # 0
    BY DEF IsAlive, AlivePid
  <2> QED BY <1>3, <1>4, <2>1, <2>2 DEF StopKept, Stopping
<1>10. StartKept' /\ LoopKept' /\ OwnKept'
  BY <1>3, <1>4 DEF StartKept, LoopKept, OwnKept, Pids, Watchers
<1> QED BY <1>5, <1>6, <1>7, <1>8, <1>9, <1>10

\* Whoever follows the process has given its end to the helper.
LEMMA AwaitKeeps ==
  ASSUME WInv, Await
  PROVE  WInv'
<1> USE DEF WInv
<1> DEFINE x == [mpi EXCEPT !.pc = "delete"]
<1>1. x \in JobType /\ x.pc = "delete" /\ x.p = mpi.p /\ x.w = mpi.w
  BY JobTyped DEF JobType, JobPlaces
<1>2. job' = [job EXCEPT !["mpi"] = x]
  BY DEF Await, LockKept, Actors, mpi
<1> HIDE DEF x
<1>3. /\ mpi'.pc = "delete" /\ mpi'.p = mpi.p /\ mpi'.w = mpi.w /\ mpi.pc = "await"
      /\ watchers[mpi.w].helper = "done"
      /\ loop' = loop /\ job' \in [Actors -> JobType]
  BY <1>1, <1>2, MpiMoves DEF Await, mpi
<1>4. UNCHANGED <<os, pidOf, used, pidfile, procs, entry, watchers, lock, past>>
  BY DEF Await
<1>5. ProcTypeOK'
  BY <1>3, <1>4, Typed DEF ProcTypeOK, mpi, loop, Actors, Pids
<1>6. UsedKept' /\ EntryKept' /\ OneFollows'
  BY <1>4 DEF UsedKept, EntryKept, OneFollows, Pids, Watchers
<1>7. LockKept'
  BY <1>3, <1>4 DEF LockKept, Stopping
<1>8. \A v \in Watchers' : WatcherKept(v)'
  BY <1>3, <1>4 DEF WatcherKept, KeptAs, Follows, Watchers, Pids
<1>9. StopKept'
  BY <1>3, <1>4 DEF StopKept, Stopping
<1>10. StartKept' /\ LoopKept' /\ OwnKept'
  BY <1>3, <1>4 DEF StartKept, LoopKept, OwnKept, Pids, Watchers
<1> QED BY <1>5, <1>6, <1>7, <1>8, <1>9, <1>10

\* The Proc that is taken out of the map runs no longer.
LEMMA StopProcessEndsKeeps ==
  ASSUME WInv, StopProcessEnds
  PROVE  WInv'
<1> USE DEF WInv
<1>1. job' = [job EXCEPT !["mpi"] = Rest] /\ lock' = "free" /\ procs' = NoProc /\ pidfile' = 0
      /\ job["mpi"].pc = "delete"
  BY DEF StopProcessEnds, Return
<1>3. /\ mpi'.pc = "idle" /\ mpi'.p = NoProc /\ mpi'.w = 0 /\ mpi.pc = "delete"
      /\ loop' = loop /\ job' \in [Actors -> JobType]
  BY <1>1, JobTyped, MpiMoves DEF mpi
<1>4. UNCHANGED <<os, pidOf, used, entry, watchers, past>>
  BY DEF StopProcessEnds
<1>5. ProcTypeOK'
  BY <1>1, <1>3, <1>4, Typed DEF ProcTypeOK, mpi, loop, Actors, Pids
<1>6. UsedKept' /\ EntryKept' /\ OneFollows'
  BY <1>1, <1>4 DEF UsedKept, EntryKept, OneFollows, Pids, Watchers
<1>7. LockKept'
  BY <1>1, <1>3, <1>4 DEF LockKept, Stopping
<1>8. \A v \in Watchers' : WatcherKept(v)'
  BY <1>3, <1>4 DEF WatcherKept, KeptAs, Follows, Watchers, Pids
<1>9. StopKept' /\ StartKept' /\ LoopKept'
  BY <1>1, <1>3, <1>4 DEF StopKept, Stopping, StartKept, LoopKept, Watchers, Pids
<1>10. OwnKept'
  <2>1. pidOf[procs] = 0 \/ os[pidOf[procs]].state # "running"
    BY <1>3 DEF StopKept, Stopping
  <2> QED BY <1>4, <2>1, Typed DEF OwnKept, Pids
<1> QED BY <1>5, <1>6, <1>7, <1>8, <1>9, <1>10

LEMMA LoopUpdatesStatusKeeps ==
  ASSUME WInv, LoopUpdatesStatus
  PROVE  WInv'
<1> USE DEF WInv
<1>1. job' = [job EXCEPT !["loop"] = Rest] /\ lock = "free" /\ lock' = "free"
      /\ job["loop"].pc = "got"
  BY DEF LoopUpdatesStatus, Return
<1>3. /\ loop'.pc = "idle" /\ loop'.p = NoProc /\ loop'.w = 0 /\ loop.pc = "got"
      /\ mpi' = mpi /\ job' \in [Actors -> JobType]
  BY <1>1, JobTyped, LoopMoves DEF loop
<1>4. UNCHANGED <<os, pidOf, used, pidfile, procs, entry, watchers, past>>
  BY DEF LoopUpdatesStatus
<1>5. ProcTypeOK'
  BY <1>1, <1>3, <1>4, Typed DEF ProcTypeOK, mpi, loop, Actors, Pids
<1>6. UsedKept' /\ EntryKept' /\ OneFollows'
  BY <1>1, <1>4 DEF UsedKept, EntryKept, OneFollows, Pids, Watchers
<1>7. LockKept'
  BY <1>1, <1>3, <1>4 DEF LockKept, Stopping
<1>8. \A v \in Watchers' : WatcherKept(v)'
  BY <1>3, <1>4 DEF WatcherKept, KeptAs, Follows, Watchers, Pids
<1>9. StopKept' /\ StartKept' /\ LoopKept' /\ OwnKept'
  BY <1>3, <1>4 DEF StopKept, Stopping, StartKept, LoopKept, OwnKept, Watchers, Pids
<1> QED BY <1>5, <1>6, <1>7, <1>8, <1>9

LEMMA LoopRestartsKeeps ==
  ASSUME WInv, LoopRestarts
  PROVE  WInv'
<1> USE DEF WInv
<1> DEFINE x == [loop EXCEPT !.pc = "start"]
<1>1. x \in JobType /\ x.pc = "start" /\ x.p = loop.p /\ x.w = loop.w
  BY JobTyped DEF JobType, JobPlaces
<1>2. job' = [job EXCEPT !["loop"] = x] /\ lock = "free" /\ lock' = "loop" /\ pidfile' = 0
  BY DEF LoopRestarts, TakeLock, LockKept, Actors, loop
<1> HIDE DEF x
<1>3. /\ loop'.pc = "start" /\ loop'.p = loop.p /\ loop'.w = loop.w /\ loop.pc = "got"
      /\ mpi' = mpi /\ job' \in [Actors -> JobType]
  BY <1>1, <1>2, LoopMoves DEF LoopRestarts, loop
<1>4. UNCHANGED <<os, pidOf, used, procs, entry, watchers, past>>
  BY DEF LoopRestarts
<1>5. ProcTypeOK'
  BY SMTT(30), <1>2, <1>3, <1>4, Typed DEF ProcTypeOK, mpi, loop, Actors, Pids
<1>6. UsedKept' /\ EntryKept' /\ OneFollows'
  BY <1>4 DEF UsedKept, EntryKept, OneFollows, Pids, Watchers
<1>7. LockKept'
  BY <1>2, <1>3, <1>4 DEF LockKept, Stopping
<1>8. \A v \in Watchers' : WatcherKept(v)'
  BY <1>3, <1>4 DEF WatcherKept, KeptAs, Follows, Watchers, Pids
<1>9. StopKept' /\ StartKept' /\ LoopKept' /\ OwnKept'
  BY <1>3, <1>4 DEF StopKept, Stopping, StartKept, LoopKept, OwnKept, Watchers, Pids
<1> QED BY <1>5, <1>6, <1>7, <1>8, <1>9

\* A new Proc object, perhaps with the pid of a process that an earlier run has left.
LEMMA MpiStartKeeps ==
  ASSUME WInv, NEW p \in Procs, MpiStart(p)
  PROVE  WInv'
<1> USE ProcsAssumption DEF WInv
<1> DEFINE x == [pc |-> IF AlivePid(pidfile) THEN "restore" ELSE "start", p |-> p, w |-> 0]
<1>1. /\ x \in JobType /\ x.pc = (IF AlivePid(pidfile) THEN "restore" ELSE "start")
      /\ x.p = p /\ x.w = 0
  BY DEF JobType, JobPlaces
<1>2. /\ job' = [job EXCEPT !["mpi"] = x] /\ job["mpi"].pc = "idle"
      /\ p \notin used /\ used' = used \cup {p}
      /\ pidOf' = IF AlivePid(pidfile) THEN [pidOf EXCEPT ![p] = pidfile] ELSE pidOf
  BY DEF MpiStart
<1> HIDE DEF x
<1>3. /\ mpi'.pc = (IF AlivePid(pidfile) THEN "restore" ELSE "start")
      /\ mpi'.p = p /\ mpi'.w = 0 /\ mpi.pc = "idle"
      /\ loop' = loop /\ job' \in [Actors -> JobType]
  BY <1>1, <1>2, MpiMoves DEF mpi
<1>4. UNCHANGED <<os, pidfile, procs, entry, watchers, lock, past>>
  BY DEF MpiStart
<1>5. /\ \A q \in Procs : q # p => pidOf'[q] = pidOf[q]
      /\ AlivePid(pidfile) => pidOf'[p] # 0
      /\ \A q \in used : q # p
      /\ pidOf' \in [Procs -> 0 .. Len(os)]
  BY <1>2, Typed DEF AlivePid, ProcTypeOK
<1>6. ProcTypeOK'
  BY <1>2, <1>3, <1>4, <1>5, Typed DEF ProcTypeOK, mpi, loop, Actors, Pids
<1>7. UsedKept'
  BY <1>2, <1>4, <1>5 DEF UsedKept, Pids, Watchers
<1>8. EntryKept' /\ OneFollows'
  BY <1>4 DEF EntryKept, OneFollows, Watchers
<1>9. LockKept'
  BY <1>2, <1>3, <1>4 DEF LockKept, Stopping
<1>10. \A v \in Watchers' : WatcherKept(v)'
  <2>1. \A v \in Watchers : pidOf'[watchers[v].proc] = pidOf[watchers[v].proc]
    BY <1>5, Typed DEF UsedKept, WatcherType
  <2> QED BY <1>3, <1>4, <2>1 DEF WatcherKept, KeptAs, Follows, Watchers, Pids
<1>11. StopKept'
  BY <1>3 DEF StopKept, Stopping
<1>12. StartKept'
  <2>1. procs # p
    BY <1>2 DEF UsedKept
  <2>2. loop.pc # "idle" => loop.p # p
    BY <1>2 DEF LockKept
  <2> QED BY <1>2, <1>3, <1>4, <1>5, <2>1, <2>2 DEF StartKept, UsedKept, Watchers, Pids
<1>13. LoopKept'
  <2>1. loop.pc # "idle" => pidOf'[loop.p] = pidOf[loop.p]
    BY <1>5 DEF LockKept, ProcTypeOK
  <2> QED BY <1>3, <1>4, <2>1 DEF LoopKept, Watchers, Pids
<1>14. OwnKept'
  <2>1. procs \in used => pidOf'[procs] = pidOf[procs]
    BY <1>5 DEF ProcTypeOK
  <2>2. \A i \in Pids : os[i].owner \in used
    BY DEF UsedKept
  <2> QED BY <1>4, <2>1, <2>2 DEF OwnKept, Pids
<1> QED BY <1>6, <1>7, <1>8, <1>9, <1>10, <1>11, <1>12, <1>13, <1>14

-----------------------------------------------------------------------------
(* The goroutines of a watcher.                                              *)

\* A step that changes one watcher and nothing else but its entry: it is enough that
\* this watcher is as it should be and does not begin to follow.
LEMMA WatcherStep ==
  ASSUME WInv, NEW w \in Watchers, NEW x \in WatcherType,
         watchers' = [watchers EXCEPT ![w] = x],
         UNCHANGED <<os, pidOf, used, pidfile, procs, job, lock>>,
         x.proc = watchers[w].proc, Follows(x) => Follows(watchers[w]), KeptAs(w, x),
         entry' \in {0, entry}, x.select # "done" => entry' = w,
         \A v \in Watchers : v # w /\ watchers[v].select # "done" => entry' = v
  PROVE  WInv'
<1> USE DEF WInv
<1>1. /\ watchers' \in Seq(WatcherType) /\ Len(watchers') = Len(watchers)
      /\ Watchers' = Watchers /\ watchers'[w] = x
      /\ \A v \in Watchers : v # w => watchers'[v] = watchers[v]
  BY WatcherChange, Typed
<1>2. \A v \in Watchers : /\ Follows(watchers'[v]) => Follows(watchers[v])
                          /\ watchers'[v].proc = watchers[v].proc
  BY <1>1
<1>3. mpi' = mpi /\ loop' = loop /\ Pids' = Pids
  BY DEF mpi, loop, Pids
<1>4. ProcTypeOK'
  <2>1. watchers' \in Seq(WatcherType')
    BY <1>1, <1>3 DEF WatcherType
  <2>2. entry' \in 0 .. Len(watchers')
    BY <1>1, Typed DEF ProcTypeOK
  <2> QED BY <1>1, <2>1, <2>2 DEF ProcTypeOK, WatcherType, Actors
<1>5. UsedKept'
  BY <1>1, <1>2, <1>3 DEF UsedKept
<1>6. LockKept'
  BY <1>3 DEF LockKept
<1>7. EntryKept'
  BY <1>1 DEF EntryKept
<1>8. \A v \in Watchers' : WatcherKept(v)'
  <2>1. \A v \in Watchers : KeptAs(v, watchers'[v])
    BY <1>1 DEF WatcherKept
  <2> QED BY <1>1, <1>3, <2>1 DEF WatcherKept, KeptAs
<1>9. OneFollows'
  BY <1>1, <1>2 DEF OneFollows, Follows
<1>10. StopKept'
  BY <1>3 DEF StopKept
<1>11. StartKept'
  BY <1>1, <1>2, <1>3 DEF StartKept
<1>12. LoopKept'
  BY <1>1, <1>2, <1>3 DEF LoopKept, Follows
<1>13. OwnKept'
  BY <1>3 DEF OwnKept
<1> QED BY <1>4, <1>5, <1>6, <1>7, <1>8, <1>9, <1>10, <1>11, <1>12, <1>13

LEMMA SelectStatusKeeps ==
  ASSUME WInv, NEW w \in Watchers, SelectStatus(w)
  PROVE  WInv'
<1> DEFINE x == [watchers[w] EXCEPT !.status = 0, !.select = "send"]
<1>1. /\ watchers' = [watchers EXCEPT ![w] = x]
      /\ UNCHANGED <<os, pidOf, used, pidfile, procs, job, lock>>
  BY DEF SelectStatus
<1>2. watchers[w] \in WatcherType
  BY Typed DEF WInv
<1>3. /\ x \in WatcherType /\ x.proc = watchers[w].proc /\ x.pid = watchers[w].pid
      /\ x.notChild = watchers[w].notChild
      /\ x.watching = watchers[w].watching /\ x.status = 0
      /\ x.stop = watchers[w].stop /\ x.select = "send" /\ x.helper = watchers[w].helper
  BY <1>2 DEF WatcherType
<1> HIDE DEF x
<1>4. KeptAs(w, watchers[w]) /\ (watchers[w].select # "done" => entry = w)
  BY DEF WInv, WatcherKept, EntryKept
<1>5. KeptAs(w, x) /\ (Follows(x) => Follows(watchers[w]))
  BY <1>3, <1>4 DEF SelectStatus, KeptAs, Follows
<1>6. /\ entry' \in {0, entry} /\ (x.select # "done" => entry' = w)
      /\ \A v \in Watchers : v # w /\ watchers[v].select # "done" => entry' = v
  BY <1>3, <1>4 DEF SelectStatus, WInv, EntryKept
<1> QED BY <1>1, <1>3, <1>5, <1>6, WatcherStep

LEMMA SelectStopKeeps ==
  ASSUME WInv, NEW w \in Watchers, SelectStop(w)
  PROVE  WInv'
<1> DEFINE x == [watchers[w] EXCEPT !.stop = 0, !.select = "delete"]
<1>1. /\ watchers' = [watchers EXCEPT ![w] = x]
      /\ UNCHANGED <<os, pidOf, used, pidfile, procs, job, lock>>
  BY DEF SelectStop
<1>2. watchers[w] \in WatcherType
  BY Typed DEF WInv
<1>3. /\ x \in WatcherType /\ x.proc = watchers[w].proc /\ x.pid = watchers[w].pid
      /\ x.notChild = watchers[w].notChild
      /\ x.watching = watchers[w].watching /\ x.status = watchers[w].status
      /\ x.stop = 0 /\ x.select = "delete" /\ x.helper = watchers[w].helper
  BY <1>2 DEF WatcherType
<1> HIDE DEF x
<1>4. KeptAs(w, watchers[w]) /\ (watchers[w].select # "done" => entry = w)
  BY DEF WInv, WatcherKept, EntryKept
<1>5. KeptAs(w, x) /\ (Follows(x) => Follows(watchers[w]))
  BY <1>3, <1>4 DEF SelectStop, KeptAs, Follows
<1>6. /\ entry' \in {0, entry} /\ (x.select # "done" => entry' = w)
      /\ \A v \in Watchers : v # w /\ watchers[v].select # "done" => entry' = v
  BY <1>3, <1>4 DEF SelectStop, WInv, EntryKept
<1> QED BY <1>1, <1>3, <1>5, <1>6, WatcherStep

LEMMA DeleteEntryKeeps ==
  ASSUME WInv, NEW w \in Watchers, DeleteEntry(w)
  PROVE  WInv'
<1> DEFINE x == [watchers[w] EXCEPT !.select = "done"]
<1>1. /\ watchers' = [watchers EXCEPT ![w] = x]
      /\ UNCHANGED <<os, pidOf, used, pidfile, procs, job, lock>>
  BY DEF DeleteEntry
<1>2. watchers[w] \in WatcherType
  BY Typed DEF WInv
<1>3. /\ x \in WatcherType /\ x.proc = watchers[w].proc /\ x.pid = watchers[w].pid
      /\ x.notChild = watchers[w].notChild
      /\ x.watching = watchers[w].watching /\ x.status = watchers[w].status
      /\ x.stop = watchers[w].stop /\ x.select = "done" /\ x.helper = watchers[w].helper
  BY <1>2 DEF WatcherType
<1> HIDE DEF x
<1>4. KeptAs(w, watchers[w]) /\ (watchers[w].select # "done" => entry = w)
  BY DEF WInv, WatcherKept, EntryKept
<1>5. KeptAs(w, x) /\ (Follows(x) => Follows(watchers[w]))
  BY <1>3, <1>4 DEF DeleteEntry, KeptAs, Follows
<1>6. /\ entry' \in {0, entry} /\ (x.select # "done" => entry' = w)
      /\ \A v \in Watchers : v # w /\ watchers[v].select # "done" => entry' = v
  BY <1>3, <1>4 DEF DeleteEntry, WInv, EntryKept
<1> QED BY <1>1, <1>3, <1>5, <1>6, WatcherStep

LEMMA HelperReceivesKeeps ==
  ASSUME WInv, NEW w \in Watchers, HelperReceives(w)
  PROVE  WInv'
<1> DEFINE x == [watchers[w] EXCEPT !.status = 0, !.helper = "done"]
<1>1. /\ watchers' = [watchers EXCEPT ![w] = x]
      /\ UNCHANGED <<os, pidOf, used, pidfile, procs, job, lock>>
  BY DEF HelperReceives
<1>2. watchers[w] \in WatcherType
  BY Typed DEF WInv
<1>3. /\ x \in WatcherType /\ x.proc = watchers[w].proc /\ x.pid = watchers[w].pid
      /\ x.notChild = watchers[w].notChild
      /\ x.watching = watchers[w].watching /\ x.status = 0
      /\ x.stop = watchers[w].stop /\ x.select = watchers[w].select /\ x.helper = "done"
  BY <1>2 DEF WatcherType
<1> HIDE DEF x
<1>4. KeptAs(w, watchers[w]) /\ (watchers[w].select # "done" => entry = w)
  BY DEF WInv, WatcherKept, EntryKept
<1>5. KeptAs(w, x) /\ (Follows(x) => Follows(watchers[w]))
  BY <1>3, <1>4 DEF HelperReceives, KeptAs, Follows
<1>6. /\ entry' \in {0, entry} /\ (x.select # "done" => entry' = w)
      /\ \A v \in Watchers : v # w /\ watchers[v].select # "done" => entry' = v
  BY <1>3, <1>4 DEF HelperReceives, WInv, EntryKept
<1> QED BY <1>1, <1>3, <1>5, <1>6, WatcherStep

-----------------------------------------------------------------------------
(* Processes end.                                                            *)

\* A process that ends runs no longer, one that is gone stays gone.
LEMMA ProcessEnds ==
  ASSUME WInv, NEW i \in Pids, NEW s \in States \ {"running"},
         os[i].state = "gone" => s = "gone", os' = [os EXCEPT ![i].state = s],
         UNCHANGED <<pidOf, used, pidfile, procs, entry, lock>>
  PROVE  /\ os' \in Seq(ProcessType) /\ Len(os') = Len(os) /\ Pids' = Pids
         /\ os'[i].state = s
         /\ \A j \in Pids : /\ os'[j].state = "running" => os[j].state = "running"
                            /\ os[j].state = "gone" => os'[j].state = "gone"
                            /\ os'[j].child = os[j].child /\ os'[j].owner = os[j].owner
                            /\ os'[j].again = os[j].again
         /\ OwnKept'
<1>1. /\ os' \in Seq(ProcessType) /\ Len(os') = Len(os) /\ Pids' = Pids
      /\ os'[i].state = s
      /\ \A j \in Pids : /\ j # i => os'[j].state = os[j].state
                         /\ os'[j].child = os[j].child /\ os'[j].owner = os[j].owner
                         /\ os'[j].again = os[j].again
  BY ProcessChange, Typed DEF WInv
<1>2. OwnKept'
  BY <1>1 DEF WInv, OwnKept
<1> QED BY <1>1, <1>2

LEMMA ProcessDiesKeeps ==
  ASSUME WInv, NEW i \in Pids, ProcessDies(i)
  PROVE  WInv'
<1> USE DEF WInv
<1>1. /\ os' = [os EXCEPT ![i].state = Dead(i)] /\ os[i].state = "running"
      /\ UNCHANGED <<pidOf, used, pidfile, procs, entry, watchers, job, lock>>
  BY DEF ProcessDies
<1>2. Dead(i) \in States \ {"running"}
  BY DEF Dead, States
<1>3. /\ os' \in Seq(ProcessType) /\ Len(os') = Len(os) /\ Pids' = Pids
      /\ \A j \in Pids : /\ os'[j].state = "running" => os[j].state = "running"
                         /\ os[j].state = "gone" => os'[j].state = "gone"
                         /\ os'[j].owner = os[j].owner
      /\ OwnKept'
  BY <1>1, <1>2, ProcessEnds
<1>4. ProcTypeOK'
  BY <1>1, <1>3 DEF ProcTypeOK, ProcessType, Actors
<1>5. mpi' = mpi /\ loop' = loop /\ Watchers' = Watchers
  BY <1>1 DEF mpi, loop, Watchers
<1>6. UsedKept' /\ LockKept' /\ EntryKept' /\ OneFollows'
  BY <1>1, <1>3, <1>5 DEF UsedKept, LockKept, EntryKept, OneFollows
<1>7. \A w \in Watchers' : WatcherKept(w)'
  BY <1>1, <1>3, <1>5 DEF WatcherKept, KeptAs
<1>8. StopKept'
  BY <1>1, <1>3, <1>5, Typed DEF StopKept, LockKept, ProcTypeOK, Stopping
<1>9. StartKept' /\ LoopKept'
  BY <1>1, <1>3, <1>5 DEF StartKept, LoopKept
<1> QED BY <1>3, <1>4, <1>6, <1>7, <1>8, <1>9

\* The present process of the registered Proc is killed.
LEMMA KillKeeps ==
  ASSUME WInv, Kill
  PROVE  WInv'
<1> USE DEF WInv
<1> DEFINE i == pidOf[mpi.p]
           s == IF os[i].state = "running" THEN Dead(i) ELSE os[i].state
           x == [mpi EXCEPT !.pc = IF mpi.w = 0 THEN "delete" ELSE "await"]
<1>1. /\ mpi.pc = "kill" /\ os' = [os EXCEPT ![i].state = s] /\ job' = [job EXCEPT !["mpi"] = x]
      /\ UNCHANGED <<pidOf, used, pidfile, procs, entry, watchers, lock>>
  BY DEF Kill, mpi, LockKept, Actors
<1>2. i \in Pids
  BY <1>1, Typed DEF StopKept, LockKept, ProcTypeOK
<1>3. s \in States \ {"running"} /\ (os[i].state = "gone" => s = "gone")
  BY <1>2, Typed DEF Dead, States, ProcessType
<1>4. /\ x \in JobType /\ x.pc = (IF mpi.w = 0 THEN "delete" ELSE "await") /\ x.p = mpi.p
      /\ x.w = mpi.w
  BY JobTyped DEF JobType, JobPlaces
<1> HIDE DEF x, s, i
<1>5. /\ os' \in Seq(ProcessType) /\ Len(os') = Len(os) /\ Pids' = Pids
      /\ os'[i].state # "running"
      /\ \A j \in Pids : /\ os'[j].state = "running" => os[j].state = "running"
                         /\ os[j].state = "gone" => os'[j].state = "gone"
                         /\ os'[j].owner = os[j].owner
      /\ OwnKept'
  <2>1. PICK j \in Pids, t \in States \ {"running"} : j = i /\ t = s
    BY <1>2, <1>3
  <2>2. os[j].state = "gone" => t = "gone"
    BY <2>1, <1>3
  <2>3. os' = [os EXCEPT ![j].state = t]
    BY <2>1, <1>1
  <2>4. UNCHANGED <<pidOf, used, pidfile, procs, entry, lock>>
    BY <1>1
  <2>5. WInv
    OBVIOUS
  <2>6. /\ os' \in Seq(ProcessType) /\ Len(os') = Len(os) /\ Pids' = Pids
        /\ os'[j].state = t
        /\ \A h \in Pids : /\ os'[h].state = "running" => os[h].state = "running"
                           /\ os[h].state = "gone" => os'[h].state = "gone"
                           /\ os'[h].owner = os[h].owner
        /\ OwnKept'
    <3> HIDE DEF WInv
    <3> QED BY <2>2, <2>3, <2>4, <2>5, ProcessEnds
  <2> QED BY <2>1, <2>6
<1>6. /\ mpi'.pc = (IF mpi.w = 0 THEN "delete" ELSE "await") /\ mpi'.p = mpi.p
      /\ mpi'.w = mpi.w /\ loop' = loop /\ job' \in [Actors -> JobType]
  BY <1>1, <1>4, MpiMoves
<1>7. ProcTypeOK'
  BY <1>1, <1>5, <1>6 DEF ProcTypeOK, ProcessType, Actors, mpi, loop
<1>8. Watchers' = Watchers
  BY <1>1 DEF Watchers
<1>9. UsedKept' /\ EntryKept' /\ OneFollows'
  BY <1>1, <1>5, <1>8 DEF UsedKept, EntryKept, OneFollows
<1>10. LockKept'
  BY <1>1, <1>6 DEF LockKept, Stopping
<1>11. \A w \in Watchers' : WatcherKept(w)'
  <2>1. \A w \in Watchers : w # 0
    BY DEF Watchers
  <2> QED BY <1>1, <1>5, <1>6, <1>8, <2>1 DEF WatcherKept, KeptAs
<1>12. StopKept'
  BY <1>1, <1>5, <1>6 DEF StopKept, Stopping, i
<1>13. StartKept' /\ LoopKept'
  BY <1>1, <1>5, <1>6, <1>8 DEF StartKept, LoopKept
<1> QED BY <1>5, <1>7, <1>9, <1>10, <1>11, <1>12, <1>13

\* What a crash leaves are processes that are nobody's children.
LEMMA CrashKeeps ==
  ASSUME WInv, Crash
  PROVE  WInv'
<1> USE DEF WInv
<1> DEFINE Left(i) == [os[i] EXCEPT !.child = FALSE,
                         !.state = IF @ = "zombie" THEN "gone" ELSE @]
<1>1. /\ os' = [i \in Pids |-> Left(i)]
      /\ procs' = NoProc /\ entry' = 0 /\ watchers' = <<>> /\ lock' = "free"
      /\ job' = [a \in Actors |-> Rest] /\ UNCHANGED <<pidOf, used, pidfile>>
  BY DEF Crash
<1>2. \A i \in Pids : Left(i) \in ProcessType /\ ~Left(i).child /\ Left(i).owner = os[i].owner
  BY Typed DEF ProcessType, States
<1> HIDE DEF Left
<1>3. os' \in Seq(ProcessType) /\ Len(os') = Len(os) /\ Pids' = Pids
      /\ \A i \in Pids : os'[i] = Left(i)
  <2>1. os' \in [1 .. Len(os) -> ProcessType] /\ Len(os) \in Nat
    BY <1>1, <1>2, Typed DEF Pids
  <2> QED BY <1>1, <2>1, FunctionIsSeq DEF Pids
<1>4. /\ mpi'.pc = "idle" /\ loop'.pc = "idle" /\ job' \in [Actors -> JobType]
      /\ \A a \in Actors : job'[a].pc = "idle" /\ job'[a].p = NoProc /\ job'[a].w = 0
  BY <1>1, JobTyped DEF mpi, loop, Actors
<1>5. watchers' \in Seq(WatcherType') /\ Len(watchers') = 0 /\ Watchers' = {}
  BY <1>1 DEF Watchers
<1>6. ProcTypeOK'
  BY <1>1, <1>3, <1>4, <1>5 DEF ProcTypeOK, ProcessType, WatcherType
<1>7. UsedKept'
  BY <1>1, <1>2, <1>3, <1>5 DEF UsedKept
<1>8. LockKept'
  BY <1>1, <1>4 DEF LockKept, Stopping
<1>9. EntryKept' /\ OneFollows' /\ \A w \in Watchers' : WatcherKept(w)'
  BY <1>5 DEF EntryKept, OneFollows
<1>10. StopKept' /\ StartKept' /\ LoopKept'
  BY <1>4 DEF StopKept, StartKept, LoopKept, Stopping
<1>11. OwnKept'
  BY <1>2, <1>3 DEF OwnKept
<1> QED BY <1>6, <1>7, <1>8, <1>9, <1>10, <1>11

\* The state goes from the operating system to procStatus.
LEMMA WatchReturnsKeeps ==
  ASSUME WInv, NEW w \in Watchers, WatchReturns(w)
  PROVE  WInv'
<1> USE DEF WInv
<1> DEFINE i == WatchedPid(w)
           x == [watchers[w] EXCEPT !.watching = FALSE, !.status = 1]
<1>1. /\ watchers[w].watching /\ os[i].state # "running"
      /\ os' = [os EXCEPT ![i].state = "gone"] /\ watchers' = [watchers EXCEPT ![w] = x]
      /\ UNCHANGED <<pidOf, used, pidfile, procs, entry, job, lock>>
  BY DEF WatchReturns
<1>2. watchers[w] \in WatcherType
  BY Typed
<1>3. /\ x \in WatcherType /\ x.proc = watchers[w].proc /\ x.pid = watchers[w].pid
      /\ x.notChild = watchers[w].notChild /\ x.stop = watchers[w].stop
      /\ x.select = watchers[w].select /\ x.helper = watchers[w].helper
      /\ ~x.watching /\ x.status = 1
  BY <1>2 DEF WatcherType
<1>4. KeptAs(w, watchers[w])
  BY DEF WatcherKept
<1>5. i \in Pids /\ i = pidOf[watchers[w].proc]
  BY <1>1, <1>4 DEF KeptAs, Follows, WatchedPid
<1> HIDE DEF x, i
<1>6. /\ os' \in Seq(ProcessType) /\ Len(os') = Len(os) /\ Pids' = Pids
      /\ os'[i].state = "gone"
      /\ \A j \in Pids : /\ os'[j].state = "running" => os[j].state = "running"
                         /\ os[j].state = "gone" => os'[j].state = "gone"
                         /\ os'[j].owner = os[j].owner
      /\ OwnKept'
  <2>1. PICK j \in Pids : j = i
    BY <1>5
  <2>2. "gone" \in States \ {"running"}
    BY DEF States
  <2>3. os' = [os EXCEPT ![j].state = "gone"]
    BY <2>1, <1>1
  <2>4. UNCHANGED <<pidOf, used, pidfile, procs, entry, lock>>
    BY <1>1
  <2>5. WInv
    OBVIOUS
  <2>6. /\ os' \in Seq(ProcessType) /\ Len(os') = Len(os) /\ Pids' = Pids
        /\ os'[j].state = "gone"
        /\ \A h \in Pids : /\ os'[h].state = "running" => os[h].state = "running"
                           /\ os[h].state = "gone" => os'[h].state = "gone"
                           /\ os'[h].owner = os[h].owner
        /\ OwnKept'
    <3> HIDE DEF WInv
    <3> QED BY <2>2, <2>3, <2>4, <2>5, ProcessEnds
  <2> QED BY <2>1, <2>6
<1>7. /\ watchers' \in Seq(WatcherType) /\ Len(watchers') = Len(watchers)
      /\ Watchers' = Watchers /\ watchers'[w] = x
      /\ \A v \in Watchers : v # w => watchers'[v] = watchers[v]
  BY <1>1, <1>3, WatcherChange, Typed
<1>8. \A v \in Watchers : /\ Follows(watchers'[v]) => Follows(watchers[v])
                          /\ watchers'[v].proc = watchers[v].proc
                          /\ watchers'[v].select = watchers[v].select
  BY <1>1, <1>3, <1>7 DEF Follows
<1>9. mpi' = mpi /\ loop' = loop
  BY <1>1 DEF mpi, loop
<1>10. ProcTypeOK'
  <2>1. watchers' \in Seq(WatcherType')
    BY <1>6, <1>7 DEF WatcherType
  <2> QED BY <1>1, <1>6, <1>7, <2>1 DEF ProcTypeOK, WatcherType, ProcessType, Actors
<1>11. UsedKept'
  BY <1>1, <1>6, <1>7, <1>8 DEF UsedKept
<1>12. LockKept'
  BY <1>1, <1>9 DEF LockKept
<1>13. EntryKept'
  BY <1>1, <1>7, <1>8 DEF EntryKept
<1>14. \A v \in Watchers' : WatcherKept(v)'
  <2>1. KeptAs(w, watchers[w])'
    BY <1>1, <1>3, <1>4, <1>5, <1>6, <1>7, <1>9 DEF KeptAs, Follows
  <2>2. \A v \in Watchers : v # w => KeptAs(v, watchers[v])'
    BY <1>1, <1>6, <1>7, <1>9 DEF WatcherKept, KeptAs, Follows
  <2> QED BY <1>7, <2>1, <2>2 DEF WatcherKept, KeptAs
<1>15. OneFollows'
  BY <1>7, <1>8 DEF OneFollows, Follows
<1>16. StopKept'
  BY <1>1, <1>6, <1>9, Typed DEF StopKept, LockKept, ProcTypeOK, Stopping
<1>17. StartKept'
  BY <1>1, <1>6, <1>7, <1>8, <1>9 DEF StartKept
<1>18. LoopKept'
  BY <1>1, <1>6, <1>7, <1>8, <1>9 DEF LoopKept, Follows
<1> QED BY <1>6, <1>10, <1>11, <1>12, <1>13, <1>14, <1>15, <1>16, <1>17, <1>18

-----------------------------------------------------------------------------
(* The channels between a watcher and the goroutines that use ProcMaster.    *)

\* Only a watcher that StopProcess waits for is told to stop.
LEMMA SendStopKeeps ==
  ASSUME WInv, SendStop
  PROVE  WInv'
<1> USE DEF WInv
<1>0. PICK w \in Watchers : w = mpi.w
  BY JobTyped, Typed DEF SendStop, StopKept, Watchers, mpi
<1> DEFINE x == [watchers[w] EXCEPT !.stop = 1, !.helper = "waiting"]
           y == [mpi EXCEPT !.pc = "kill"]
<1>1. /\ mpi.pc = "send" /\ watchers' = [watchers EXCEPT ![w] = x]
      /\ job' = [job EXCEPT !["mpi"] = y]
      /\ UNCHANGED <<os, pidOf, used, pidfile, procs, entry, lock>>
  BY <1>0 DEF SendStop, mpi, LockKept, Actors
<1>2. entry = 0 \/ entry = w
  BY <1>0, <1>1 DEF StopKept
<1>3. watchers[w] \in WatcherType
  BY Typed
<1>4. /\ x \in WatcherType /\ x.proc = watchers[w].proc /\ x.pid = watchers[w].pid
      /\ x.notChild = watchers[w].notChild /\ x.watching = watchers[w].watching
      /\ x.status = watchers[w].status /\ x.select = watchers[w].select
      /\ x.stop = 1 /\ x.helper = "waiting"
  BY <1>3 DEF WatcherType
<1>5. y \in JobType /\ y.pc = "kill" /\ y.p = mpi.p /\ y.w = w
  BY <1>0, JobTyped DEF JobType, JobPlaces
<1> HIDE DEF x, y
<1>6. mpi'.pc = "kill" /\ mpi'.p = mpi.p /\ mpi'.w = w /\ loop' = loop
      /\ job' \in [Actors -> JobType]
  BY <1>1, <1>5, MpiMoves
<1>7. /\ watchers' \in Seq(WatcherType) /\ Len(watchers') = Len(watchers)
      /\ Watchers' = Watchers /\ watchers'[w] = x
      /\ \A v \in Watchers : v # w => watchers'[v] = watchers[v]
  BY <1>1, <1>4, WatcherChange, Typed
<1>8. \A v \in Watchers : /\ Follows(watchers'[v]) <=> Follows(watchers[v])
                          /\ watchers'[v].proc = watchers[v].proc
                          /\ watchers'[v].select = watchers[v].select
  BY <1>1, <1>4, <1>7 DEF Follows
<1>9. Pids' = Pids
  BY <1>1 DEF Pids
<1>10. ProcTypeOK'
  <2>1. watchers' \in Seq(WatcherType')
    BY <1>7, <1>9 DEF WatcherType
  <2>2. JobsTyped'
    BY <1>0, <1>1, <1>6, <1>7 DEF ProcTypeOK, JobsTyped, JobPlaces, Actors, mpi, loop
  <2> QED BY <1>1, <1>7, <1>9, <2>1, <2>2 DEF ProcTypeOK, WatcherType, JobsTyped, JobPlaces
<1>11. UsedKept'
  BY <1>1, <1>7, <1>8, <1>9 DEF UsedKept
<1>12. LockKept'
  BY <1>1, <1>6 DEF LockKept, Stopping
<1>13. EntryKept'
  BY <1>1, <1>7, <1>8 DEF EntryKept
<1>14. \A v \in Watchers' : WatcherKept(v)'
  <2>1. KeptAs(w, watchers[w])'
    <3>1. KeptAs(w, watchers[w])
      BY DEF WatcherKept
    <3> QED BY <1>1, <1>4, <1>6, <1>7, <1>9, <3>1 DEF KeptAs, Follows
  <2>2. \A v \in Watchers : v # w => KeptAs(v, watchers[v])'
    BY <1>1, <1>6, <1>7, <1>9 DEF WatcherKept, KeptAs, Follows
  <2> QED BY <1>7, <2>1, <2>2 DEF WatcherKept, KeptAs
<1>15. OneFollows'
  BY <1>7, <1>8 DEF OneFollows, Follows
<1>16. StopKept'
  BY <1>0, <1>1, <1>2, <1>6 DEF StopKept, Stopping
<1>17. StartKept' /\ LoopKept'
  BY <1>1, <1>6, <1>7, <1>8, <1>9 DEF StartKept, LoopKept, Follows
<1>18. OwnKept'
  BY <1>1, <1>9 DEF OwnKept
<1> QED BY <1>10, <1>11, <1>12, <1>13, <1>14, <1>15, <1>16, <1>17, <1>18

\* The report has left the watcher: nobody follows the process any more.
LEMMA LoopReceivesKeeps ==
  ASSUME WInv, NEW w \in Watchers, LoopReceives(w)
  PROVE  WInv'
<1> USE DEF WInv
<1> DEFINE x == [watchers[w] EXCEPT !.select = "delete"]
           y == [pc |-> "got", p |-> watchers[w].proc, w |-> 0]
<1>1. /\ watchers[w].select = "send" /\ watchers' = [watchers EXCEPT ![w] = x]
      /\ loop.pc = "idle" /\ job' = [job EXCEPT !["loop"] = y]
      /\ UNCHANGED <<os, pidOf, used, pidfile, procs, entry, lock>>
  BY DEF LoopReceives, loop
<1>2. watchers[w] \in WatcherType /\ watchers[w].proc \in used
  BY Typed DEF UsedKept
<1>3. /\ x \in WatcherType /\ x.proc = watchers[w].proc /\ x.pid = watchers[w].pid
      /\ x.notChild = watchers[w].notChild /\ x.watching = watchers[w].watching
      /\ x.status = watchers[w].status /\ x.select = "delete"
      /\ x.stop = watchers[w].stop /\ x.helper = watchers[w].helper
  BY <1>2 DEF WatcherType
<1>4. y \in JobType /\ y.pc = "got" /\ y.p = watchers[w].proc /\ y.w = 0
  BY <1>2 DEF JobType, JobPlaces, WatcherType
<1>5. KeptAs(w, watchers[w])
  BY DEF WatcherKept
<1>6. Follows(watchers[w]) /\ ~Follows(x)
  BY <1>1, <1>2, <1>3, <1>5 DEF KeptAs, Follows, WatcherType
<1> HIDE DEF x, y
<1>7. loop'.pc = "got" /\ loop'.p = watchers[w].proc /\ loop'.w = 0 /\ mpi' = mpi
      /\ job' \in [Actors -> JobType]
  BY <1>1, <1>4, LoopMoves
<1>8. /\ watchers' \in Seq(WatcherType) /\ Len(watchers') = Len(watchers)
      /\ Watchers' = Watchers /\ watchers'[w] = x
      /\ \A v \in Watchers : v # w => watchers'[v] = watchers[v]
  BY <1>1, <1>3, WatcherChange, Typed
<1>9. \A v \in Watchers : ~Follows(watchers'[v]) /\ watchers'[v].proc = watchers[v].proc
  BY <1>3, <1>6, <1>8 DEF OneFollows
<1>10. Pids' = Pids
  BY <1>1 DEF Pids
<1>11. ProcTypeOK'
  <2>1. watchers' \in Seq(WatcherType')
    BY <1>8, <1>10 DEF WatcherType
  <2>2. JobsTyped'
    BY SMTT(30), <1>1, <1>2, <1>7, <1>8, Typed
         DEF ProcTypeOK, JobsTyped, JobPlaces, Actors, mpi, loop
  <2> QED BY <1>1, <1>8, <1>10, <2>1, <2>2 DEF ProcTypeOK, WatcherType, JobsTyped, JobPlaces
<1>12. UsedKept'
  BY <1>1, <1>8, <1>9, <1>10 DEF UsedKept
<1>13. LockKept'
  BY <1>1, <1>2, <1>7 DEF LockKept, Stopping
<1>14. EntryKept'
  BY <1>1, <1>8 DEF EntryKept
<1>15. \A v \in Watchers' : WatcherKept(v)'
  <2>1. \A v \in Watchers : ~watchers'[v].watching /\ watchers'[v].status # 1
    BY <1>9 DEF Follows
  <2> QED BY <1>8, <1>9, <2>1 DEF WatcherKept, KeptAs, Follows
<1>16. OneFollows'
  BY <1>8, <1>9 DEF OneFollows, Follows
<1>17. StopKept'
  BY <1>1, <1>7 DEF StopKept
<1>18. StartKept'
  BY <1>1, <1>7, <1>8, <1>9, <1>10 DEF StartKept
<1>19. LoopKept'
  <2>1. ~watchers[w].watching
    BY <1>1, <1>5 DEF KeptAs
  <2>2. pidOf[watchers[w].proc] \in Pids /\ os[pidOf[watchers[w].proc]].state = "gone"
    BY <1>5, <1>6, <2>1 DEF KeptAs
  <2> QED BY <1>1, <1>7, <1>8, <1>9, <1>10, <2>2 DEF LoopKept, Follows
<1>20. OwnKept'
  BY <1>1, <1>10 DEF OwnKept
<1> QED BY <1>11, <1>12, <1>13, <1>14, <1>15, <1>16, <1>17, <1>18, <1>19, <1>20

-----------------------------------------------------------------------------
(* Processes start.                                                          *)

\* AddProcWatcher while nobody follows the Proc: where it adds a watcher no other
\* follows anything, for the entry of one that does is still in the map.
LEMMA WatcherAdded ==
  ASSUME WInv, NEW p \in used, NEW i, NEW b \in BOOLEAN, AddProcWatcher(p, i, b),
         i \in Pids', pidOf'[p] \in Pids', b \/ i = pidOf'[p], Pids \subseteq Pids',
         \A q \in Procs : q # p => pidOf'[q] = pidOf[q],
         \A j \in Pids : os[j].state = "gone" => os'[j].state = "gone",
         \A w \in Watchers : watchers[w].proc = p => ~Follows(watchers[w]),
         mpi.pc \notin {"kill", "await"}
  PROVE  /\ watchers' \in Seq(WatcherType') /\ entry' \in 0 .. Len(watchers')
         /\ Len(watchers) <= Len(watchers') /\ Len(watchers') \in Nat
         /\ \A w \in Watchers : w \in Watchers' /\ watchers'[w] = watchers[w]
         /\ \A w \in Watchers' \ Watchers : watchers'[w].proc = p
         /\ EntryKept' /\ OneFollows' /\ \A w \in Watchers' : WatcherKept(w)'
<1> USE DEF WInv
<1> DEFINE n == NewWatcher(p, i, b)
<1>0. p \in Procs
  BY DEF ProcTypeOK
<1>1. /\ n \in WatcherType' /\ n.proc = p /\ n.pid = i /\ n.notChild = b /\ n.watching
      /\ n.status = 0 /\ n.stop = 0 /\ n.select = "select" /\ n.helper = "none"
  BY <1>0 DEF NewWatcher, WatcherType
<1>2. watchers \in Seq(WatcherType')
  <2>1. WatcherType \subseteq WatcherType'
    BY DEF WatcherType
  <2> QED BY <2>1, Typed
<1>3. \A w \in Watchers : /\ KeptAs(w, watchers[w]) /\ watchers[w].proc \in Procs
                          /\ Follows(watchers[w]) => watchers[w].proc # p
  BY Typed DEF WatcherKept, WatcherType
<1>4. \A w \in Watchers : Follows(watchers[w]) =>
        /\ watchers[w].stop # 1 /\ watchers[w].select \notin {"delete", "done"}
        /\ entry = w /\ entry # 0
  <2> SUFFICES ASSUME NEW w \in Watchers, Follows(watchers[w])
               PROVE  /\ watchers[w].stop # 1 /\ watchers[w].select \notin {"delete", "done"}
                      /\ entry = w /\ entry # 0
    OBVIOUS
  <2>1. watchers[w].stop # 1 /\ watchers[w].select \notin {"delete", "done"}
    BY <1>3 DEF KeptAs
  <2>2. entry = w
    BY <2>1 DEF EntryKept
  <2> QED BY <2>1, <2>2 DEF Watchers
<1> HIDE DEF n
<1>5. CASE entry # 0
  <2>1. watchers' = watchers /\ entry' = entry /\ Watchers' = Watchers
    BY <1>5 DEF AddProcWatcher, Watchers
  <2>2. \A w \in Watchers' : WatcherKept(w)'
    <3> SUFFICES ASSUME NEW w \in Watchers PROVE WatcherKept(w)'
      BY <2>1
    <3>1. KeptAs(w, watchers[w]) /\ watchers'[w] = watchers[w]
      BY <1>3, <2>1
    <3>2. CASE Follows(watchers[w])
      <4>1. /\ watchers[w].stop # 1 /\ watchers[w].select \notin {"delete", "done"}
            /\ pidOf'[watchers[w].proc] = pidOf[watchers[w].proc]
        BY <1>3, <1>4, <3>2
      <4> QED BY <3>1, <4>1 DEF WatcherKept, KeptAs
    <3>3. CASE ~Follows(watchers[w])
      BY <3>1, <3>3 DEF WatcherKept, KeptAs, Follows
    <3> QED BY <3>2, <3>3
  <2>3. entry' \in 0 .. Len(watchers') /\ Len(watchers') \in Nat
    BY <2>1, Typed DEF ProcTypeOK
  <2>4. EntryKept' /\ OneFollows'
    BY <2>1 DEF EntryKept, OneFollows, Follows
  <2> QED BY <1>2, <2>1, <2>2, <2>3, <2>4
<1>6. CASE entry = 0
  <2>1. watchers' = Append(watchers, n) /\ entry' = Len(watchers) + 1
    BY <1>6 DEF AddProcWatcher, n
  <2>2. /\ watchers' \in Seq(WatcherType') /\ Len(watchers') = Len(watchers) + 1
        /\ Len(watchers) \in Nat /\ watchers'[Len(watchers) + 1] = n
        /\ \A w \in 1 .. Len(watchers) : watchers'[w] = watchers[w]
    BY <1>1, <1>2, <2>1, AppendProperties
  <2>3. /\ \A w \in Watchers : w \in Watchers' /\ watchers'[w] = watchers[w]
        /\ \A w \in Watchers' : w \notin Watchers => w = entry' /\ watchers'[w] = n
        /\ entry' \in Watchers' /\ entry' \notin Watchers
    BY <2>1, <2>2 DEF Watchers
  <2>4. \A w \in Watchers : ~Follows(watchers[w]) /\ watchers[w].select = "done"
    BY <1>4, <1>6 DEF EntryKept, Watchers
  <2>5. EntryKept' /\ OneFollows'
    BY <2>3, <2>4 DEF EntryKept, OneFollows, Follows
  <2>6. \A w \in Watchers' : WatcherKept(w)'
    <3>1. \A w \in Watchers : WatcherKept(w)'
      BY <1>3, <2>3, <2>4 DEF WatcherKept, KeptAs, Follows
    <3>2. \A w \in Watchers' : w \notin Watchers => WatcherKept(w)'
      BY <1>1, <2>3 DEF WatcherKept, KeptAs
    <3> QED BY <3>1, <3>2
  <2>7. /\ Len(watchers) <= Len(watchers') /\ Len(watchers') \in Nat
        /\ entry' \in 0 .. Len(watchers')
    BY <2>1, <2>2
  <2> QED BY <1>1, <2>2, <2>3, <2>5, <2>6, <2>7
<1> QED BY <1>5, <1>6

\* start: a new process, which is the present one of its Proc, and its watcher.
LEMMA StartedKeeps ==
  ASSUME WInv, NEW p \in used, NEW b \in BOOLEAN, Started(p, b),
         \A w \in Watchers : watchers[w].proc = p => ~Follows(watchers[w]),
         mpi.pc \notin {"kill", "await"}
  PROVE  /\ os' \in Seq(ProcessType) /\ Len(os') = Len(os) + 1 /\ Len(os) \in Nat
         /\ \A i \in Pids : i \in Pids' /\ os'[i] = os[i]
         /\ \A i \in Pids' : i \in Pids \/ i = pidfile'
         /\ pidfile' \in Pids' /\ pidfile' \notin Pids /\ os'[pidfile'] = Child(p, b)
         /\ pidOf' \in [Procs -> 0 .. Len(os')] /\ pidOf'[p] = pidfile'
         /\ \A q \in Procs : q # p => pidOf'[q] = pidOf[q]
         /\ watchers' \in Seq(WatcherType') /\ entry' \in 0 .. Len(watchers')
         /\ Len(watchers) <= Len(watchers') /\ Len(watchers') \in Nat
         /\ \A w \in Watchers : w \in Watchers' /\ watchers'[w] = watchers[w]
         /\ \A w \in Watchers' \ Watchers : watchers'[w].proc = p
         /\ EntryKept' /\ OneFollows' /\ \A w \in Watchers' : WatcherKept(w)'
<1>0. p \in Procs
  BY DEF WInv, ProcTypeOK
<1>1. /\ os' = Append(os, Child(p, b)) /\ pidOf' = [pidOf EXCEPT ![p] = Len(os) + 1]
      /\ pidfile' = Len(os) + 1 /\ AddProcWatcher(p, Len(os) + 1, FALSE)
  BY DEF Started
<1>2. Child(p, b) \in ProcessType
  BY <1>0 DEF Child, ProcessType, States
<1>3. os \in Seq(ProcessType) /\ Len(os) \in Nat /\ pidOf \in [Procs -> 0 .. Len(os)]
  BY Typed DEF WInv, ProcTypeOK
<1>4. /\ os' \in Seq(ProcessType) /\ Len(os') = Len(os) + 1 /\ os'[Len(os) + 1] = Child(p, b)
      /\ \A i \in 1 .. Len(os) : os'[i] = os[i]
  BY <1>1, <1>2, <1>3, AppendProperties
<1>5. /\ \A i \in Pids : i \in Pids' /\ os'[i] = os[i]
      /\ \A i \in Pids' : i \in Pids \/ i = pidfile'
      /\ pidfile' \in Pids' /\ pidfile' \notin Pids /\ os'[pidfile'] = Child(p, b)
  BY <1>1, <1>3, <1>4 DEF Pids
<1>6. /\ pidOf' \in [Procs -> 0 .. Len(os')] /\ pidOf'[p] = pidfile'
      /\ \A q \in Procs : q # p => pidOf'[q] = pidOf[q]
  BY <1>0, <1>1, <1>3, <1>4
<1>7. /\ watchers' \in Seq(WatcherType') /\ entry' \in 0 .. Len(watchers')
      /\ Len(watchers) <= Len(watchers') /\ Len(watchers') \in Nat
      /\ \A w \in Watchers : w \in Watchers' /\ watchers'[w] = watchers[w]
      /\ \A w \in Watchers' \ Watchers : watchers'[w].proc = p
      /\ EntryKept' /\ OneFollows' /\ \A w \in Watchers' : WatcherKept(w)'
  <2>1. AddProcWatcher(p, pidfile', FALSE)
    BY <1>1
  <2>2. PICK i : i = pidfile'
    OBVIOUS
  <2>3. /\ AddProcWatcher(p, i, FALSE) /\ i \in Pids'
        /\ pidOf'[p] \in Pids' /\ i = pidOf'[p]
        /\ Pids \subseteq Pids'
        /\ \A j \in Pids : os[j].state = "gone" => os'[j].state = "gone"
    BY <1>5, <1>6, <2>1, <2>2
  <2> QED BY <1>6, <2>3, WatcherAdded
<1> QED BY <1>3, <1>4, <1>5, <1>6, <1>7

\* A start that does not come to a process, and the end of the method.
LEMMA MpiEnds ==
  ASSUME WInv, mpi.pc \in {"start", "restore"}, lock = "free", lock' = "free",
         job' = [job EXCEPT !["mpi"] = Rest],
         UNCHANGED <<os, pidOf, used, pidfile, procs, entry, watchers>>
  PROVE  WInv'
<1> USE DEF WInv
<1>1. /\ mpi'.pc = "idle" /\ mpi'.p = NoProc /\ mpi'.w = 0 /\ loop' = loop
      /\ job' \in [Actors -> JobType]
  BY JobTyped, MpiMoves
<1>2. ProcTypeOK'
  BY <1>1, Typed DEF ProcTypeOK, mpi, loop, Actors, Pids
<1>3. UsedKept' /\ EntryKept' /\ OneFollows' /\ OwnKept'
  BY DEF UsedKept, EntryKept, OneFollows, OwnKept, Pids, Watchers
<1>4. LockKept'
  BY <1>1 DEF LockKept, Stopping
<1>5. \A v \in Watchers' : WatcherKept(v)'
  BY <1>1 DEF WatcherKept, KeptAs, Follows, Watchers, Pids
<1>6. StopKept' /\ StartKept' /\ LoopKept'
  BY <1>1 DEF StopKept, Stopping, StartKept, LoopKept, Watchers, Pids
<1> QED BY <1>2, <1>3, <1>4, <1>5, <1>6

\* The new process is the present one of the Proc that is registered.
LEMMA StartProcessKeeps ==
  ASSUME WInv, StartProcess
  PROVE  WInv'
<1> USE ProcsAssumption DEF WInv
<1> DEFINE p == mpi.p
<1>1. /\ mpi.pc = "start" /\ lock = "free" /\ lock' = "free" /\ used' = used
      /\ job' = [job EXCEPT !["mpi"] = Rest]
  BY DEF StartProcess, Return, mpi
<1>2. CASE UNCHANGED <<os, pidOf, pidfile, procs, entry, watchers>>
  BY <1>1, <1>2, MpiEnds
<1>3. CASE procs = NoProc /\ Started(p, FALSE) /\ procs' = p
  <2>1. PICK q \in used : q = p
    BY <1>1 DEF LockKept
  <2>2. /\ \A w \in Watchers : watchers[w].proc # q
        /\ \A i \in Pids : os[i].owner # q
        /\ loop.pc # "idle" => loop.p # q
    BY <1>1, <2>1 DEF StartKept
  <2>3. /\ os' \in Seq(ProcessType) /\ Len(os') = Len(os) + 1 /\ Len(os) \in Nat
        /\ \A i \in Pids : i \in Pids' /\ os'[i] = os[i]
        /\ \A i \in Pids' : i \in Pids \/ i = pidfile'
        /\ pidfile' \in Pids' /\ pidfile' \notin Pids /\ os'[pidfile'] = Child(q, FALSE)
        /\ pidOf' \in [Procs -> 0 .. Len(os')] /\ pidOf'[q] = pidfile'
        /\ \A r \in Procs : r # q => pidOf'[r] = pidOf[r]
        /\ watchers' \in Seq(WatcherType') /\ entry' \in 0 .. Len(watchers')
        /\ Len(watchers) <= Len(watchers') /\ Len(watchers') \in Nat
        /\ \A w \in Watchers : w \in Watchers' /\ watchers'[w] = watchers[w]
        /\ \A w \in Watchers' \ Watchers : watchers'[w].proc = q
        /\ EntryKept' /\ OneFollows' /\ \A w \in Watchers' : WatcherKept(w)'
    <3>1. Started(q, FALSE)
      BY <1>3, <2>1
    <3>2. \A w \in Watchers : watchers[w].proc = q => ~Follows(watchers[w])
      BY <2>2
    <3>3. WInv /\ mpi.pc \notin {"kill", "await"}
      BY <1>1
    <3> HIDE DEF WInv
    <3> QED BY <3>1, <3>2, <3>3, StartedKeeps
  <2>4. /\ mpi'.pc = "idle" /\ mpi'.p = NoProc /\ mpi'.w = 0 /\ loop' = loop
        /\ job' \in [Actors -> JobType]
    BY <1>1, JobTyped, MpiMoves
  <2>5. procs' = q /\ q \in Procs /\ used' = used /\ used \subseteq Procs
    BY <1>1, <1>3, <2>1 DEF ProcTypeOK
  <2>6. Child(q, FALSE).owner = q /\ Child(q, FALSE).child /\ ~Child(q, FALSE).again
    BY DEF Child
  <2>7. ProcTypeOK'
    <3>1. JobsTyped'
      BY <1>1, <2>3, <2>4, Typed, MpiIdleTyped
    <3>2. pidfile' \in 0 .. Len(os')
      BY <2>3 DEF Pids
    <3> QED BY <1>1, <2>3, <2>5, <3>1, <3>2 DEF ProcTypeOK, WatcherType, ProcessType,
                   JobsTyped, JobPlaces
  <2>8. UsedKept'
    <3>1. \A w \in Watchers' : watchers'[w].proc \in used
      BY <2>3 DEF UsedKept
    <3>2. \A i \in Pids' : os'[i].owner \in used
      <4>1. os'[pidfile'].owner = q
        BY <2>3, <2>6
      <4>2. \A i \in Pids : os'[i].owner \in used
        BY <2>3 DEF UsedKept
      <4>3. \A i \in Pids' : i \in Pids \/ i = pidfile'
        BY <2>3
      <4> QED BY <4>1, <4>2, <4>3
    <3>3. \A r \in Procs : pidOf'[r] # 0 => r \in used
      BY <2>3 DEF UsedKept
    <3> QED BY <2>5, <3>1, <3>2, <3>3 DEF UsedKept
  <2>9. LockKept'
    BY <1>1, <2>4, <2>5 DEF LockKept, Stopping
  <2>10. StopKept' /\ StartKept'
    BY <2>4 DEF StopKept, Stopping, StartKept
  <2>11. LoopKept'
    <3>1. loop.pc # "idle" => loop.p \in Procs /\ loop.p # q
      BY <2>2, <2>5 DEF LockKept
    <3>2. loop.pc # "idle" => pidOf'[loop.p] = pidOf[loop.p]
      BY <2>3, <3>1
    <3>3. ASSUME loop.pc # "idle"
          PROVE  pidOf'[loop.p] \in Pids' /\ os'[pidOf'[loop.p]].state = "gone"
      BY <2>3, <3>2, <3>3 DEF LoopKept
    <3>4. ASSUME loop.pc # "idle", NEW w \in Watchers', watchers'[w].proc = loop.p
          PROVE  ~Follows(watchers'[w])
      <4>1. w \in Watchers
        BY <2>3, <3>1, <3>4
      <4> QED BY <2>3, <3>4, <4>1 DEF LoopKept
    <3> QED BY <2>4, <3>3, <3>4 DEF LoopKept
  <2>12. OwnKept'
    <3>1. \A i \in Pids : ~(os[i].state = "running" /\ os[i].child /\ ~os[i].again)
      BY <1>3, Typed DEF OwnKept, UsedKept, StartKept, ProcessType, ProcTypeOK
    <3> QED BY <2>3, <2>5, <2>6, <3>1 DEF OwnKept
  <2> QED BY <2>3, <2>7, <2>8, <2>9, <2>10, <2>11, <2>12
<1> QED BY <1>2, <1>3 DEF StartProcess, NotStarted, mpi

\* The process of an earlier run is watched again.
LEMMA RestoreProcessKeeps ==
  ASSUME WInv, RestoreProcess
  PROVE  WInv'
<1> USE ProcsAssumption DEF WInv
<1> DEFINE p == mpi.p
<1>1. /\ mpi.pc = "restore" /\ lock = "free" /\ lock' = "free"
      /\ job' = [job EXCEPT !["mpi"] = Rest] /\ UNCHANGED <<os, pidOf, used, pidfile>>
  BY DEF RestoreProcess, Return, mpi
<1>2. CASE UNCHANGED <<procs, entry, watchers>>
  BY <1>1, <1>2, MpiEnds
<1>3. CASE procs = NoProc /\ AddProcWatcher(p, pidOf[p], TRUE) /\ procs' = p
  <2>1. PICK q \in used : q = p
    BY <1>1 DEF LockKept
  <2>2. /\ \A w \in Watchers : watchers[w].proc # q
        /\ loop.pc # "idle" => loop.p # q
        /\ pidOf[q] # 0 /\ q \in Procs
    BY <1>1, <2>1 DEF StartKept, ProcTypeOK
  <2>3. /\ watchers' \in Seq(WatcherType') /\ entry' \in 0 .. Len(watchers')
        /\ Len(watchers) <= Len(watchers') /\ Len(watchers') \in Nat
        /\ \A w \in Watchers : w \in Watchers' /\ watchers'[w] = watchers[w]
        /\ \A w \in Watchers' \ Watchers : watchers'[w].proc = q
        /\ EntryKept' /\ OneFollows' /\ \A w \in Watchers' : WatcherKept(w)'
    <3>1. PICK i : i = pidOf[q]
      OBVIOUS
    <3>2. AddProcWatcher(q, i, TRUE)
      BY <1>3, <2>1, <3>1
    <3>3. i \in Pids' /\ pidOf'[q] \in Pids' /\ Pids \subseteq Pids'
      BY <1>1, <2>2, <3>1, Typed DEF Pids
    <3>4. /\ \A r \in Procs : r # q => pidOf'[r] = pidOf[r]
          /\ \A j \in Pids : os[j].state = "gone" => os'[j].state = "gone"
          /\ \A w \in Watchers : watchers[w].proc = q => ~Follows(watchers[w])
          /\ WInv /\ mpi.pc \notin {"kill", "await"}
      BY <1>1, <2>2
    <3> HIDE DEF WInv
    <3> QED BY <3>2, <3>3, <3>4, WatcherAdded
  <2>4. /\ mpi'.pc = "idle" /\ mpi'.p = NoProc /\ mpi'.w = 0 /\ loop' = loop
        /\ job' \in [Actors -> JobType]
    BY <1>1, JobTyped, MpiMoves
  <2>5. procs' = q /\ Pids' = Pids /\ used \subseteq Procs
    BY <1>1, <1>3, <2>1 DEF ProcTypeOK, Pids
  <2>6. ProcTypeOK'
    <3>1. JobsTyped'
      BY <1>1, <2>3, <2>4, Typed, MpiIdleTyped
    <3> QED BY <1>1, <2>2, <2>3, <2>5, <3>1 DEF ProcTypeOK, WatcherType, ProcessType,
                   JobsTyped, JobPlaces
  <2>7. UsedKept'
    <3>1. \A w \in Watchers' : watchers'[w].proc \in used
      BY <2>3 DEF UsedKept
    <3> QED BY <1>1, <2>5, <3>1 DEF UsedKept
  <2>8. LockKept'
    BY <1>1, <2>4 DEF LockKept, Stopping
  <2>9. StopKept' /\ StartKept'
    BY <2>4 DEF StopKept, Stopping, StartKept
  <2>10. LoopKept'
    BY <1>1, <2>2, <2>3, <2>4, <2>5 DEF LoopKept, Follows
  <2>11. OwnKept'
    <3>1. \A i \in Pids : ~(os[i].state = "running" /\ os[i].child /\ ~os[i].again)
      BY <1>3, Typed DEF OwnKept, UsedKept, StartKept, ProcessType, ProcTypeOK
    <3> QED BY <1>1, <2>5, <3>1 DEF OwnKept
  <2> QED BY <2>3, <2>6, <2>7, <2>8, <2>9, <2>10, <2>11
<1> QED BY <1>2, <1>3 DEF RestoreProcess, mpi

\* The Proc is dead and not watched: its next process takes its place.
LEMMA RestartEndsKeeps ==
  ASSUME WInv, RestartEnds
  PROVE  WInv'
<1> USE DEF WInv
<1>1. /\ loop.pc = "start" /\ lock = "loop" /\ lock' = "free" /\ UNCHANGED <<used, procs>>
      /\ job' = [job EXCEPT !["loop"] = Rest] /\ mpi.pc \in {"idle", "start", "restore"}
  BY DEF RestartEnds, Return, loop, LockKept, Stopping
<1>2. /\ loop'.pc = "idle" /\ loop'.p = NoProc /\ loop'.w = 0 /\ mpi' = mpi
      /\ job' \in [Actors -> JobType]
  BY <1>1, JobTyped, LoopMoves
<1>3. LockKept'
  BY <1>1, <1>2 DEF LockKept, Stopping
<1>4. CASE UNCHANGED <<os, pidOf, pidfile, entry, watchers>>
  <2>1. ProcTypeOK'
    BY <1>1, <1>2, <1>4, Typed DEF ProcTypeOK, mpi, loop, Actors, Pids
  <2>2. UsedKept' /\ EntryKept' /\ OneFollows' /\ OwnKept'
    BY <1>1, <1>4 DEF UsedKept, EntryKept, OneFollows, OwnKept, Pids, Watchers
  <2>3. \A v \in Watchers' : WatcherKept(v)'
    BY <1>2, <1>4 DEF WatcherKept, KeptAs, Follows, Watchers, Pids
  <2>4. StopKept' /\ StartKept' /\ LoopKept'
    BY <1>1, <1>2, <1>4 DEF StopKept, Stopping, StartKept, LoopKept, Watchers, Pids
  <2> QED BY <1>3, <2>1, <2>2, <2>3, <2>4
<1>5. CASE Started(loop.p, TRUE)
  <2>1. PICK q \in used : q = loop.p
    BY <1>1 DEF LockKept
  <2>2. /\ \A w \in Watchers : watchers[w].proc = q => ~Follows(watchers[w])
        /\ pidOf[q] \in Pids /\ os[pidOf[q]].state = "gone"
    BY <1>1, <2>1 DEF LoopKept
  <2>3. /\ os' \in Seq(ProcessType) /\ Len(os') = Len(os) + 1 /\ Len(os) \in Nat
        /\ \A i \in Pids : i \in Pids' /\ os'[i] = os[i]
        /\ \A i \in Pids' : i \in Pids \/ i = pidfile'
        /\ pidfile' \in Pids' /\ pidfile' \notin Pids /\ os'[pidfile'] = Child(q, TRUE)
        /\ pidOf' \in [Procs -> 0 .. Len(os')] /\ pidOf'[q] = pidfile'
        /\ \A r \in Procs : r # q => pidOf'[r] = pidOf[r]
        /\ watchers' \in Seq(WatcherType') /\ entry' \in 0 .. Len(watchers')
        /\ Len(watchers) <= Len(watchers') /\ Len(watchers') \in Nat
        /\ \A w \in Watchers : w \in Watchers' /\ watchers'[w] = watchers[w]
        /\ \A w \in Watchers' \ Watchers : watchers'[w].proc = q
        /\ EntryKept' /\ OneFollows' /\ \A w \in Watchers' : WatcherKept(w)'
    <3>1. Started(q, TRUE) /\ WInv /\ mpi.pc \notin {"kill", "await"}
      BY <1>1, <1>5, <2>1
    <3> HIDE DEF WInv
    <3> QED BY <2>2, <3>1, StartedKeeps
  <2>4. q \in Procs /\ used \subseteq Procs
    BY DEF ProcTypeOK
  <2>5. Child(q, TRUE).owner = q /\ Child(q, TRUE).again
    BY DEF Child
  <2>6. ProcTypeOK'
    <3>1. JobsTyped'
      BY SMTT(30), <1>1, <1>2, <2>3, Typed
         DEF ProcTypeOK, JobsTyped, JobPlaces, Actors, mpi, loop
    <3>2. pidfile' \in 0 .. Len(os')
      BY <2>3 DEF Pids
    <3> QED BY <1>1, <2>3, <3>1, <3>2 DEF ProcTypeOK, WatcherType, ProcessType,
                   JobsTyped, JobPlaces
  <2>7. UsedKept'
    <3>1. \A w \in Watchers' : watchers'[w].proc \in used
      BY <2>3 DEF UsedKept
    <3>2. \A i \in Pids' : os'[i].owner \in used
      <4>1. os'[pidfile'].owner = q
        BY <2>3, <2>5
      <4>2. \A i \in Pids : os'[i].owner \in used
        BY <2>3 DEF UsedKept
      <4> QED BY <2>3, <4>1, <4>2
    <3>3. \A r \in Procs : pidOf'[r] # 0 => r \in used
      BY <2>3 DEF UsedKept
    <3> QED BY <1>1, <3>1, <3>2, <3>3 DEF UsedKept
  <2>8. StopKept' /\ LoopKept'
    BY <1>1, <1>2 DEF StopKept, Stopping, LoopKept
  <2>9. StartKept'
    <3> SUFFICES ASSUME mpi.pc \in {"start", "restore"} PROVE StartKept'
      BY <1>2 DEF StartKept
    <3>1. mpi.p \in Procs /\ mpi.p # q
      BY <1>1, <2>1, <2>4 DEF StartKept, LockKept
    <3>2. \A w \in Watchers' : watchers'[w].proc # mpi.p
      BY <2>3, <3>1 DEF StartKept
    <3>3. \A i \in Pids' : os'[i].owner # mpi.p
      <4>1. os'[pidfile'].owner = q
        BY <2>3, <2>5
      <4>2. \A i \in Pids : os'[i].owner # mpi.p
        BY <2>3 DEF StartKept
      <4>3. \A i \in Pids' : i \in Pids \/ i = pidfile'
        BY <2>3
      <4> QED BY <3>1, <4>1, <4>2, <4>3
    <3>4. pidOf'[mpi.p] = pidOf[mpi.p]
      BY <2>3, <3>1
    <3> QED BY <1>1, <1>2, <3>2, <3>3, <3>4 DEF StartKept
  <2>10. OwnKept'
    <3>1. \A i \in Pids : os[i].state = "running" /\ os[i].child /\ ~os[i].again =>
            procs = os[i].owner /\ procs \in Procs /\ pidOf[procs] = i /\ procs # q
      BY <2>2, Typed DEF OwnKept, ProcessType
    <3>2. os'[pidfile'].again
      BY <2>3, <2>5
    <3>3. \A i \in Pids' : i # pidfile' => i \in Pids /\ os'[i] = os[i]
      BY <2>3
    <3>4. procs \in Procs /\ procs # q => pidOf'[procs] = pidOf[procs]
      BY <2>3
    <3> QED BY <1>1, <3>1, <3>2, <3>3, <3>4 DEF OwnKept
  <2> QED BY <1>3, <2>3, <2>6, <2>7, <2>8, <2>9, <2>10
<1> QED BY <1>4, <1>5 DEF RestartEnds, NotStarted, loop

-----------------------------------------------------------------------------
(* The theorem.                                                              *)

LEMMA WatcherInit ==
  ASSUME ProcInit
  PROVE  WInv
<1>1. os \in Seq(ProcessType) /\ watchers \in Seq(WatcherType) /\ Pids = {} /\ Watchers = {}
      /\ Len(os) = 0 /\ Len(watchers) = 0
  BY DEF ProcInit, Pids, Watchers
<1>2. /\ job \in [Actors -> JobType]
      /\ \A a \in Actors : job[a].pc = "idle" /\ job[a].p = NoProc /\ job[a].w = 0
  BY DEF ProcInit, Rest, JobType, JobPlaces
<1>3. mpi.pc = "idle" /\ loop.pc = "idle"
  BY <1>2 DEF Actors, mpi, loop
<1>4. ProcTypeOK
  BY <1>1, <1>2 DEF ProcInit, ProcTypeOK, ProcessType, WatcherType
<1>5. UsedKept /\ EntryKept /\ OneFollows /\ OwnKept /\ \A w \in Watchers : WatcherKept(w)
  BY <1>1 DEF ProcInit, UsedKept, EntryKept, OneFollows, OwnKept
<1>6. LockKept
  BY <1>2, <1>3 DEF ProcInit, LockKept, Stopping
<1>7. StopKept /\ StartKept /\ LoopKept
  BY <1>3 DEF StopKept, Stopping, StartKept, LoopKept
<1> QED BY <1>4, <1>5, <1>6, <1>7 DEF WInv

LEMMA WatcherNext ==
  ASSUME WInv, [ProcNext]_procVars
  PROVE  WInv'
<1>1. ASSUME UNCHANGED procVars PROVE WInv'
  <2> USE <1>1 DEF procVars, WInv
  <2>1. mpi' = mpi /\ loop' = loop /\ Pids' = Pids /\ Watchers' = Watchers
    BY DEF mpi, loop, Pids, Watchers
  <2>2. ProcTypeOK' /\ UsedKept' /\ LockKept' /\ EntryKept' /\ OneFollows'
    BY <2>1 DEF ProcTypeOK, UsedKept, LockKept, EntryKept, OneFollows
  <2>3. \A w \in Watchers' : WatcherKept(w)'
    BY <2>1 DEF WatcherKept, KeptAs
  <2>4. StopKept' /\ StartKept' /\ LoopKept' /\ OwnKept'
    BY <2>1 DEF StopKept, StartKept, LoopKept, OwnKept
  <2> QED BY <2>2, <2>3, <2>4
<1>2. ASSUME NEW p \in Procs, MpiStart(p) PROVE WInv'
  BY <1>2, MpiStartKeeps
<1>3. ASSUME StopProcess PROVE WInv'
  BY <1>3, StopProcessKeeps
<1>4. ASSUME Mpi PROVE WInv'
  BY <1>4, StartProcessKeeps, RestoreProcessKeeps, NotifyKeeps, SendStopKeeps, KillKeeps,
     AwaitKeeps, StopProcessEndsKeeps DEF Mpi
<1>5. ASSUME WatchProcs PROVE WInv'
  BY <1>5, LoopUpdatesStatusKeeps, LoopRestartsKeeps, RestartEndsKeeps DEF WatchProcs
<1>6. ASSUME NEW w \in Watchers, Watcher(w) \/ LoopReceives(w) PROVE WInv'
  BY <1>6, WatchReturnsKeeps, SelectStatusKeeps, SelectStopKeeps, DeleteEntryKeeps,
     HelperReceivesKeeps, LoopReceivesKeeps DEF Watcher
<1>7. ASSUME NEW i \in Pids, ProcessDies(i) PROVE WInv'
  BY <1>7, ProcessDiesKeeps
<1>8. ASSUME Crash PROVE WInv'
  BY <1>8, CrashKeeps
<1> QED BY <1>1, <1>2, <1>3, <1>4, <1>5, <1>6, <1>7, <1>8 DEF ProcNext

\* What the run checks follows.
LEMMA WatcherImplies ==
  ASSUME WInv
  PROVE  WatcherInv
<1> USE DEF WInv
<1>1. RestartedIsDead
  BY Typed DEF RestartedIsDead, LoopKept, loop, IsAlive, AlivePid
<1>2. WatchedOnce
  BY DEF WatchedOnce, OneFollows, Follows
<1>3. StopStops
  BY Typed DEF StopStops, OwnKept, ProcessType
<1> QED BY <1>1, <1>2, <1>3 DEF WatcherInv

\* Whatever processes die, starts fail and daemons crash, and however StopProcess and
\* the goroutines of old watchers interleave: no process is waited for twice
\* (procwatcher.go:332-335), WatchProcs restarts only dead ones (409-428), and
\* StopProcess ends the one that StartProcess started.
THEOREM WatchersAlwaysRight ==
  ProcSpec => []WatcherInv
<1>1. ProcInit => WInv
  BY WatcherInit
<1>2. WInv /\ [ProcNext]_procVars => WInv'
  BY WatcherNext
<1>3. WInv => WatcherInv
  BY WatcherImplies
<1> QED BY <1>1, <1>2, <1>3, PTL DEF ProcSpec

===============================================================================
