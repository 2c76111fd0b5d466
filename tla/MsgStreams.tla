----------------------------- MODULE MsgStreams -----------------------------
(***************************************************************************)
(* The two controllers that carry messages over GRPC streams: the message  *)
(* server (controllers/grpcmessageserver.go), which copies every message   *)
(* to a queue of each stream, and the server of a plugin (controllers/     *)
(* mpi.go), whose streams all take from the one receive queue.  Their      *)
(* Start, Stop, work and Messenger are otherwise the same, so a behaviour  *)
(* is that of one of them, chosen in Init.                                 *)
(*                                                                         *)
(* External: the message router that fills rcvQ, the peers, and the GRPC   *)
(* library.  Server.Stop of this library closes the connections and does   *)
(* not wait for their handlers.  Outgoing messages are numbered in the     *)
(* order in which the router adds them and have IDs of their own.          *)
(***************************************************************************)
EXTENDS Integers, SequencesExt, QueueOps

CONSTANTS Servers,  \* "grpc", "mpi", or both
          Streams,  \* calls of Messenger, one for each stream a peer opens
          MaxMsgs,  \* bound: messages the router adds to rcvQ
          BadOf,    \* those that ConvertToExternalFormat refuses, for each server
          Inbound,  \* messages of the peers
          Envelopes, \* what a peer of each server may send at once, less what has
                     \* no internal form
          None

ASSUME StreamsAssumption ==
  /\ Servers \subseteq {"grpc", "mpi"} /\ MaxMsgs \in Nat
  /\ BadOf \in [Servers -> SUBSET (1 .. MaxMsgs)]
  /\ DOMAIN Envelopes = Servers
  /\ \A x \in Servers : Envelopes[x] \subseteq Seq(Inbound)
  /\ None \notin Streams \cup 1 .. MaxMsgs

VARIABLES server,   \* which of the two controllers this is
          stop,     \* how far Stop is; it holds d.mu until it is done or panics
          serve,    \* what work has made of the GRPC server
          added,    \* how many messages the router has added
          rcvQ, sndQ,
          caster,   \* the goroutine that copies messages to the streams
          casts,    \* how many messages it has copied (history)
          streamQs, \* the registered streams, in order
          sQCount,  \* the ID of the next stream queue
          st        \* the streams

vars == <<server, stop, serve, added, rcvQ, sndQ, caster, casts, streamQs,
          sQCount, st>>

MuFree == stop \in {"no", "done", "panicked"}
Killed == stop \notin {"no", "queues"}

\* inbox: what is left of the envelope received last.
\* since: messages copied before the stream was registered (history).
\* afterwards: envelopes given to the library after the call ended (history).
NoStream == [id |-> -1, recv |-> "none", inbox |-> <<>>, send |-> "none", q |-> NewQueue,
             left |-> 0, env |-> <<>>, sent |-> <<>>, since |-> 0, broken |-> FALSE,
             afterwards |-> 0]

Init ==
  /\ server \in Servers /\ stop = "no" /\ serve = "off" /\ added = 0
  /\ rcvQ = NewQueue /\ sndQ = NewQueue
  /\ caster = [pc |-> IF server = "grpc" THEN "get" ELSE "none", msg |-> None]
  /\ casts = 0 /\ streamQs = <<>> /\ sQCount = 0 /\ st = [s \in Streams |-> NoStream]

-----------------------------------------------------------------------------
(* The life of the server.                                                   *)

\* The router adds the next message to the receive queue.
Route ==
  /\ added < MaxMsgs /\ added' = added + 1 /\ rcvQ' = QAdd(rcvQ, added + 1)
  /\ UNCHANGED <<server, stop, serve, sndQ, caster, casts, streamQs, sQCount, st>>

\* It takes a message of the peers from the send queue and is done with it.
RouterTakes ==
  /\ sndQ.items # <<>> /\ sndQ' = QDone(QTake(sndQ), Head(sndQ.items))
  /\ UNCHANGED <<server, stop, serve, added, rcvQ, caster, casts, streamQs,
                 sQCount, st>>

Serves(next) ==
  /\ serve' = next
  /\ UNCHANGED <<server, stop, added, rcvQ, sndQ, caster, casts, streamQs, sQCount, st>>

\* work: without a port, or without its certificates, there is no server.  The
\* certificates are read when the port is taken, and nobody closes it ("leaked").
Listen == serve = "off" /\ \E next \in {"failed", "leaked", "made"} : Serves(next)

\* Serve gives up at once if Server.Stop came first.
Serve ==
  \/ serve = "made" /\ Serves("serving")
  \/ serve = "stopped" /\ Serves("ended")

StopQueues ==
  /\ stop = "no" /\ stop' = "queues"
  /\ rcvQ' = QShutDown(rcvQ) /\ sndQ' = QShutDown(sndQ)
  /\ UNCHANGED <<server, serve, added, caster, casts, streamQs, sQCount, st>>

StopKill ==
  /\ stop = "queues" /\ stop' = "killed"
  /\ UNCHANGED <<server, serve, added, rcvQ, sndQ, caster, casts, streamQs,
                 sQCount, st>>

\* Stop of a plugin stops its process first.  StopProcess returns, waits for ever, or
\* is called on a nil procMaster, which Start did not get to; the panic unlocks d.mu.
StopPlugin ==
  /\ server = "mpi" /\ stop = "killed" /\ stop' \in {"exited", "stuck", "panicked"}
  /\ UNCHANGED <<server, serve, added, rcvQ, sndQ, caster, casts, streamQs,
                 sQCount, st>>

ProcessStopped == stop = IF server = "mpi" THEN "exited" ELSE "killed"

\* Mutant of StopServer: the GRPC server is not stopped.
StopKeepsServer ==
  /\ ProcessStopped /\ stop' = "done"
  /\ UNCHANGED <<server, serve, added, rcvQ, sndQ, caster, casts, streamQs,
                 sQCount, st>>

\* Stop reads grpcServer, which work may not have stored yet; "missed" is then
\* the state of Stop.  The streams of a server that is stopped are broken.
StopServer ==
  /\ ProcessStopped /\ stop' = "done"
  /\ serve' = CASE serve = "made" -> "stopped" [] serve = "serving" -> "ended"
                [] serve = "off" -> "missed" [] OTHER -> serve
  /\ st' = [s \in Streams |->
              IF st[s].recv = "none" THEN st[s] ELSE [st[s] EXCEPT !.broken = TRUE]]
  /\ UNCHANGED <<server, added, rcvQ, sndQ, caster, casts, streamQs, sQCount>>

\* work of a server that Stop has missed: it listens and serves all the same.
ServeMissed ==
  \/ /\ serve = "missed"
     /\ \E next \in {"failed", "leaked", "missed made"} : Serves(next)
  \/ serve = "missed made" /\ Serves("missed serving")

-----------------------------------------------------------------------------
(* The goroutine of the message server that copies messages to all streams. *)

\* The goroutine is at the select or in Get; with killChan closed it may yet have
\* looked at it or not.
CastGet ==
  /\ caster.pc = "get"
  /\ \/ /\ rcvQ.items # <<>>
        /\ caster' = [pc |-> "cast", msg |-> Head(rcvQ.items)] /\ rcvQ' = QTake(rcvQ)
     \/ /\ Killed \/ (rcvQ.items = <<>> /\ rcvQ.closed)
        /\ caster' = [caster EXCEPT !.pc = "exited"] /\ rcvQ' = rcvQ
  /\ UNCHANGED <<server, stop, serve, added, sndQ, casts, streamQs, sQCount, st>>

\* Under d.mu, for reading.
Cast ==
  /\ caster.pc = "cast" /\ MuFree
  /\ caster' = [pc |-> "get", msg |-> None] /\ casts' = caster.msg
  /\ rcvQ' = QDone(rcvQ, caster.msg)
  /\ st' = [s \in Streams |-> IF s \in Elems(streamQs)
                               THEN [st[s] EXCEPT !.q = QAdd(@, caster.msg)] ELSE st[s]]
  /\ UNCHANGED <<server, stop, serve, added, sndQ, streamQs, sQCount>>

-----------------------------------------------------------------------------
(* Messenger, the call: registration, the receive loop, its defers.          *)

Becomes(s, r) ==
  /\ st' = [st EXCEPT ![s] = r]
  /\ UNCHANGED <<server, stop, serve, added, rcvQ, sndQ, caster, casts, streamQs,
                 sQCount>>

\* What the receive loop does next.
Loop == IF Killed THEN "leave" ELSE "recv"

\* The library calls Messenger for a new stream.
Open(s) ==
  /\ st[s].recv = "none" /\ serve \in {"serving", "missed serving"}
  /\ Becomes(s, IF server = "grpc" THEN [st[s] EXCEPT !.recv = "lock"]
                ELSE [st[s] EXCEPT !.recv = Loop, !.send = "tick"])

Register(s) ==
  /\ st[s].recv = "lock" /\ MuFree
  /\ st' = [st EXCEPT ![s] = [@ EXCEPT !.id = sQCount, !.recv = Loop, !.send = "tick",
                                       !.since = casts]]
  /\ sQCount' = sQCount + 1 /\ streamQs' = Append(streamQs, s)
  /\ UNCHANGED <<server, stop, serve, added, rcvQ, sndQ, caster, casts>>

\* What it does with the messages of an envelope that are left.
After(inbox) == IF inbox = <<>> THEN Loop ELSE "take"

Receive(s) ==
  /\ st[s].recv = "recv" /\ ~st[s].broken
  /\ \E env \in Envelopes[server] :
       Becomes(s, [st[s] EXCEPT !.recv = After(env), !.inbox = env])

\* An envelope is taken message by message into the daemon.
Take(s) ==
  /\ st[s].recv = "take"
  /\ LET rest == Tail(st[s].inbox)
     IN st' = [st EXCEPT ![s] = [@ EXCEPT !.recv = After(rest), !.inbox = rest]]
  /\ sndQ' = QAdd(sndQ, Head(st[s].inbox))
  /\ UNCHANGED <<server, stop, serve, added, rcvQ, caster, casts, streamQs, sQCount>>

\* The call returns; that of the message server first shuts its queue down.
Returned(r) ==
  IF server = "grpc" THEN [r EXCEPT !.recv = "remove", !.q = QShutDown(@)]
  ELSE [r EXCEPT !.recv = "gone", !.broken = TRUE]

\* Mutant of RecvEnds: an error is logged and the loop goes on.
RecvEndsOnlyByEOF(s) ==
  \/ st[s].recv = "recv" /\ ~st[s].broken /\ Becomes(s, Returned(st[s]))
  \/ st[s].recv = "leave" /\ Becomes(s, Returned(st[s]))

\* The peer closes its side, the stream breaks, or killChan is closed.
RecvEnds(s) == st[s].recv \in {"recv", "leave"} /\ Becomes(s, Returned(st[s]))

\* Mutant of Position: the first queue is taken out, whatever its ID.
AnyPosition(s) == 1

\* The place of the first queue with the ID of the stream.
Position(s) == SelectInSeq(streamQs, LAMBDA t : st[t].id = st[s].id)

Deregister(s) ==
  /\ st[s].recv = "remove" /\ MuFree
  /\ streamQs' = RemoveAt(streamQs, Position(s))
  /\ st' = [st EXCEPT ![s] = [@ EXCEPT !.recv = "gone", !.broken = TRUE]]
  /\ UNCHANGED <<server, stop, serve, added, rcvQ, sndQ, caster, casts, sQCount>>

Messenger(s) == Register(s) \/ Receive(s) \/ Take(s) \/ RecvEnds(s) \/ Deregister(s)

-----------------------------------------------------------------------------
(* Messenger, the send routine: every 100 ms all that is queued goes into    *)
(* one envelope.                                                             *)

QueueOf(s) == IF server = "grpc" THEN st[s].q ELSE rcvQ

\* Mutant of Batch: one more message than there are.
BatchAndOne(s) == Len(QueueOf(s).items) + 1

Batch(s) == Len(QueueOf(s).items)

\* Mutant of LastOfBatch: one turn too many.
LastOfBatchLate(s) == st[s].left = 0

LastOfBatch(s) == st[s].left = 1

\* With killChan closed and a tick due, select takes either.
Tick(s) ==
  /\ st[s].send = "tick"
  /\ \/ Killed /\ Becomes(s, [st[s] EXCEPT !.send = "exited"])
     \/ QueueOf(s).closed /\ Becomes(s, [st[s] EXCEPT !.send = "exited"])
     \/ /\ ~QueueOf(s).closed /\ QueueOf(s).items # <<>>
        /\ Becomes(s, [st[s] EXCEPT !.send = "get", !.left = Batch(s)])

\* Get, the conversion, and Done, which finds nothing to queue again.
GetOne(s) ==
  LET q    == QueueOf(s)
      m    == Head(q.items)
      done == QDone(QTake(q), m)
      next == [st[s] EXCEPT !.left = @ - 1,
                            !.send = IF LastOfBatch(s) THEN "send" ELSE "get",
                            !.env = IF m \in BadOf[server] THEN @ ELSE Append(@, m)]
  IN /\ st[s].send = "get"
     /\ \/ /\ q.items # <<>>
           /\ IF server = "grpc"
              THEN rcvQ' = rcvQ /\ st' = [st EXCEPT ![s] = [next EXCEPT !.q = done]]
              ELSE rcvQ' = done /\ st' = [st EXCEPT ![s] = next]
           /\ UNCHANGED <<server, stop, serve, added, sndQ, caster, casts,
                          streamQs, sQCount>>
        \/ q.items = <<>> /\ q.closed /\ Becomes(s, [st[s] EXCEPT !.send = "exited"])

Gone(s) == st[s].recv = "gone"

\* Mutant of SendEnvelope: the next envelope starts with what this one held.
SendKeeps(s) ==
  /\ st[s].send = "send" /\ ~st[s].broken
  /\ Becomes(s, [st[s] EXCEPT !.send = "tick", !.sent = @ \o st[s].env])

\* Mutant of SendFails: the routine goes on with the next tick.
SendRetries(s) ==
  /\ st[s].send = "send"
  /\ Becomes(s, [st[s] EXCEPT !.send = "tick", !.env = <<>>, !.broken = TRUE,
                              !.afterwards = IF Gone(s) THEN @ + 1 ELSE @])

\* The envelope is lost.  An error breaks the stream, if it was not broken.
SendFails(s) ==
  /\ st[s].send = "send"
  /\ Becomes(s, [st[s] EXCEPT !.send = "exited", !.env = <<>>, !.broken = TRUE,
                              !.afterwards = IF Gone(s) THEN @ + 1 ELSE @])

SendEnvelope(s) ==
  /\ st[s].send = "send" /\ ~st[s].broken
  /\ Becomes(s, [st[s] EXCEPT !.send = "tick", !.env = <<>>, !.sent = @ \o st[s].env])

Sender(s) == Tick(s) \/ GetOne(s) \/ SendEnvelope(s) \/ SendFails(s)

-----------------------------------------------------------------------------
Caster == CastGet \/ Cast
Work == Listen \/ Serve \/ ServeMissed
Stop == StopQueues \/ StopKill \/ StopPlugin \/ StopServer

Next ==
  \/ Route \/ RouterTakes \/ Caster \/ Work \/ Stop
  \/ \E s \in Streams : Open(s) \/ Messenger(s) \/ Sender(s)

Spec == Init /\ [][Next]_vars

\* Goroutines are scheduled, the ticker ticks and a broken stream ends Recv.  A
\* Stop that has begun goes on, if only into a StopProcess that does not return; nobody
\* need call it, and peers may do nothing.
Fairness ==
  /\ WF_vars(Caster) /\ WF_vars(Work) /\ WF_vars(StopKill)
  /\ WF_vars(StopPlugin) /\ WF_vars(StopServer)
  /\ \A s \in Streams :
       /\ WF_vars(Sender(s))
       /\ WF_vars(Register(s) \/ Take(s) \/ Deregister(s)
                  \/ ((st[s].broken \/ st[s].recv = "leave") /\ RecvEnds(s)))

FairSpec == Spec /\ Fairness

-----------------------------------------------------------------------------
Pcs == {"none", "lock", "recv", "take", "leave", "remove", "gone"}
Ids == 1 .. MaxMsgs

StreamType ==
  [id : Nat \cup {-1}, recv : Pcs, inbox : Seq(Inbound),
   send : {"none", "tick", "get", "send", "exited"}, q : QueueType(Ids), left : Nat,
   env : Seq(Ids), sent : Seq(Ids), since : Nat, broken : BOOLEAN, afterwards : Nat]

StopStages == {"no", "queues", "killed", "exited", "stuck", "panicked", "done"}
ServeStages == {"off", "failed", "leaked", "made", "serving", "stopped", "ended", "missed",
                "missed made", "missed serving"}

\* Every variable has its type.
TypeOK ==
  /\ server \in Servers /\ stop \in StopStages /\ serve \in ServeStages
  /\ added \in 0 .. MaxMsgs /\ rcvQ \in QueueType(Ids) /\ sndQ \in QueueType(Inbound)
  /\ caster \in [pc : {"none", "get", "cast", "exited"}, msg : Ids \cup {None}]
  /\ casts \in 0 .. MaxMsgs /\ streamQs \in Seq(Streams) /\ sQCount \in Nat
  /\ st \in [Streams -> StreamType]

\* What a stream has sent and is about to send.
Out(s) == st[s].sent \o st[s].env

Rising(a) == \A i, j \in DOMAIN a : i < j => a[i] < a[j]

\* A stream of the message server is sent every message copied since it was
\* registered, in order and once, while streams come and go around it: what is out
\* and then what is queued are those messages, less the ones without external form
\* (grpcmessageserver.go:148, 217, 224, 264).
EachStreamGetsAll ==
  \A s \in Streams :
    server = "grpc" /\ st[s].recv \in {"recv", "take", "leave"} /\ st[s].send # "exited" =>
      /\ Rising(Out(s) \o st[s].q.items)
      /\ Elems(Out(s)) \cup (Elems(st[s].q.items) \ BadOf[server])
           = (st[s].since + 1 .. casts) \ BadOf[server]

\* A send routine waits inside Get, on an open queue, only when the routine of
\* another stream takes from the same queue: "this assumes only a single
\* consumer of the queue" (mpi.go:346), which a plugin with two streams breaks.
WaitsOnlyWhenShared ==
  \A s \in Streams :
    st[s].send = "get" /\ QueueOf(s).items = <<>> /\ ~QueueOf(s).closed =>
      server = "mpi" /\ \E t \in Streams \ {s} : st[t].send # "none"

\* No message goes out on two streams of a plugin, and none is overtaken on its
\* stream (mpi.go:352).
SentOnceInOrder ==
  server = "mpi" =>
    \A s, t \in Streams :
      Rising(Out(s)) /\ (s # t => Elems(Out(s)) \cap Elems(Out(t)) = {})

\* A stream that is gone takes at most one more envelope of messages with it
\* (mpi.go:369): its send routine learns of the end from Send alone.
OneEnvelopeLost == \A s \in Streams : st[s].afterwards <= 1

\* A stream whose Send failed, or that Stop broke, is taken out of streamQs, so that
\* its queue, which nothing empties any more, stops growing (grpcmessageserver.go:146).
BrokenStreamsRemoved ==
  \A s \in Streams : s \in Elems(streamQs) /\ st[s].broken ~> s \notin Elems(streamQs)

\* Stop ends the goroutine that copies and the send routine of every stream, also of
\* those that open while it runs, and Messenger too, unless the process of the plugin
\* keeps it from the GRPC server (grpcmessageserver.go:118, mpi.go:211-223).
StopEndsRoutines ==
  stop # "no" ~> /\ caster.pc \in {"none", "exited"}
                 /\ \A s \in Streams : st[s].send \in {"none", "exited"}
                 /\ \/ stop \in {"stuck", "panicked"}
                    \/ \A s \in Streams : st[s].recv \in {"none", "gone"}

\* A Stop that returns leaves the port free, but for two cases: it read grpcServer before
\* work had stored it, or the certificates failed (grpcmessageserver.go:124, 157-168).
StopFreesPort ==
  stop = "done" ~>
     \/ serve \in {"failed", "ended"}
     \/ serve \in {"leaked", "missed", "missed made", "missed serving"}

\* "Stop will ensure this go routine exists", that is ends
\* (grpcmessageserver.go:179).
StopEndsServe == stop = "done" ~> serve \in {"failed", "leaked", "ended"}

\* The streams of the message server (grpcmessageserver.go:133-155, 207-308).
StreamsInv == TypeOK /\ EachStreamGetsAll

\* What the streams of a plugin, which share one queue, can do to each other
\* (mpi.go:323-374).
PluginInv == WaitsOnlyWhenShared /\ SentOnceInOrder /\ OneEnvelopeLost

\* After Stop nothing runs on (grpcmessageserver.go:117-128, mpi.go:210-228).
StopEnds == StopEndsRoutines /\ StopFreesPort

=============================================================================
