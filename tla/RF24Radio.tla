----------------------------- MODULE RF24Radio ------------------------------
(***************************************************************************)
(* The RF24 plugin between the daemon and the radio (rf24networknode.go,   *)
(* rf24networknodebackend/rfhook.go, children.go, master.go).  Bytes off   *)
(* the radio become frames, frames messages, and messages envelopes for    *)
(* the daemon; messages of the daemon and heartbeats are written to the    *)
(* radio.  Receive and the writes share one lock, and the goroutines       *)
(* between them a chain of channels and queues.  A behaviour is that of a  *)
(* child or of the master, chosen in Init.                                 *)
(*                                                                         *)
(* External: the daemon's end of the stream, the radio and the GRPC        *)
(* library.  What the master does with heartbeats and routed messages is   *)
(* in RF24Nodes.  A frame is one byte and the mark that ends it; whatever  *)
(* cannot be unmarshalled or converted has the empty ID, 0.                *)
(***************************************************************************)
EXTENDS Naturals, Sequences, FiniteSetsExt, QueueOps

CONSTANTS Loads,   \* "child" or "master", and bounds: how many frames come off the
                   \* radio, messages of the daemon and heartbeats there are, and
                   \* the numbers of frames and messages without an internal form
          ReadMax, \* bytes that one read of the radio returns at most
          frameChanCapacity, maxMessagesPerEnv

ASSUME LoadsAssumption ==
  /\ Loads \subseteq [role : {"child", "master"}, frames : Nat, msgs : Nat,
                       beats : Nat, bad : SUBSET Nat]
  /\ ReadMax \in Nat \ {0}
  /\ frameChanCapacity \in Nat \ {0} /\ maxMessagesPerEnv \in Nat \ {0}

VARIABLES load,
          stopping,  \* how far Stop is, or how the process ended
          stream,    \* whether the stream to the daemon is up
          mu,        \* who holds the lock of the hook across a step
          heard,     \* how many bytes have been read
          buf,       \* bytes that belong to no frame sent yet
          prevEnd,   \* how many of them were there before the last read
          frameChan, proc, hand,
          sndQ, up,  \* towards the daemon
          delivered, \* what has been sent to the daemon (history)
          came, rcvQ, sender,
          written,   \* messages of the daemon put on the radio (history)
          beat

rfVars == <<mu, heard, buf, prevEnd, frameChan, proc>>
upVars == <<hand, sndQ, up, delivered>>
outVars == <<came, rcvQ, sender, written, beat>>
radioVars == <<load, stopping, stream, rfVars, upVars, outVars>>

\* Mutant of Workers: children run each routine twice as well.
TwoWorkers(r) == 1 .. 2

\* The master starts its routines in a loop, twice.
Workers(r) == IF r = "master" THEN 1 .. 2 ELSE 1 .. 1

Running == stopping \notin {"over", "crashed"}
KillChanClosed == stopping = "killed"

RadioInit ==
  /\ load \in Loads /\ stopping = "no" /\ stream = TRUE
  /\ mu = "free" /\ heard = 0 /\ buf = <<>> /\ prevEnd = 0 /\ frameChan = <<>>
  /\ proc = [w \in Workers(load.role) |-> [pc |-> "select", msg |-> 0]]
  /\ hand = [w \in Workers(load.role) |-> [pc |-> "select", msg |-> 0]]
  /\ sndQ = NewQueue /\ up = [pc |-> "top", env |-> <<>>] /\ delivered = <<>>
  /\ came = 0 /\ rcvQ = NewQueue /\ written = <<>>
  /\ sender = [w \in Workers(load.role) |-> [pc |-> "get", msg |-> 0]]
  /\ beat = [pc |-> IF load.role = "child" THEN "wait" ELSE "none", version |-> 0]

-----------------------------------------------------------------------------
(* Receive, called on every tick of the poll interval.                       *)

\* Byte k of what comes off the radio.
Byte(k) == IF k % 2 = 1 THEN (k + 1) \div 2 ELSE 0

\* A tick with something to read; one with nothing gives up the lock at once.
ReceiveStarts ==
  /\ mu = "free" /\ heard < 2 * load.frames /\ mu' = "update"
  /\ UNCHANGED <<load, stopping, stream, heard, buf, prevEnd, frameChan, proc, upVars,
                 outVars>>

\* The ends of frames among the bytes that the last read has appended and its loop
\* has not come past.
Ends == {i \in prevEnd + 1 .. Len(buf) : buf[i] = 0}

\* rf24NetworkReceive: one read ends anywhere, within a frame or after several.
Reads ==
  /\ mu # "free" /\ Ends = {} /\ mu' = "receive"
  /\ \E n \in 1 .. ReadMax :
       /\ heard + n <= 2 * load.frames /\ heard' = heard + n
       /\ buf' = buf \o [k \in 1 .. n |-> Byte(heard + k)] /\ prevEnd' = Len(buf)
  /\ UNCHANGED <<load, stopping, stream, frameChan, proc, upVars, outVars>>

\* Mutant of Pushes: what follows the last whole frame is not kept.
PushesDropRest ==
  /\ Ends # {} /\ Len(frameChan) < frameChanCapacity
  /\ frameChan' = Append(frameChan, SubSeq(buf, 1, Min(Ends)))
  /\ buf' = IF Cardinality(Ends) = 1 THEN <<>>
            ELSE SubSeq(buf, Min(Ends) + 1, Len(buf))
  /\ prevEnd' = 0
  /\ UNCHANGED <<load, stopping, stream, mu, heard, proc, upVars, outVars>>

\* A turn of its loop that finds a mark: the send on frameChan, which waits while
\* the channel is full.  What follows the last one stays for the next read.
Pushes ==
  /\ Ends # {} /\ Len(frameChan) < frameChanCapacity
  /\ frameChan' = Append(frameChan, SubSeq(buf, 1, Min(Ends)))
  /\ buf' = SubSeq(buf, Min(Ends) + 1, Len(buf)) /\ prevEnd' = 0
  /\ UNCHANGED <<load, stopping, stream, mu, heard, proc, upVars, outVars>>

\* Nothing is available for the moment.
ReceiveEnds ==
  /\ mu = "receive" /\ Ends = {} /\ mu' = "free"
  /\ UNCHANGED <<load, stopping, stream, heard, buf, prevEnd, frameChan, proc, upVars,
                 outVars>>

Receive == ReceiveStarts \/ Reads \/ Pushes \/ ReceiveEnds

-----------------------------------------------------------------------------
(* processFrames and messageHandler.  Each leaves at its select once killChan *)
(* is closed, and may take another value there first; the process ends so     *)
(* soon after that their leaving makes no difference to anyone.               *)

\* Whatever the type, data that is not of that type's form gives the empty message,
\* and so does an unknown type.
ConvertToInternalFormat(m) == IF m \in load.bad THEN 0 ELSE m

\* Whatever the type, ConvertToExternalFormat asserts the type of the data first,
\* and panics without data.
HasExternalFormat(m) == m # 0

\* A frame that is not whole cannot be unmarshalled.
Decode(frame) == IF Len(frame) = 2 THEN ConvertToInternalFormat(frame[1]) ELSE 0

\* Mutant of Decodes: decoding is under the lock of the hook.
DecodesLocked(w) ==
  /\ mu = "free" /\ proc[w].pc = "select" /\ frameChan # <<>>
  /\ proc' = [proc EXCEPT ![w] = [pc |-> "send", msg |-> Decode(Head(frameChan))]]
  /\ frameChan' = Tail(frameChan)
  /\ UNCHANGED <<load, stopping, stream, mu, heard, buf, prevEnd, upVars, outVars>>

\* Where not even an ID was unmarshalled, ConvertToInternalFormat reads through a
\* nil pointer.
DecodePanics(w) ==
  /\ proc[w].pc = "select" /\ frameChan # <<>> /\ Decode(Head(frameChan)) = 0
  /\ stopping' = "crashed"
  /\ UNCHANGED <<load, stream, rfVars, upVars, outVars>>

\* Other errors are logged, and the empty message goes on.
Decodes(w) ==
  /\ proc[w].pc = "select" /\ frameChan # <<>>
  /\ proc' = [proc EXCEPT ![w] = [pc |-> "send", msg |-> Decode(Head(frameChan))]]
  /\ frameChan' = Tail(frameChan)
  /\ UNCHANGED <<load, stopping, stream, mu, heard, buf, prevEnd, upVars, outVars>>

\* messageChan has no buffer: a send meets a handler at its select.
HandsOver(w, h) ==
  /\ proc[w].pc = "send" /\ hand[h].pc = "select"
  /\ hand' = [hand EXCEPT ![h] = [pc |-> "add", msg |-> proc[w].msg]]
  /\ proc' = [proc EXCEPT ![w] = [pc |-> "select", msg |-> 0]]
  /\ UNCHANGED <<load, stopping, stream, mu, heard, buf, prevEnd, frameChan, sndQ, up,
                 delivered, outVars>>

\* The master gives the message to its router as well, with no effect here.
HandlerAdds(h) ==
  /\ hand[h].pc = "add" /\ sndQ' = QAdd(sndQ, hand[h].msg)
  /\ hand' = [hand EXCEPT ![h] = [pc |-> "select", msg |-> 0]]
  /\ UNCHANGED <<load, stopping, stream, rfVars, up, delivered, outVars>>

RoutineExits(w) ==
  /\ KillChanClosed
  /\ \/ /\ proc[w].pc = "select" /\ proc' = [proc EXCEPT ![w].pc = "exited"]
        /\ UNCHANGED hand
     \/ /\ hand[w].pc = "select" /\ hand' = [hand EXCEPT ![w].pc = "exited"]
        /\ UNCHANGED proc
  /\ UNCHANGED <<load, stopping, stream, mu, heard, buf, prevEnd, frameChan, sndQ, up,
                 delivered, outVars>>

-----------------------------------------------------------------------------
(* listen: envelopes for the daemon.                                         *)

UpTop ==
  /\ up.pc = "top" /\ up' = [up EXCEPT !.pc = IF sndQ.closed THEN "exited" ELSE "get"]
  /\ UNCHANGED <<load, stopping, stream, rfVars, hand, sndQ, delivered, outVars>>

\* Mutant of UpGets: it goes by the number of messages alone.
UpGetsFull ==
  /\ up.pc = "get" /\ sndQ.items # <<>> /\ HasExternalFormat(Head(sndQ.items))
  /\ sndQ' = QDone(QTake(sndQ), Head(sndQ.items))
  /\ LET env == Append(up.env, Head(sndQ.items))
     IN up' = [pc |-> IF Len(env) = maxMessagesPerEnv THEN "send" ELSE "get",
               env |-> env]
  /\ UNCHANGED <<load, stopping, stream, rfVars, hand, delivered, outVars>>

\* Mutant of UpGets: off by one at the size of an envelope.
UpGetsOneMore ==
  /\ up.pc = "get" /\ sndQ.items # <<>> /\ HasExternalFormat(Head(sndQ.items))
  /\ sndQ' = QDone(QTake(sndQ), Head(sndQ.items))
  /\ LET env == Append(up.env, Head(sndQ.items))
     IN up' = [pc |-> IF Len(env) > maxMessagesPerEnv \/ sndQ'.items = <<>>
                      THEN "send" ELSE "get", env |-> env]
  /\ UNCHANGED <<load, stopping, stream, rfVars, hand, delivered, outVars>>

UpGets ==
  /\ up.pc = "get" /\ sndQ.items # <<>> /\ HasExternalFormat(Head(sndQ.items))
  /\ sndQ' = QDone(QTake(sndQ), Head(sndQ.items))
  /\ LET env == Append(up.env, Head(sndQ.items))
     IN up' = [pc |-> IF Len(env) = maxMessagesPerEnv \/ sndQ'.items = <<>>
                      THEN "send" ELSE "get", env |-> env]
  /\ UNCHANGED <<load, stopping, stream, rfVars, hand, delivered, outVars>>

UpExits ==
  /\ up.pc = "get" /\ sndQ.items = <<>> /\ sndQ.closed
  /\ up' = [up EXCEPT !.pc = "exited"]
  /\ UNCHANGED <<load, stopping, stream, rfVars, hand, sndQ, delivered, outVars>>

\* The empty message panics in ConvertToExternalFormat.
UpPanics ==
  /\ up.pc = "get" /\ sndQ.items # <<>> /\ ~HasExternalFormat(Head(sndQ.items))
  /\ stopping' = "crashed"
  /\ UNCHANGED <<load, stream, rfVars, upVars, outVars>>

\* What cannot be sent is lost.
UpSends ==
  /\ up.pc = "send" /\ up' = [pc |-> "top", env |-> <<>>]
  /\ delivered' = IF stream THEN delivered \o up.env ELSE delivered
  /\ UNCHANGED <<load, stopping, stream, rfVars, hand, sndQ, outVars>>

Up == UpTop \/ UpGets \/ UpExits \/ UpPanics \/ UpSends

-----------------------------------------------------------------------------
(* listen: messages of the daemon, and the senders that take them.           *)

StreamBreaks ==
  /\ stream /\ stream' = FALSE
  /\ UNCHANGED <<load, stopping, rfVars, upVars, outVars>>

\* One without an internal form is logged, and the empty message added.
DaemonSends ==
  /\ stream /\ came < load.msgs /\ came' = came + 1
  /\ rcvQ' = QAdd(rcvQ, ConvertToInternalFormat(came'))
  /\ UNCHANGED <<load, stopping, stream, rfVars, upVars, sender, written, beat>>

SenderGets(w) ==
  /\ sender[w].pc = "get"
  /\ \/ /\ rcvQ.items # <<>> /\ rcvQ' = QTake(rcvQ)
        /\ sender' = [sender EXCEPT ![w] = [pc |-> "send", msg |-> Head(rcvQ.items)]]
     \/ /\ KillChanClosed \/ (rcvQ.items = <<>> /\ rcvQ.closed)
        /\ rcvQ' = rcvQ /\ sender' = [sender EXCEPT ![w].pc = "exited"]
  /\ UNCHANGED <<load, stopping, stream, rfVars, upVars, came, written, beat>>

\* Mutant of SenderWrites: a message whose write fails is added again.
SenderRetries(w) ==
  /\ load.role = "child" /\ sender[w].pc = "send" /\ mu = "free"
  /\ HasExternalFormat(sender[w].msg)
  /\ \/ /\ written' = Append(written, sender[w].msg)
        /\ rcvQ' = QDone(rcvQ, sender[w].msg)
     \/ /\ written' = written
        /\ rcvQ' = QDone(QAdd(rcvQ, sender[w].msg), sender[w].msg)
  /\ sender' = [sender EXCEPT ![w] = [pc |-> "get", msg |-> 0]]
  /\ UNCHANGED <<load, stopping, stream, rfVars, upVars, came, beat>>

\* A child writes to the radio, under the lock; what fails is lost.
SenderWrites(w) ==
  /\ load.role = "child" /\ sender[w].pc = "send" /\ mu = "free"
  /\ HasExternalFormat(sender[w].msg)
  /\ \/ written' = Append(written, sender[w].msg)
     \/ written' = written
  /\ rcvQ' = QDone(rcvQ, sender[w].msg)
  /\ sender' = [sender EXCEPT ![w] = [pc |-> "get", msg |-> 0]]
  /\ UNCHANGED <<load, stopping, stream, rfVars, upVars, came, beat>>

\* The empty message panics as in UpPanics.
SenderPanics(w) ==
  /\ load.role = "child" /\ sender[w].pc = "send" /\ ~HasExternalFormat(sender[w].msg)
  /\ stopping' = "crashed"
  /\ UNCHANGED <<load, stream, rfVars, upVars, outVars>>

\* The master gives it to its router, whose workers write it (RF24Nodes).
SenderRoutes(w) ==
  /\ load.role = "master" /\ sender[w].pc = "send"
  /\ rcvQ' = QDone(rcvQ, sender[w].msg)
  /\ sender' = [sender EXCEPT ![w] = [pc |-> "get", msg |-> 0]]
  /\ UNCHANGED <<load, stopping, stream, rfVars, hand, sndQ, up, delivered, came,
                 written, beat>>

\* The version counts the ticks, whether their heartbeats get out or not.
BeatTicks ==
  /\ beat.pc = "wait" /\ beat.version < load.beats
  /\ beat' = [pc |-> "send", version |-> beat.version + 1]
  /\ UNCHANGED <<load, stopping, stream, rfVars, upVars, came, rcvQ, sender, written>>

BeatWrites ==
  /\ beat.pc = "send" /\ mu = "free" /\ beat' = [beat EXCEPT !.pc = "wait"]
  /\ UNCHANGED <<load, stopping, stream, rfVars, upVars, came, rcvQ, sender, written>>

BeatExits ==
  /\ beat.pc = "wait" /\ KillChanClosed /\ beat' = [beat EXCEPT !.pc = "exited"]
  /\ UNCHANGED <<load, stopping, stream, rfVars, upVars, came, rcvQ, sender, written>>

-----------------------------------------------------------------------------
(* Stop: the queues, killChan, and the end of the process.                   *)

StopQueues ==
  /\ stopping = "no" /\ stopping' = "queues"
  /\ rcvQ' = QShutDown(rcvQ) /\ sndQ' = QShutDown(sndQ)
  /\ UNCHANGED <<load, stream, rfVars, hand, up, delivered, came, sender,
                 written, beat>>

StopKills ==
  /\ stopping = "queues" /\ stopping' = "killed"
  /\ UNCHANGED <<load, stream, rfVars, upVars, outVars>>

MainReturns ==
  /\ stopping = "killed" /\ stopping' = "over"
  /\ UNCHANGED <<load, stream, rfVars, upVars, outVars>>

-----------------------------------------------------------------------------
Works(w) ==
  \/ Decodes(w) \/ DecodePanics(w) \/ HandlerAdds(w) \/ RoutineExits(w)
  \/ \E h \in Workers(load.role) : HandsOver(w, h)
Sends(w) == SenderGets(w) \/ SenderWrites(w) \/ SenderPanics(w) \/ SenderRoutes(w)

RadioNext ==
  /\ Running
  /\ \/ Receive \/ Up \/ StreamBreaks \/ DaemonSends
     \/ \E w \in Workers(load.role) : Works(w) \/ Sends(w)
     \/ BeatTicks \/ BeatWrites \/ BeatExits
     \/ StopQueues \/ StopKills \/ MainReturns

RadioSpec == RadioInit /\ [][RadioNext]_radioVars

\* The goroutines are scheduled.  The lock is asked for a bounded number of times,
\* so weak fairness is enough; no tick, message or Stop need come.
RadioFairness ==
  /\ WF_radioVars(Running /\ (Reads \/ Pushes \/ ReceiveEnds))
  /\ WF_radioVars(Running /\ Up) /\ WF_radioVars(Running /\ BeatWrites)
  /\ \A w \in 1 .. 2 : WF_radioVars(Running /\ w \in Workers(load.role) /\ Works(w))
RadioFairSpec == RadioSpec /\ RadioFairness

-----------------------------------------------------------------------------
(* Properties.                                                               *)

Frames == {<<k, 0>> : k \in 1 .. load.frames}

Routine(n) == [pc : {"select", "get", "add", "send", "exited"}, msg : 0 .. n]

\* The type of every variable; no more frames wait than the channel has room for,
\* and no envelope holds more messages than it may (rfhook.go:31, listen).
RadioTypeOK ==
  /\ stopping \in {"no", "queues", "killed", "over", "crashed"} /\ stream \in BOOLEAN
  /\ mu \in {"free", "update", "receive"} /\ heard \in 0 .. 2 * load.frames
  /\ buf \in Seq(Nat) /\ prevEnd \in 0 .. Len(buf) /\ frameChan \in Seq(Seq(Nat))
  /\ Len(frameChan) <= frameChanCapacity
  /\ proc \in [Workers(load.role) -> Routine(load.frames)]
  /\ hand \in [Workers(load.role) -> Routine(load.frames)]
  /\ sndQ \in QueueType(0 .. load.frames) /\ rcvQ \in QueueType(0 .. load.msgs)
  /\ up.pc \in {"top", "get", "send", "exited"} /\ Len(up.env) <= maxMessagesPerEnv
  /\ delivered \in Seq(1 .. load.frames) /\ written \in Seq(1 .. load.msgs)
  /\ came \in 0 .. load.msgs
  /\ sender \in [Workers(load.role) -> Routine(load.msgs)]
  /\ beat \in [pc : {"none", "wait", "send", "exited"}, version : 0 .. load.beats]

\* However the reads cut up what comes off the radio, exactly the frames that were
\* sent reach frameChan, whole: none is cut, joined to another or lost at the end
\* of a read (rf24NetworkReceive keeps what a read leaves unfinished).
FramesWhole == Elems(frameChan) \subseteq Frames

Increasing(s) == \A i, j \in DOMAIN s : i < j => s[i] < s[j]

\* A child passes the messages of the radio to the daemon in the order of their
\* frames, each at most once, through two channels, a queue and the envelopes
\* (one processFrames, one messageHandler and one sending routine; the master, with
\* two of each, does not keep their order).
DeliveredInOrder == load.role = "child" => Increasing(delivered)

\* A child puts the messages of the daemon on the radio in order and each at most
\* once: one whose write fails is not sent again (children.go:89-93).
WrittenInOrder == Increasing(written)

\* While the process runs, a heartbeat that is due is written: Receive, which may
\* wait for room in frameChan under the lock of the hook, gives the lock up, for
\* nothing that empties the channels needs the lock (rfhook.go:39-53, 74, 104).
BeatsGoOut == beat.pc = "send" ~> (beat.pc # "send" \/ stopping # "no")

\* While the process runs and the stream is up, the message of every frame that has
\* been read reaches the daemon, of a child and of the master.
FramesDelivered ==
  \A k \in 1 .. 3 :
    heard >= 2 * k ~> (k \in Elems(delivered) \/ stopping # "no" \/ ~stream)

\* What is in the send queue was received: "messages received on rf24network are
\* placed here for consumption by drivers/controllers on this node"
\* (children.go:21).
OnlyReceived == \A m \in Elems(sndQ.items) : m \in 1 .. load.frames \ load.bad

\* The data path in both directions: frames whole, and one order from end to end
\* (rfhook.go:55-140, children.go:71-144).
RadioInv == RadioTypeOK /\ FramesWhole /\ DeliveredInOrder /\ WrittenInOrder

=============================================================================
