-------------------------------- MODULE Lirc --------------------------------
(***************************************************************************)
(* The infrared remote control: the reader of the socket of lircd          *)
(* (controllers/lircbackend/lirc.go), the routine that waits for its       *)
(* events (lircrouter.go) and the controller that makes messages of them   *)
(* (controllers/lirc.go).                                                  *)
(*                                                                         *)
(* External: lircd, which sends a line for every button pressed, and       *)
(* packets of several lines; and the message router.  No code of the       *)
(* controller sends a command to lircd, so nobody waits for a reply.  A    *)
(* line is a word, a number (a negative one counts as 0) or a press, whose *)
(* number is that of the button; "short" is a line with the code of a      *)
(* press and fewer than four fields, "long" one the scanner has no room    *)
(* for.                                                                    *)
(***************************************************************************)
EXTENDS Naturals, SequencesExt, QueueOps

CONSTANTS Packets,   \* what lircd may send at once: sequences of lines
          MaxPackets, \* bound: how often it does
          MaxMsgs    \* bound: messages the router adds to the receive queue

Word(w) == [is |-> w, n |-> 0]
Number(k) == [is |-> "number", n |-> k]
PressOf(button) == [is |-> "press", n |-> button]
Line == [is : STRING, n : Nat]

\* A packet is the lines from one BEGIN to the one that ends its form or breaks it; a
\* line outside of these is a packet too.  All that lircd may ever send can be cut up
\* in this way.  A packet that announces no data has no last line of its own.
IsPacket(p) ==
  \/ Len(p) = 1 /\ p[1].is # "BEGIN"
  \/ /\ Len(p) >= 3 /\ p[1].is = "BEGIN"
     /\ IF p[3].is \notin {"SUCCESS", "ERROR"} THEN Len(p) = 3
        ELSE /\ Len(p) >= 4
             /\ IF p[4].is # "DATA" THEN Len(p) = 4
                ELSE /\ Len(p) >= 5
                     /\ IF p[5].is # "number" THEN Len(p) = 5
                        ELSE p[5].n = 0 \/ Len(p) = p[5].n + 6

ASSUME LircAssumption ==
  /\ \A p \in Packets : p \in Seq(Line) /\ IsPacket(p)
  /\ MaxPackets \in Nat /\ MaxMsgs \in Nat

VARIABLES sent,      \* the packets lircd has sent (history)
          pressed,   \* the buttons pressed, in order (history)
          place,     \* the line read last: the number of its packet, and its own there
          reader,    \* reader: its state and variables, and the send it waits in
          runner,    \* Run and the handler it calls
          eventCount, sndQ,
          payload,   \* the button that travels with each version in sndQ
          taken,     \* the buttons the message router has taken (history)
          came, rcvQ, worker,
          stopped

lircVars == <<sent, pressed, place, reader, runner, eventCount, sndQ, payload, taken,
              came, rcvQ, worker, stopped>>

NoMessage == [command |-> Word(""), success |-> 0, len |-> 0, data |-> <<>>]

LircInit ==
  /\ sent = <<>> /\ pressed = <<>> /\ place = [packet |-> 0, line |-> 0]
  /\ reader = [state |-> "RECEIVE", message |-> NoMessage, dataCnt |-> 0,
               sends |-> "no", button |-> 0]
  /\ runner = [pc |-> "select", button |-> 0] /\ eventCount = 0 /\ sndQ = NewQueue
  /\ payload = [v \in 0 .. MaxPackets |-> 0] /\ taken = <<>>
  /\ came = 0 /\ rcvQ = NewQueue /\ worker = "get" /\ stopped = FALSE

-----------------------------------------------------------------------------
(* The reader.                                                               *)

Replies(r) == [r EXCEPT !.state = "RECEIVE", !.sends = "reply"]

\* A line outside of a packet: a press, or one that is logged and passed over.  Where
\* a field is missing the index is out of range, which is the end of the daemon.
AtReceive(r, line) ==
  CASE line.is = "BEGIN" -> [r EXCEPT !.state = "REPLY"]
    [] line.is = "press" -> [r EXCEPT !.sends = "receive", !.button = line.n]
    [] line.is = "short" -> [r EXCEPT !.sends = "panic"]
    [] OTHER -> r

Crashed == reader.sends = "panic"
Alive == ~Crashed

AtStatus(r, line) ==
  CASE line.is = "SUCCESS" -> [r EXCEPT !.message.success = 1, !.state = "DATA_START"]
    [] line.is = "END" -> Replies([r EXCEPT !.message.success = 1])
    [] line.is = "ERROR" -> [r EXCEPT !.message.success = 0, !.state = "DATA_START"]
    [] OTHER -> [r EXCEPT !.state = "RECEIVE"]

AtDataStart(r, line) ==
  CASE line.is = "END" -> Replies(r)
    [] line.is = "DATA" -> [r EXCEPT !.state = "DATA_LEN"]
    [] OTHER -> [r EXCEPT !.state = "RECEIVE"]

AtDataLen(r, line) ==
  IF line.is = "number"
  THEN [r EXCEPT !.dataCnt = 0, !.message.len = line.n, !.state = "DATA"]
  ELSE [r EXCEPT !.dataCnt = 0, !.message.len = 0, !.state = "RECEIVE"]

\* Mutant of AtData: the line is counted before the count is compared.
AtDataEarly(r, line) ==
  LET m == r.message
  IN [r EXCEPT !.message.data = IF r.dataCnt + 1 < m.len THEN Append(@, line) ELSE @,
               !.dataCnt = @ + 1,
               !.state = IF r.dataCnt + 1 = m.len THEN "END" ELSE @]

\* With a length of 0 the count is past it at once, and no line ends this state.
AtData(r, line) ==
  LET m == r.message
  IN [r EXCEPT !.message.data = IF r.dataCnt < m.len THEN Append(@, line) ELSE @,
               !.dataCnt = @ + 1,
               !.state = IF r.dataCnt + 1 = m.len THEN "END" ELSE @]

AtEnd(r, line) ==
  IF line.is = "END" THEN Replies(r) ELSE [r EXCEPT !.state = "RECEIVE"]

AfterLine(r, line) ==
  CASE r.state = "RECEIVE" -> AtReceive(r, line)
    [] r.state = "REPLY" -> [r EXCEPT !.message = [NoMessage EXCEPT !.command = line],
                                      !.state = "STATUS"]
    [] r.state = "STATUS" -> AtStatus(r, line)
    [] r.state = "DATA_START" -> AtDataStart(r, line)
    [] r.state = "DATA_LEN" -> AtDataLen(r, line)
    [] r.state = "DATA" -> AtData(r, line)
    [] r.state = "END" -> AtEnd(r, line)

\* The next line is the next of its packet or begins the next packet.
NextPlace ==
  IF place.packet # 0 /\ place.line < Len(sent[place.packet])
  THEN [place EXCEPT !.line = @ + 1] ELSE [packet |-> place.packet + 1, line |-> 1]
NextLine == sent[NextPlace.packet][NextPlace.line]

HasLine == NextPlace.packet <= Len(sent)

\* Mutant of ReadLine: the reader does not get past a line it cannot parse.
ReadLineOrStay ==
  /\ reader.sends = "no" /\ HasLine /\ NextLine.is # "long" /\ place' = NextPlace
  /\ reader' = AfterLine(reader, NextLine) /\ reader' # reader
  /\ UNCHANGED <<sent, pressed, runner, eventCount, sndQ, payload, taken, came, rcvQ,
                 worker, stopped>>

ReadLine ==
  /\ reader.sends = "no" /\ HasLine /\ NextLine.is # "long" /\ place' = NextPlace
  /\ reader' = AfterLine(reader, NextLine)
  /\ UNCHANGED <<sent, pressed, runner, eventCount, sndQ, payload, taken, came, rcvQ,
                 worker, stopped>>

\* Scan returns false: lircd has closed the socket and all is read, or the line is too
\* long.  The reader returns, and nobody is told.
ScanEnds ==
  /\ reader.sends = "no" /\ (HasLine => NextLine.is = "long")
  /\ reader' = [reader EXCEPT !.sends = "ended"]
  /\ UNCHANGED <<sent, pressed, place, runner, eventCount, sndQ, payload, taken, came,
                 rcvQ, worker, stopped>>

LircdSends(p) ==
  /\ Alive /\ Len(sent) < MaxPackets /\ sent' = Append(sent, p)
  /\ pressed' = IF p[1].is = "press" THEN Append(pressed, p[1].n) ELSE pressed
  /\ UNCHANGED <<place, reader, runner, eventCount, sndQ, payload, taken, came, rcvQ,
                 worker, stopped>>

-----------------------------------------------------------------------------
(* Run, and lircReceiveEventHandler, the default handler.                    *)

RunnerTakes ==
  /\ reader.sends = "receive" /\ runner.pc = "select"
  /\ runner' = [pc |-> "handle", button |-> reader.button]
  /\ reader' = [reader EXCEPT !.sends = "no"]
  /\ UNCHANGED <<sent, pressed, place, eventCount, sndQ, payload, taken, came, rcvQ,
                 worker, stopped>>

\* Mutant of Handles: events are not counted.
HandlesUncounted ==
  /\ Alive /\ runner.pc = "handle"
  /\ sndQ' = QAdd(sndQ, eventCount)
  /\ payload' = IF Appends(sndQ, eventCount)
                THEN [payload EXCEPT ![eventCount] = runner.button] ELSE payload
  /\ runner' = [pc |-> "select", button |-> 0]
  /\ UNCHANGED <<sent, pressed, place, reader, eventCount, taken, came, rcvQ, worker,
                 stopped>>

\* Mutant of Handles: events are counted again by the caller.
HandlesCountedTwice ==
  /\ Alive /\ runner.pc = "handle"
  /\ eventCount' = eventCount + 2 /\ sndQ' = QAdd(sndQ, eventCount)
  /\ payload' = IF Appends(sndQ, eventCount)
                THEN [payload EXCEPT ![eventCount] = runner.button] ELSE payload
  /\ runner' = [pc |-> "select", button |-> 0]
  /\ UNCHANGED <<sent, pressed, place, reader, taken, came, rcvQ, worker, stopped>>

\* Under d.mu; only this routine reads and counts the events.
Handles ==
  /\ Alive /\ runner.pc = "handle"
  /\ eventCount' = eventCount + 1 /\ sndQ' = QAdd(sndQ, eventCount)
  /\ payload' = IF Appends(sndQ, eventCount)
                THEN [payload EXCEPT ![eventCount] = runner.button] ELSE payload
  /\ runner' = [pc |-> "select", button |-> 0]
  /\ UNCHANGED <<sent, pressed, place, reader, taken, came, rcvQ, worker, stopped>>

RunnerExits ==
  /\ Alive /\ runner.pc = "select" /\ stopped /\ runner' = [pc |-> "exited", button |-> 0]
  /\ UNCHANGED <<sent, pressed, place, reader, eventCount, sndQ, payload, taken,
                 came, rcvQ, worker, stopped>>

\* The message router is done with a message as soon as it has its data.
RouterTakes ==
  /\ Alive /\ sndQ.items # <<>> /\ sndQ' = QDone(QTake(sndQ), Head(sndQ.items))
  /\ taken' = Append(taken, payload[Head(sndQ.items)])
  /\ UNCHANGED <<sent, pressed, place, reader, runner, eventCount, payload, came,
                 rcvQ, worker, stopped>>

-----------------------------------------------------------------------------
(* The routine of work that empties the receive queue, and Stop.             *)

RouterAdds ==
  /\ Alive /\ came < MaxMsgs /\ came' = came + 1 /\ rcvQ' = QAdd(rcvQ, came')
  /\ UNCHANGED <<sent, pressed, place, reader, runner, eventCount, sndQ, payload,
                 taken, worker, stopped>>

\* A message is only logged.  The routine may have looked at killChan or not.
WorkerGets ==
  /\ Alive /\ worker = "get"
  /\ \/ /\ rcvQ.items # <<>> /\ rcvQ' = QDone(QTake(rcvQ), Head(rcvQ.items))
        /\ worker' = "get"
     \/ /\ rcvQ.closed /\ rcvQ' = rcvQ /\ worker' = "exited"
  /\ UNCHANGED <<sent, pressed, place, reader, runner, eventCount, sndQ, payload,
                 taken, came, stopped>>

\* Mutant of Stop: the receive queue stays open.
StopSending ==
  /\ Alive /\ ~stopped /\ stopped' = TRUE /\ sndQ' = QShutDown(sndQ)
  /\ UNCHANGED <<sent, pressed, place, reader, runner, eventCount, payload, taken,
                 came, rcvQ, worker>>

\* Under d.mu.  The socket stays open, and the reader goes on.
Stop ==
  /\ Alive /\ ~stopped /\ stopped' = TRUE
  /\ rcvQ' = QShutDown(rcvQ) /\ sndQ' = QShutDown(sndQ)
  /\ UNCHANGED <<sent, pressed, place, reader, runner, eventCount, payload, taken,
                 came, worker>>

LircNext ==
  \/ \E p \in Packets : LircdSends(p)
  \/ ReadLine \/ ScanEnds \/ RunnerTakes \/ Handles \/ RunnerExits \/ RouterTakes
  \/ RouterAdds \/ WorkerGets \/ Stop

LircSpec == LircInit /\ [][LircNext]_lircVars

\* The goroutines and the message router are scheduled; lircd need not close the socket.
LircFairness ==
  /\ WF_lircVars(ReadLine) /\ WF_lircVars(HasLine /\ ScanEnds)
  /\ WF_lircVars(RunnerTakes) /\ WF_lircVars(Handles) /\ WF_lircVars(RunnerExits)
  /\ WF_lircVars(RouterTakes) /\ WF_lircVars(WorkerGets)
LircFairSpec == LircSpec /\ LircFairness

-----------------------------------------------------------------------------
(* Properties.                                                               *)

States == {"RECEIVE", "REPLY", "STATUS", "DATA_START", "DATA_LEN", "DATA", "END"}
Sending == {"no", "receive", "reply", "ended", "panic"}

\* The type of every variable.
LircTypeOK ==
  /\ sent \in Seq(Packets) /\ pressed \in Seq(Nat)
  /\ place.packet \in 0 .. Len(sent) /\ place.line \in Nat
  /\ reader.state \in States /\ reader.sends \in Sending
  /\ reader.message.success \in {0, 1} /\ reader.message.data \in Seq(Line)
  /\ runner.pc \in {"select", "handle", "exited"} /\ eventCount \in 0 .. MaxPackets
  /\ sndQ \in QueueType(0 .. MaxPackets) /\ taken \in Seq(Nat)
  /\ rcvQ \in QueueType(1 .. MaxMsgs) /\ worker \in {"get", "exited"}

\* What a packet says, read without a state machine: its command, and the lines
\* between the length and the end.
Meaning(p) ==
  [command |-> p[2],
   success |-> IF p[3].is = "ERROR" THEN 0 ELSE 1,
   len |-> IF Len(p) > 4 THEN p[5].n ELSE 0,
   data |-> IF Len(p) > 4 THEN SubSeq(p, 6, Len(p) - 1) ELSE <<>>]

\* The reply the reader has for a caller is what the last packet read says, whatever
\* came before it: presses, packets it refused, lines it passed over (lirc.go:80-172).
ReplyIsPacket == reader.sends = "reply" => reader.message = Meaning(sent[place.packet])

\* The message router gets the buttons in the order in which they were pressed, none
\* left out and none twice: no two events have one version, so the send queue never
\* takes one for another (lirc.go:161-182 of the controller, queue.go).
PressesInOrder == IsPrefix(taken, pressed)

\* The reader will take no more presses: it waits for someone to take a reply, is among
\* data without an end, or has returned.
Deaf == \/ reader.sends \in {"reply", "ended"}
        \/ reader.state = "DATA" /\ reader.message.len = 0

\* Every button pressed reaches the message router, whatever replies, broadcasts and
\* broken packets come between, unless the controller is stopped, the reader is deaf,
\* or a short line has ended the daemon (lirc.go:80-172).
PressesReachRouter ==
  \A k \in 1 .. MaxPackets :
    Len(pressed) >= k ~> (Len(taken) >= k \/ stopped \/ Deaf \/ Crashed)

\* After Stop both routines of the controller end (lirc.go:120-159), while the reader
\* goes on, which may still end the daemon.
StopEndsRoutines ==
  stopped ~> ((worker = "exited" /\ runner.pc = "exited") \/ Crashed)

\* The reader tells packets and presses apart and loses neither its place nor an
\* event (lirc.go:64-172).
LircInv == LircTypeOK /\ ReplyIsPacket /\ PressesInOrder

\* Presses get through until Stop, and Stop ends what carries them
\* (lirc.go:101-182 of the controller).
LircServes == PressesReachRouter /\ StopEndsRoutines

=============================================================================
