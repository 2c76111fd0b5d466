----------------------------- MODULE RemoteCar ------------------------------
(***************************************************************************)
(* The client that drives the car from a keyboard, over a stream to the    *)
(* message server (playground/seguepb-clients/remotecar/remotecar.go).     *)
(* One goroutine reads the keyboard and one runs a timer; the main loop    *)
(* turns a key into a command and, when the timer has fired twice without  *)
(* a key in between, sends "stop"; one goroutine takes the commands from   *)
(* cmdCh to the stream.  Every command has the version 1.                  *)
(*                                                                         *)
(* Commands under way on the stream are in cmdCh, which keeps their order  *)
(* as well.  A client that ends may leave any of them behind.              *)
(***************************************************************************)
EXTENDS Naturals, QueueOps

CONSTANTS KeyActions,    \* the commands of the keys that are pressed
          OtherKey,      \* a key without a command, or none of them
          cmdChCapacity  \* 10 in the code

ASSUME CapacityAssumption == cmdChCapacity \in Nat \ {0}

VARIABLES client, \* the main loop: whether it runs, noInputDetected, keys so far
          cmdCh,  \* the channel from the main loop to the stream
          serverQ \* the send queue of the message server

carVars == <<client, cmdCh, serverQ>>

SpeedOf(action) ==
  CASE action = "stop" -> 0
    [] action \in {"left", "right"} -> 250
    [] OTHER -> 200

CarActions == KeyActions \cup {"stop"}
CarId(action) == <<action, 1>>

CarInit ==
  /\ client = [on |-> TRUE, noInput |-> TRUE, keys |-> 0]
  /\ cmdCh = <<>> /\ serverQ = NewQueue

\* A send to the buffered channel, for which the main loop waits.
Puts(action) == Len(cmdCh) < cmdChCapacity /\ cmdCh' = Append(cmdCh, action)

\* The main loop takes a key.
KeyPressed(key) ==
  /\ client.on
  /\ IF key = OtherKey THEN UNCHANGED cmdCh ELSE Puts(key)
  /\ client' = [client EXCEPT !.noInput = FALSE, !.keys = @ + 1]
  /\ UNCHANGED serverQ

\* Mutant of TimerFires: noInputDetected is not set again.
TimerFiresOnce ==
  /\ client.on
  /\ IF client.noInput THEN Puts("stop") ELSE UNCHANGED cmdCh
  /\ UNCHANGED <<client, serverQ>>

\* The main loop hears from the timer.
TimerFires ==
  /\ client.on
  /\ IF client.noInput THEN Puts("stop") ELSE UNCHANGED cmdCh
  /\ client' = [client EXCEPT !.noInput = TRUE]
  /\ UNCHANGED serverQ

\* Escape ends the main loop, without a last "stop".
Quits ==
  /\ client.on /\ client' = [client EXCEPT !.on = FALSE]
  /\ UNCHANGED <<cmdCh, serverQ>>

\* The next command goes over the stream, and the server adds it to its queue.
StreamSends ==
  /\ cmdCh # <<>>
  /\ cmdCh' = Tail(cmdCh) /\ serverQ' = QAdd(serverQ, CarId(Head(cmdCh)))
  /\ UNCHANGED client

CarTypeOK ==
  /\ client \in [on : BOOLEAN, noInput : BOOLEAN, keys : Nat]
  /\ cmdCh \in Seq(CarActions) /\ Len(cmdCh) <= cmdChCapacity
  /\ serverQ \in QueueType({CarId(a) : a \in CarActions})

=============================================================================
