----------------------------- MODULE AutoDrive ------------------------------
(***************************************************************************)
(* The autonomous drive controller (controllers/autonomous_drive.go): one  *)
(* goroutine takes the readings of the distance sensor and the buttons of  *)
(* the remote control off rcvQ, one turns a button into a drive command,   *)
(* and one sends a forward command every second, at a speed that depends   *)
(* on how many readings came since the last.                               *)
(*                                                                         *)
(* The sensor may have a reading for the controller at any moment, so a    *)
(* tick may find any number of them; up to one, two to five and more are   *)
(* told apart.  Each button pressed has an ID of its own; the IDs of the   *)
(* commands are {sub-type, version}, with one count of versions for the    *)
(* buttons and one for the ticks.                                          *)
(***************************************************************************)
EXTENDS Naturals, QueueOps

CONSTANTS Buttons,        \* the buttons that are pressed
          MaxPresses,     \* bound: how many times
          MaxTicks,       \* bound: ticks of the timer
          maxSpeedValue, stopSpeedValue, fadeAmount

\* 210, 75 and 15 in the code.
ASSUME SpeedAssumption ==
  /\ maxSpeedValue \in Nat /\ stopSpeedValue \in Nat /\ fadeAmount \in Nat \ {0}
  /\ \E k \in 0 .. maxSpeedValue : maxSpeedValue = stopSpeedValue + k * fadeAmount

ASSUME PressAssumption == MaxPresses \in Nat /\ MaxTicks \in Nat

VARIABLES pressed,     \* the buttons pressed so far (history)
          rcvQ,        \* the receive queue, of presses: indices of pressed
          worker,      \* work: its place and the press it hands over
          lirc,        \* lircProcessor: its place and its version
          tick,        \* ultrasonicProcessor: speed and version
          sndQ,        \* the send queue
          payload,     \* what travels with each command in the send queue
          driveStopped \* whether Stop was called

driveVars == <<pressed, rcvQ, worker, lirc, tick, sndQ, payload, driveStopped>>

\* The speed, and whose command it is (history): that of a press, or of a tick, 0.
Payloads == [speed : Nat, press : 0 .. MaxPresses]
NoPayload == [speed |-> 0, press |-> 0]

\* lircProcessor: any other button stops.
ActionOf(button) ==
  CASE button = "BTN_LEFT" -> "left" [] button = "BTN_RIGHT" -> "right"
    [] button = "BTN_TOP" -> "forward" [] button = "BTN_BACK" -> "backward"
    [] OTHER -> "stop"

\* The IDs of the commands: {sub-type, version}.
Commands == ({ActionOf(b) : b \in Buttons} \cup {"forward"})
            \X (0 .. MaxPresses + MaxTicks)

DriveInit ==
  /\ pressed = <<>> /\ rcvQ = NewQueue /\ worker = [pc |-> "get", press |-> 0]
  /\ lirc = [pc |-> "wait", version |-> 0]
  /\ tick = [speed |-> stopSpeedValue, version |-> 0]
  /\ sndQ = NewQueue /\ payload = <<>> /\ driveStopped = FALSE

Press(button) ==
  /\ Len(pressed) < MaxPresses
  /\ pressed' = Append(pressed, button) /\ rcvQ' = QAdd(rcvQ, Len(pressed) + 1)
  /\ UNCHANGED <<worker, lirc, tick, sndQ, payload, driveStopped>>

-----------------------------------------------------------------------------
(* work and messageHandler.  stateMU is held from the moment a press is      *)
(* taken until lircProcessor has received it on the unbuffered channel.      *)

StateMuFree == worker.pc # "send"

TakePress ==
  /\ worker.pc = "get" /\ rcvQ.items # <<>>
  /\ worker' = [pc |-> "send", press |-> Head(rcvQ.items)]
  /\ rcvQ' = QTake(rcvQ)
  /\ UNCHANGED <<pressed, lirc, tick, sndQ, payload, driveStopped>>

\* Get reports the shutdown of an empty queue, or the loop, which has not reached
\* Get yet, finds killChan closed; in an open queue Get goes on waiting.
WorkerExits ==
  /\ worker.pc = "get" /\ rcvQ.closed /\ (driveStopped \/ rcvQ.items = <<>>)
  /\ worker' = [worker EXCEPT !.pc = "exited"]
  /\ UNCHANGED <<pressed, rcvQ, lirc, tick, sndQ, payload, driveStopped>>

-----------------------------------------------------------------------------
(* The two producers of drive commands.                                      *)

\* The payload of an ID that is refused, or that Done will queue again, is lost.
Sends(command, what) ==
  /\ sndQ' = QAdd(sndQ, command)
  /\ payload' = IF Appends(sndQ, command) THEN Append(payload, what) ELSE payload

\* Mutant of HandOver: lircProcessor takes stateMU for what it receives.
HandOverLocked ==
  /\ worker.pc = "send" /\ lirc.pc = "wait" /\ StateMuFree
  /\ worker' = [pc |-> "get", press |-> 0] /\ rcvQ' = QDone(rcvQ, worker.press)
  /\ Sends(<<ActionOf(pressed[worker.press]), lirc.version>>,
           [speed |-> maxSpeedValue, press |-> worker.press])
  /\ lirc' = [lirc EXCEPT !.version = @ + 1]
  /\ UNCHANGED <<pressed, tick, driveStopped>>

\* Mutant of HandOver: the version is not counted.
HandOverSameVersion ==
  /\ worker.pc = "send" /\ lirc.pc = "wait"
  /\ worker' = [pc |-> "get", press |-> 0] /\ rcvQ' = QDone(rcvQ, worker.press)
  /\ Sends(<<ActionOf(pressed[worker.press]), lirc.version>>,
           [speed |-> maxSpeedValue, press |-> worker.press])
  /\ UNCHANGED <<pressed, lirc, tick, driveStopped>>

\* lircEvent passes the press on: the handler unlocks, the worker is done, and
\* lircProcessor adds the command.
HandOver ==
  /\ worker.pc = "send" /\ lirc.pc = "wait"
  /\ worker' = [pc |-> "get", press |-> 0] /\ rcvQ' = QDone(rcvQ, worker.press)
  /\ Sends(<<ActionOf(pressed[worker.press]), lirc.version>>,
           [speed |-> maxSpeedValue, press |-> worker.press])
  /\ lirc' = [lirc EXCEPT !.version = @ + 1]
  /\ UNCHANGED <<pressed, tick, driveStopped>>

LircExits ==
  /\ lirc.pc = "wait" /\ driveStopped
  /\ lirc' = [lirc EXCEPT !.pc = "exited"]
  /\ UNCHANGED <<pressed, rcvQ, worker, tick, sndQ, payload, driveStopped>>

\* Mutant of SpeedAfter: the bound is looked at after the step.
SpeedAfterStep(speed, n) ==
  CASE n <= 1 -> stopSpeedValue
    [] n > 5  -> IF speed <= maxSpeedValue THEN speed + fadeAmount ELSE speed
    [] OTHER  -> IF speed > stopSpeedValue THEN speed - fadeAmount ELSE speed

\* Mutant of SpeedAfter: a fade down does not look at the speed.
SpeedAfterBelow(speed, n) ==
  CASE n <= 1 -> stopSpeedValue
    [] n > 5  -> IF speed < maxSpeedValue THEN speed + fadeAmount ELSE speed
    [] OTHER  -> speed - fadeAmount

\* The speed of the next command, after n readings.
SpeedAfter(speed, n) ==
  CASE n <= 1 -> stopSpeedValue
    [] n > 5  -> IF speed < maxSpeedValue THEN speed + fadeAmount ELSE speed
    [] OTHER  -> IF speed > stopSpeedValue THEN speed - fadeAmount ELSE speed

\* The function the timer calls, under stateMU; once Shutdown is set it returns.
Tick ==
  /\ StateMuFree /\ ~driveStopped /\ tick.version < MaxTicks
  /\ \E n \in {0, 2, 6} :
       LET speed == SpeedAfter(tick.speed, n)
       IN /\ tick' = [speed |-> speed, version |-> tick.version + 1]
          /\ Sends(<<"forward", tick.version>>, [speed |-> speed, press |-> 0])
  /\ UNCHANGED <<pressed, rcvQ, worker, lirc, driveStopped>>

-----------------------------------------------------------------------------
\* Mutant of DriveStop: the receive queue stays open.
DriveStopsSending ==
  /\ ~driveStopped /\ driveStopped' = TRUE /\ sndQ' = QShutDown(sndQ)
  /\ UNCHANGED <<pressed, rcvQ, worker, lirc, tick, payload>>

\* Stop does not take stateMU: queues, Shutdown and killChan.  What the others do
\* between these steps they may also do before or after them.
DriveStop ==
  /\ ~driveStopped /\ driveStopped' = TRUE
  /\ rcvQ' = QShutDown(rcvQ) /\ sndQ' = QShutDown(sndQ)
  /\ UNCHANGED <<pressed, worker, lirc, tick, payload>>

DriveNext ==
  \/ \E b \in Buttons : Press(b)
  \/ TakePress \/ WorkerExits \/ HandOver \/ LircExits \/ Tick
  \/ DriveStop

-----------------------------------------------------------------------------
DriveTypeOK ==
  /\ pressed \in Seq(Buttons) /\ rcvQ \in QueueType(1 .. MaxPresses)
  /\ worker \in [pc : {"get", "send", "exited"}, press : 0 .. MaxPresses]
  /\ lirc \in [pc : {"wait", "exited"}, version : Nat]
  /\ tick \in [speed : Nat, version : Nat]
  /\ sndQ \in QueueType(Commands) /\ payload \in Seq(Payloads) /\ Len(payload) = Len(sndQ.items)
  /\ driveStopped \in BOOLEAN

\* The speed of a tick stays between that of standing and the maximum
\* (autonomous_drive.go:242-252): no step overshoots, or takes an unsigned
\* speed below zero.
SpeedInRange == tick.speed \in stopSpeedValue .. maxSpeedValue

\* Until Stop, messageHandler does not keep stateMU: what it sends on lircEvent
\* under the lock is received (autonomous_drive.go:166-175).
HandlerUnlocks == worker.pc = "send" ~> (worker.pc # "send" \/ driveStopped)

\* The worker is stranded in messageHandler: it waits for ever for a receiver of
\* lircEvent, which has ended, and keeps stateMU, for which the timer waits then.
Stranded == worker.pc = "send" /\ lirc.pc = "exited"

\* Stop ends the worker unless it strands it, which is a deadlock of the code: nothing
\* else of a press under way, or queued, keeps the worker from its end
\* (autonomous_drive.go:108, 166-175, 196, 233).
StopEndsOrStrandsWorker == driveStopped ~> (worker.pc = "exited" \/ Stranded)

\* The handler always unlocks, also after Stop (autonomous_drive.go:167).
HandlerAlwaysUnlocks == worker.pc = "send" ~> worker.pc # "send"

=============================================================================
