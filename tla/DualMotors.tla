----------------------------- MODULE DualMotors -----------------------------
(***************************************************************************)
(* The driver of the two motors (drivers/dualmotors.go).  Its work         *)
(* goroutine takes commands off the receive queue and sets both wheels     *)
(* under d.mu, which Stop holds from its first step to its last.  Starting *)
(* and halting the motors themselves does nothing in the gobot library, so *)
(* the wheels keep the speed of the last command when the driver stops.    *)
(***************************************************************************)
EXTENDS Integers, QueueOps

CONSTANTS Ids,     \* the IDs of commands: a sub-type and a version
          Foreign, \* those of another qualifier, or of another type
          Loads,   \* the data of a command: a record with a speed, a press
          NoLoad

VARIABLES motorQ,    \* the receive queue
          load,      \* the data of each command in it
          motor,     \* the work goroutine: its place, its command and the data
          wheels,    \* what was last written to the right and the left motor
          motorStop, \* how far Stop is
          late        \* commands carried out after Stop returned (history)

motorVars == <<motorQ, load, motor, wheels, motorStop, late>>

\* The worker has no command.
NoId == <<>>

\* byte(x) for an unsigned x.
Byte(x) == x % 256
Forward(speed) == [dir |-> "forward", speed |-> Byte(speed)]
Backward(speed) == [dir |-> "backward", speed |-> Byte(speed)]

\* What ProcessDriveCmd makes of the wheels; an unknown command changes nothing.
Wheels(now, action, speed) ==
  CASE action = "forward"  -> [right |-> Forward(speed), left |-> Forward(speed)]
    [] action = "backward" -> [right |-> Backward(speed), left |-> Backward(speed)]
    [] action = "stop"     -> [right |-> Forward(0), left |-> Forward(0)]
    [] action = "left"     -> [right |-> Forward(speed), left |-> Backward(speed)]
    [] action = "right"    -> [right |-> Backward(speed), left |-> Forward(speed)]
    [] action = "forward-right" ->
         [right |-> Forward(speed - 50), left |-> Forward(speed + 50)]
    [] action = "forward-left" ->
         [right |-> Forward(speed + 50), left |-> Forward(speed - 50)]
    [] OTHER -> now

MotorInit ==
  /\ motorQ = NewQueue /\ load = <<>> /\ motor = [pc |-> "get", id |-> NoId, what |-> NoLoad]
  /\ wheels = [right |-> Forward(0), left |-> Forward(0)]
  /\ motorStop = "no" /\ late = 0

MotorMuFree == motorStop \in {"no", "done"}

\* The router adds a message.  The data of one that is refused, or for which Done
\* will queue the message in hand again, are lost.
MotorReceives(id, what) ==
  /\ motorQ' = QAdd(motorQ, id)
  /\ load' = IF Appends(motorQ, id) THEN Append(load, what) ELSE load
  /\ UNCHANGED <<motor, wheels, motorStop, late>>

\* Mutant of MotorTakes: the qualifier is not looked at.
MotorTakesAll ==
  /\ motor.pc = "get" /\ motorQ.items # <<>>
  /\ motorQ' = QTake(motorQ) /\ load' = Tail(load)
  /\ motor' = [pc |-> "lock", id |-> Head(motorQ.items), what |-> Head(load)]
  /\ UNCHANGED <<wheels, motorStop, late>>

\* A message for another driver is done with at once.
MotorTakes ==
  /\ motor.pc = "get" /\ motorQ.items # <<>>
  /\ LET id == Head(motorQ.items)
     IN IF id \in Foreign
        THEN motorQ' = QDone(QTake(motorQ), id) /\ motor' = motor
        ELSE /\ motorQ' = QTake(motorQ)
             /\ motor' = [pc |-> "lock", id |-> id, what |-> Head(load)]
  /\ load' = Tail(load) /\ UNCHANGED <<wheels, motorStop, late>>

\* The select finds killChan closed, or Get the queue closed and empty.
MotorExits ==
  /\ motor.pc = "get"
  /\ motorStop = "done" \/ (motorQ.items = <<>> /\ motorQ.closed)
  /\ motor' = [motor EXCEPT !.pc = "exited"]
  /\ UNCHANGED <<motorQ, load, wheels, motorStop, late>>

\* Mutant of NextLook: the loop does not look at killChan, only Get tells it.
NextGet == "get"

\* The select of the worker's loop.
NextLook == IF motorStop = "done" THEN "exited" ELSE "get"

\* ProcessDriveCmd, Done, and the look at killChan that comes next.
ProcessDriveCmd ==
  /\ motor.pc = "lock" /\ MotorMuFree
  /\ wheels' = Wheels(wheels, motor.id[1], motor.what.speed)
  /\ motorQ' = QDone(motorQ, motor.id)
  /\ load' = IF Requeues(motorQ, motor.id) THEN Append(load, motor.what) ELSE load
  /\ motor' = [pc |-> NextLook, id |-> NoId, what |-> NoLoad]
  /\ late' = IF motorStop = "done" THEN late + 1 ELSE late
  /\ UNCHANGED motorStop

\* Stop takes d.mu, halts the motors and shuts the queue down.
MotorStopQueue ==
  /\ motorStop = "no" /\ motorStop' = "queues" /\ motorQ' = QShutDown(motorQ)
  /\ UNCHANGED <<load, motor, wheels, late>>

\* It closes killChan and unlocks.
MotorStopKill ==
  /\ motorStop = "queues" /\ motorStop' = "done"
  /\ UNCHANGED <<motorQ, load, motor, wheels, late>>

-----------------------------------------------------------------------------
Wheel == [dir : {"forward", "backward"}, speed : 0 .. 255]

MotorTypeOK ==
  /\ motorQ \in QueueType(Ids) /\ load \in Seq(Loads) /\ Len(load) = Len(motorQ.items)
  /\ motor \in [pc : {"get", "lock", "exited"}, id : Ids \cup {NoId},
               what : Loads \cup {NoLoad}]
  /\ wheels \in [right : Wheel, left : Wheel]
  /\ motorStop \in {"no", "queues", "done"} /\ late \in Nat

\* Once Stop has returned the wheels are set at most once more, by the command
\* that waited for d.mu meanwhile (dualmotors.go:137, 153, 215).
AtMostOneAfterStop == late <= 1

=============================================================================
