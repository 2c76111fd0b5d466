---------------------------- MODULE DriveProofs -----------------------------
(***************************************************************************)
(* For all speeds and fade amounts, buttons, remote commands and bounds:   *)
(* the speed of a tick and those of the wheels stay in their ranges, what  *)
(* comes with an ID through the queues fits it, and a stopped driver sets  *)
(* the wheels at most once more.                                           *)
(***************************************************************************)
EXTENDS DriveLoop, DataLemmas

\* The speed is a whole number of fades above that of standing, at most n, the
\* number of fades that lead to the maximum.
OnScale(n) == \E k \in 0 .. n : tick.speed = stopSpeedValue + k * fadeAmount

\* A fade up from below the n-th step of the scale, and a fade down to above the
\* lowest, stay on the scale.
LEMMA SpeedStaysOnScale ==
  ASSUME NEW n \in Nat, maxSpeedValue = stopSpeedValue + n * fadeAmount,
         NEW k \in 0 .. n, NEW speed, speed = stopSpeedValue + k * fadeAmount,
         NEW readings \in {0, 2, 6}
  PROVE  \E j \in 0 .. n : SpeedAfter(speed, readings) = stopSpeedValue + j * fadeAmount
<1>1. stopSpeedValue \in Nat /\ fadeAmount \in Nat \ {0} /\ k \in Nat
  BY SpeedAssumption
<1>2. 0 * fadeAmount = 0
  BY <1>1
<1>3. CASE SpeedAfter(speed, readings) = speed
  BY <1>3
<1>4. CASE SpeedAfter(speed, readings) = stopSpeedValue
  <2>1. stopSpeedValue = stopSpeedValue + 0 * fadeAmount
    BY <1>1, <1>2
  <2> QED BY <1>4, <2>1
<1>5. CASE speed < maxSpeedValue /\ SpeedAfter(speed, readings) = speed + fadeAmount
  <2>1. k # n
    BY <1>1, <1>5
  <2>2. (k + 1) * fadeAmount = k * fadeAmount + fadeAmount
    BY <1>1
  <2>3. k * fadeAmount \in Nat
    BY <1>1
  <2>4. k + 1 \in 0 .. n /\ speed + fadeAmount = stopSpeedValue + (k + 1) * fadeAmount
    BY <1>1, <2>1, <2>2, <2>3
  <2> QED BY <1>5, <2>4
<1>6. CASE speed > stopSpeedValue /\ SpeedAfter(speed, readings) = speed - fadeAmount
  <2>1. k # 0
    BY <1>1, <1>2, <1>6
  <2>2. k * fadeAmount = (k - 1) * fadeAmount + fadeAmount
    BY <1>1, <2>1
  <2>3. (k - 1) * fadeAmount \in Nat
    BY <1>1, <2>1
  <2>4. k - 1 \in 0 .. n /\ speed - fadeAmount = stopSpeedValue + (k - 1) * fadeAmount
    BY <1>1, <2>1, <2>2, <2>3
  <2> QED BY <1>6, <2>4
<1> QED BY <1>3, <1>4, <1>5, <1>6 DEF SpeedAfter

\* Only a tick sets its speed, and it stays on the scale.
LEMMA StepStaysOnScale ==
  ASSUME NEW n \in Nat, maxSpeedValue = stopSpeedValue + n * fadeAmount
  PROVE  OnScale(n) /\ [Next]_loopVars => OnScale(n)'
<1> SUFFICES ASSUME OnScale(n), [Next]_loopVars PROVE OnScale(n)'
  OBVIOUS
<1>1. CASE Controller(Ticks)
  <2>1. PICK readings \in {0, 2, 6} : tick'.speed = SpeedAfter(tick.speed, readings)
    BY <1>1 DEF Controller, Ticks, Tick
  <2>2. PICK k \in 0 .. n : tick.speed = stopSpeedValue + k * fadeAmount
    BY DEF OnScale
  <2>3. \E j \in 0 .. n :
          SpeedAfter(tick.speed, readings) = stopSpeedValue + j * fadeAmount
    BY SMTT(30), <2>2, SpeedStaysOnScale
  <2> QED BY <2>1, <2>3 DEF OnScale
<1>2. CASE tick' = tick
  BY <1>2 DEF OnScale
<1>3. CASE Next /\ ~Controller(Ticks)
  <2>1. ASSUME NEW b \in Buttons, Controller(Presses(b)) PROVE tick' = tick
    BY <2>1 DEF Controller, Presses, Press
  <2>2. Controller(TakePress) \/ Controller(WorkerExits) => tick' = tick
    BY DEF Controller, TakePress, WorkerExits
  <2>3. Controller(HandOver) \/ Controller(LircExits) => tick' = tick
    BY DEF Controller, HandOver, LircExits
  <2>4. Controller(StopsDrive) => tick' = tick
    BY DEF Controller, StopsDrive, DriveStop
  <2>5. Route => tick' = tick
    BY DEF Route, RouteGet, RouteAdd
  <2>6. Runs => tick' = tick
    BY DEF Runs, driveVars
  <2>7. ASSUME NEW c \in RemoteCommands, RemoteSends(c) PROVE tick' = tick
    BY <2>7 DEF RemoteSends, driveVars
  <2>8. RouteClient => tick' = tick
    BY DEF RouteClient, ClientRouteGet, ClientRouteAdd, driveVars
  <2>9. tick' = tick
    BY <1>3, <2>1, <2>2, <2>3, <2>4, <2>5, <2>6, <2>7, <2>8
    DEF Next, Driver, Client, driveVars
  <2> QED BY <1>2, <2>9
<1>4. CASE UNCHANGED loopVars
  <2>1. tick' = tick
    BY <1>4 DEF loopVars, driveVars
  <2> QED BY <1>2, <2>1
<1> QED BY <1>1, <1>3, <1>4

\* The scale lies between its ends.
LEMMA ScaleInRange ==
  ASSUME NEW n \in Nat, maxSpeedValue = stopSpeedValue + n * fadeAmount, OnScale(n)
  PROVE  SpeedInRange
<1>1. PICK k \in 0 .. n : tick.speed = stopSpeedValue + k * fadeAmount
  BY DEF OnScale
<1>2. stopSpeedValue \in Nat /\ fadeAmount \in Nat \ {0} /\ k \in Nat /\ n - k \in Nat
  BY SpeedAssumption
<1>3. k * fadeAmount \in Nat /\ (n - k) * fadeAmount \in Nat
  BY <1>2
<1>4. n * fadeAmount = k * fadeAmount + (n - k) * fadeAmount
  BY <1>2
<1> QED BY <1>1, <1>2, <1>3, <1>4 DEF SpeedInRange

\* Whatever the speeds and the fade amount, if whole fades lead from the one to the
\* other no tick leaves the range (autonomous_drive.go:242-252).
THEOREM SpeedAlwaysInRange == Spec => []SpeedInRange
<1>1. PICK n \in Nat : maxSpeedValue = stopSpeedValue + n * fadeAmount
  BY SpeedAssumption
<1>2. Init => OnScale(n)
  <2>1. stopSpeedValue = stopSpeedValue + 0 * fadeAmount
    BY SpeedAssumption
  <2> QED BY <2>1 DEF Init, DriveInit, OnScale
<1>3. OnScale(n) /\ [Next]_loopVars => OnScale(n)'
  BY <1>1, StepStaysOnScale
<1>4. OnScale(n) => SpeedInRange
  BY <1>1, ScaleInRange
<1> QED BY <1>2, <1>3, <1>4, PTL DEF Spec

-----------------------------------------------------------------------------
\* Before Stop has returned nothing counts, and the command that counts leaves the
\* worker at the select that ends it.
LateInv == late = 0 \/ (motorStop = "done" /\ late = 1 /\ motor.pc = "exited")

\* Every step keeps the count of late commands at one.
LEMMA StepKeepsLate == LateInv /\ [Next]_loopVars => LateInv'
<1> SUFFICES ASSUME LateInv, [Next]_loopVars PROVE LateInv'
  OBVIOUS
<1>1. CASE Runs
  <2>1. Motors!ProcessDriveCmd
    BY <1>1 DEF Runs
  <2>2. motor.pc = "lock" /\ late = 0 /\ motorStop' = motorStop
    BY <2>1 DEF Motors!ProcessDriveCmd, LateInv
  <2>3. CASE motorStop = "done"
    <3>1. motor'.pc = "exited" /\ late' = 1
      BY <2>1, <2>2, <2>3 DEF Motors!ProcessDriveCmd, Motors!NextLook
    <3> QED BY <2>2, <2>3, <3>1 DEF LateInv
  <2>4. CASE motorStop # "done"
    BY <2>1, <2>2, <2>4 DEF Motors!ProcessDriveCmd, LateInv
  <2> QED BY <2>3, <2>4
<1>2. CASE UNCHANGED <<motor, motorStop, late>>
  BY <1>2 DEF LateInv
<1>3. CASE Route
  BY <1>2, <1>3 DEF Route, RouteGet, RouteAdd, motorState, Motors!MotorReceives
<1>4. ASSUME NEW c \in RemoteCommands, RemoteSends(c) PROVE LateInv'
  BY <1>2, <1>4 DEF RemoteSends, Motors!MotorReceives
<1>5. CASE Driver(Motors!MotorTakes)
  BY <1>5 DEF Driver, Motors!MotorTakes, LateInv
<1>6. CASE Driver(Motors!MotorExits)
  BY <1>6 DEF Driver, Motors!MotorExits, LateInv
<1>7. CASE Driver(StopsMotors)
  BY <1>7 DEF Driver, StopsMotors, Motors!MotorStopQueue, LateInv
<1>8. CASE Driver(Motors!MotorStopKill)
  BY <1>8 DEF Driver, Motors!MotorStopKill, LateInv
<1>9. CASE UNCHANGED loopVars
  BY <1>2, <1>9 DEF loopVars, motorState
<1>10. CASE RouteClient
  BY <1>2, <1>10
  DEF RouteClient, ClientRouteGet, ClientRouteAdd, motorState, Motors!MotorReceives
<1> QED
  BY <1>1, <1>2, <1>3, <1>4, <1>5, <1>6, <1>7, <1>8, <1>9, <1>10
  DEF Next, Controller, Client, motorState

\* In every run the stopped driver sets the wheels at most once more
\* (dualmotors.go:137-157, 215).
THEOREM AtMostOneAlways == Spec => []AtMostOneAfterStop
<1>1. Init => LateInv
  BY DEF Init, Motors!MotorInit, LateInv
<1>2. LateInv => AtMostOneAfterStop
  BY DEF LateInv, AtMostOneAfterStop, Motors!AtMostOneAfterStop
<1> QED BY <1>1, <1>2, StepKeepsLate, PTL DEF Spec

-----------------------------------------------------------------------------
(* From the timer to the wheels.                                             *)

\* The number of presses that have left the receive queue, and of those that have
\* become commands.
Handed == lirc.version
Taken == Handed + IF worker.pc = "send" THEN 1 ELSE 0

\* The receive queue of the controller holds the presses after those, in order, all of
\* them until it is shut.
PressesKept ==
  /\ rcvQ.dirty \subseteq Elems(rcvQ.items)
  /\ rcvQ.processing = IF worker.pc = "send" THEN {worker.press} ELSE {}
  /\ worker.pc = "send" => worker.press = Taken
  /\ \A k \in DOMAIN rcvQ.items : rcvQ.items[k] = Taken + k
  /\ Taken + Len(rcvQ.items) <= Len(pressed)
  /\ ~rcvQ.closed => Taken + Len(rcvQ.items) = Len(pressed)
  /\ Len(pressed) <= MaxPresses /\ tick.version <= MaxTicks

\* A speed of the controller.
Own(speed) == speed \in stopSpeedValue .. maxSpeedValue

\* What waits in the send queue of the controller has a speed of its own.
CommandsKept == \A k \in DOMAIN payload : Own(payload[k].speed)

\* So has what a listener has in hand.
RoutersKept ==
  /\ clientRouter \in {CarId(a) : a \in CarActions} \cup {Motors!NoId}
  /\ \/ router = InGet
     \/ /\ router \in [id : Commands, what : Payloads]
        /\ Own(router.what.speed)

\* What may come with the ID of a command that is not for other motors.
Fits(id, what) ==
  id \in RemoteCommands
  \/ (id \in Commands /\ Own(what.speed))
  \/ \E a \in CarActions : id = CarId(a) /\ what.speed = SpeedOf(a)

\* A speed that the wheels may turn at.
Usual(w) == w.speed \in {0, 150, 200, 250} \cup stopSpeedValue .. maxSpeedValue

LoadsKept ==
  /\ \A k \in DOMAIN load : Fits(motorQ.items[k], load[k])
  /\ motor.pc = "lock" => motor.id \notin RemoteForeign /\ Fits(motor.id, motor.what)
  /\ RemoteCommands \subseteq RemoteForeign => Usual(wheels.right) /\ Usual(wheels.left)

LoopIInv(n) ==
  TypeOK /\ OnScale(n) /\ PressesKept /\ CommandsKept /\ RoutersKept /\ LoadsKept

\* The instance of the motors has the operators of QueueOps again.
LEMMA MotorOps ==
  ASSUME NEW q, NEW m, NEW S
  PROVE  /\ Motors!QAdd(q, m) = QAdd(q, m) /\ Motors!QTake(q) = QTake(q)
         /\ Motors!QDone(q, m) = QDone(q, m) /\ Motors!QShutDown(q) = QShutDown(q)
         /\ Motors!NewQueue = NewQueue /\ Motors!QueueType(S) = QueueType(S)
         /\ Motors!Appends(q, m) = Appends(q, m) /\ Motors!Requeues(q, m) = Requeues(q, m)
<1>1. Motors!Accepts(q, m) = Accepts(q, m)
  BY DEF Motors!Accepts, Accepts
<1>2. Motors!Appends(q, m) = Appends(q, m)
  BY <1>1 DEF Motors!Appends, Appends
<1>3. Motors!QAdd(q, m) = QAdd(q, m)
  BY <1>1, <1>2 DEF Motors!QAdd, QAdd
<1>4. Motors!Requeues(q, m) = Requeues(q, m)
  BY DEF Motors!Requeues, Requeues
<1>5. Motors!QDone(q, m) = QDone(q, m)
  BY <1>4 DEF Motors!QDone, QDone
<1> QED
  BY <1>2, <1>3, <1>4, <1>5
     DEF Motors!QTake, QTake, Motors!QShutDown, QShutDown, Motors!NewQueue, NewQueue,
         Motors!QueueType, QueueType

\* Numbers and types that the steps need.
LEMMA Speeds ==
  /\ stopSpeedValue \in Nat /\ maxSpeedValue \in Nat /\ stopSpeedValue <= maxSpeedValue
  /\ maxSpeedValue < 256 /\ Own(maxSpeedValue) /\ MaxPresses \in Nat /\ MaxTicks \in Nat
<1>1. PICK k \in 0 .. maxSpeedValue : maxSpeedValue = stopSpeedValue + k * fadeAmount
  BY SpeedAssumption
<1>2. stopSpeedValue \in Nat /\ maxSpeedValue \in Nat /\ k * fadeAmount \in Nat
  BY SpeedAssumption
<1> QED BY <1>1, <1>2, LoopAssumption, PressAssumption DEF Own

LEMMA ActionsOfButtons ==
  ASSUME NEW b \in Buttons, NEW v \in 0 .. MaxPresses + MaxTicks
  PROVE  <<ActionOf(b), v>> \in Commands /\ <<"forward", v>> \in Commands
BY DEF Commands

\* The data of a command go to the end.
LEMMA PayloadAtEnd ==
  ASSUME CommandsKept, payload \in Seq(Payloads), NEW what \in Payloads, Own(what.speed),
         payload' = Append(payload, what)
  PROVE  CommandsKept' /\ payload' \in Seq(Payloads) /\ Len(payload') = Len(payload) + 1
<1>1. /\ payload' \in Seq(Payloads) /\ Len(payload') = Len(payload) + 1
      /\ payload'[Len(payload) + 1] = what /\ Len(payload) \in Nat
      /\ DOMAIN payload = 1 .. Len(payload) /\ DOMAIN payload' = 1 .. Len(payload) + 1
      /\ \A k \in 1 .. Len(payload) : payload'[k] = payload[k]
  BY AppendProperties
<1>2. ASSUME NEW k \in DOMAIN payload' PROVE Own(payload'[k].speed)
  <2>1. CASE k = Len(payload) + 1
    BY <1>1, <2>1
  <2>2. CASE k \in DOMAIN payload
    BY <1>1, <2>2 DEF CommandsKept
  <2> QED BY <1>1, <2>1, <2>2
<1>3. CommandsKept'
  BY <1>2 DEF CommandsKept, Own
<1> QED BY <1>1, <1>3

\* A command that is sent joins the others, which keep their data.
LEMMA SendsCommand ==
  ASSUME CommandsKept, sndQ \in QueueType(Commands), payload \in Seq(Payloads),
         Len(payload) = Len(sndQ.items),
         NEW c \in Commands, NEW what \in Payloads, Own(what.speed), Sends(c, what)
  PROVE  /\ CommandsKept' /\ sndQ' \in QueueType(Commands)
         /\ payload' \in Seq(Payloads) /\ Len(payload') = Len(sndQ'.items)
<1>1. sndQ' \in QueueType(Commands) /\ sndQ.items \in Seq(Commands) /\ sndQ' = QAdd(sndQ, c)
  BY QueueOpsType DEF Sends, QueueType
<1>2. CASE ~Appends(sndQ, c)
  <2>1. payload' = payload
    BY <1>2 DEF Sends
  <2>2. sndQ'.items = sndQ.items
    <3> DEFINE d == sndQ.dirty \cup {c}
    <3>1. sndQ' = sndQ \/ sndQ' = [sndQ EXCEPT !.dirty = d, !.items = sndQ.items]
      BY <1>1, <1>2 DEF QAdd
    <3> HIDE DEF d
    <3> QED BY <3>1 DEF QueueType
  <2> QED BY <1>1, <2>1, <2>2 DEF CommandsKept, Own
<1>3. CASE Appends(sndQ, c)
  <2>1. sndQ'.items = Append(sndQ.items, c)
    BY <1>1, <1>3, AddEffect DEF Appends, Accepts
  <2>2. Len(sndQ'.items) = Len(sndQ.items) + 1
    BY <1>1, <2>1, AppendProperties
  <2>3. payload' = Append(payload, what)
    BY <1>3 DEF Sends
  <2> QED BY <1>1, <2>2, <2>3, PayloadAtEnd
<1> QED BY <1>2, <1>3

\* The presses in the receive queue come after those taken and before those to come.
LEMMA PressesInQueue ==
  ASSUME DriveTypeOK, PressesKept
  PROVE  /\ Taken \in Nat /\ Len(pressed) \in Nat /\ Len(rcvQ.items) \in Nat
         /\ DOMAIN rcvQ.items = 1 .. Len(rcvQ.items)
         /\ \A x \in Elems(rcvQ.items) : Taken < x /\ x <= Len(pressed)
         /\ \A x \in rcvQ.dirty : Taken < x /\ x <= Len(pressed)
<1>1. lirc.version \in Nat /\ Taken \in Nat
  BY DEF DriveTypeOK, Taken, Handed
<1>2. Len(pressed) \in Nat
  BY DEF DriveTypeOK
<1>3. rcvQ.items \in Seq(1 .. MaxPresses)
  BY DEF DriveTypeOK, QueueType
<1>4. Len(rcvQ.items) \in Nat /\ DOMAIN rcvQ.items = 1 .. Len(rcvQ.items)
  BY <1>3
<1>5. ASSUME NEW k \in 1 .. Len(rcvQ.items)
      PROVE  Taken < rcvQ.items[k] /\ rcvQ.items[k] <= Len(pressed)
  <2>1. rcvQ.items[k] = Taken + k /\ Taken + Len(rcvQ.items) <= Len(pressed)
    BY <1>4 DEF PressesKept
  <2> QED BY <1>1, <1>2, <1>4, <2>1
<1>6. \A x \in Elems(rcvQ.items) : Taken < x /\ x <= Len(pressed)
  BY <1>4, <1>5 DEF Elems
<1>7. rcvQ.dirty \subseteq Elems(rcvQ.items)
  BY DEF PressesKept
<1> QED BY <1>1, <1>2, <1>4, <1>6, <1>7

\* A press goes behind the others, unless the queue is shut.
LEMMA PressKeeps ==
  ASSUME DriveTypeOK, PressesKept, NEW b \in Buttons, Press(b)
  PROVE  DriveTypeOK' /\ PressesKept'
<1> DEFINE n == Len(pressed)
           i == rcvQ.items
<1>1. /\ pressed' = Append(pressed, b) /\ rcvQ' = QAdd(rcvQ, n + 1) /\ n < MaxPresses
      /\ UNCHANGED <<worker, lirc, tick, sndQ, payload, driveStopped>>
  BY DEF Press
<1>2. /\ Taken \in Nat /\ n \in Nat /\ Len(i) \in Nat /\ DOMAIN i = 1 .. Len(i)
      /\ \A x \in Elems(i) : Taken < x /\ x <= n
      /\ \A x \in rcvQ.dirty : Taken < x /\ x <= n
  BY PressesInQueue
<1>3. pressed' \in Seq(Buttons) /\ Len(pressed') = n + 1
  BY <1>1 DEF DriveTypeOK
<1>4. n + 1 \in 1 .. MaxPresses /\ MaxPresses \in Nat
  BY <1>1, <1>2, Speeds
<1>5. rcvQ \in QueueType(1 .. MaxPresses) /\ i \in Seq(1 .. MaxPresses)
  BY DEF DriveTypeOK, QueueType
<1>6. rcvQ' \in QueueType(1 .. MaxPresses)
  BY <1>1, <1>4, <1>5, QueueOpsType
<1>7. DriveTypeOK'
  BY <1>1, <1>3, <1>6 DEF DriveTypeOK
<1>8. Taken' = Taken
  BY <1>1 DEF Taken, Handed
<1>9. worker.pc = "send" => worker.press = Taken
  BY DEF PressesKept
<1>10. Taken + Len(i) <= n /\ (~rcvQ.closed => Taken + Len(i) = n)
  BY DEF PressesKept
<1>11. CASE rcvQ.closed
  <2>1. rcvQ' = rcvQ
    BY <1>1, <1>4, <1>5, <1>11, AddEffect
  <2> HIDE DEF n, i
  <2>2. Taken' + Len(rcvQ'.items) <= Len(pressed') /\ Len(pressed') <= MaxPresses
    BY <1>2, <1>3, <1>4, <1>8, <1>10, <2>1 DEF i
  <2> QED BY <1>1, <1>7, <1>8, <1>11, <2>1, <2>2 DEF PressesKept, Elems
<1>12. CASE ~rcvQ.closed
  <2>1. n + 1 \notin rcvQ.dirty /\ n + 1 \notin rcvQ.processing
    <3>1. rcvQ.processing = IF worker.pc = "send" THEN {worker.press} ELSE {}
      BY DEF PressesKept
    <3>2. worker.pc = "send" => worker.press <= n
      BY <1>2, <1>9, <1>10
    <3> QED BY <1>2, <3>1, <3>2
  <2>2. /\ rcvQ'.items = Append(i, n + 1) /\ rcvQ'.processing = rcvQ.processing
        /\ rcvQ'.dirty = rcvQ.dirty \cup {n + 1} /\ ~rcvQ'.closed
    BY <1>1, <1>4, <1>5, <1>12, <2>1, AddEffect
  <2> HIDE DEF n, i
  <2>3. Elems(Append(i, n + 1)) = Elems(i) \cup {n + 1}
    BY <1>4, <1>5, ElemsAppend
  <2>4. rcvQ.dirty \subseteq Elems(i)
    BY DEF PressesKept, i
  <2>5. /\ Len(Append(i, n + 1)) = Len(i) + 1 /\ DOMAIN Append(i, n + 1) = 1 .. Len(i) + 1
        /\ Append(i, n + 1)[Len(i) + 1] = n + 1
        /\ \A k \in 1 .. Len(i) : Append(i, n + 1)[k] = i[k]
    BY <1>4, <1>5
  <2>6. \A k \in 1 .. Len(i) : i[k] = Taken + k
    BY <1>2 DEF PressesKept, i
  <2>7. Taken + Len(i) = n
    BY <1>10, <1>12
  <2>8. \A k \in 1 .. Len(i) + 1 : Append(i, n + 1)[k] = Taken + k
    BY <1>2, <2>5, <2>6, <2>7
  <2>9. Taken' + Len(rcvQ'.items) = Len(pressed') /\ Len(pressed') <= MaxPresses
    BY <1>2, <1>3, <1>4, <1>8, <2>2, <2>5, <2>7
  <2>10. Taken' + Len(rcvQ'.items) <= Len(pressed')
    BY <1>2, <1>3, <2>9
  <2>11. rcvQ'.dirty \subseteq Elems(rcvQ'.items)
    BY <2>2, <2>3, <2>4
  <2>12. \A k \in DOMAIN rcvQ'.items : rcvQ'.items[k] = Taken' + k
    BY <1>8, <2>2, <2>5, <2>8
  <2>13. /\ rcvQ'.processing = IF worker'.pc = "send" THEN {worker'.press} ELSE {}
         /\ worker'.pc = "send" => worker'.press = Taken'
         /\ tick'.version <= MaxTicks
    BY <1>1, <1>8, <1>9, <2>2 DEF PressesKept
  <2> QED BY <1>7, <2>9, <2>10, <2>11, <2>12, <2>13 DEF PressesKept
<1> QED BY <1>7, <1>11, <1>12

\* The press at the head of the queue is the next.
LEMMA TakePressKeeps ==
  ASSUME DriveTypeOK, PressesKept, TakePress
  PROVE  DriveTypeOK' /\ PressesKept'
<1> DEFINE i == rcvQ.items
           h == Head(rcvQ.items)
<1>1. /\ worker.pc = "get" /\ i # <<>> /\ worker' = [pc |-> "send", press |-> h]
      /\ rcvQ' = QTake(rcvQ) /\ UNCHANGED <<pressed, lirc, tick, sndQ, payload, driveStopped>>
  BY DEF TakePress
<1>2. rcvQ \in QueueType(1 .. MaxPresses) /\ i \in Seq(1 .. MaxPresses)
  BY DEF DriveTypeOK, QueueType
<1>3. rcvQ' \in QueueType(1 .. MaxPresses) /\ h \in 1 .. MaxPresses
  BY <1>1, <1>2, QTakeType
<1>4. worker' \in [pc : {"get", "send", "exited"}, press : 0 .. MaxPresses]
  BY <1>1, <1>3, Speeds
<1>5. DriveTypeOK'
  BY <1>1, <1>3, <1>4 DEF DriveTypeOK
<1>6. /\ rcvQ'.items = Tail(i) /\ rcvQ'.processing = rcvQ.processing \cup {h}
      /\ rcvQ'.dirty = rcvQ.dirty \ {h} /\ rcvQ'.closed = rcvQ.closed
  BY <1>1, <1>2 DEF QTake, QueueType
<1>7. /\ Taken = lirc.version /\ lirc.version \in Nat /\ Taken' = lirc.version + 1
      /\ Len(pressed) \in Nat
  BY <1>1 DEF Taken, Handed, DriveTypeOK
<1>8. /\ rcvQ.processing = {} /\ rcvQ.dirty \subseteq Elems(i)
      /\ \A k \in DOMAIN i : i[k] = Taken + k
      /\ Taken + Len(i) <= Len(pressed) /\ (~rcvQ.closed => Taken + Len(i) = Len(pressed))
      /\ Len(pressed) <= MaxPresses /\ tick.version <= MaxTicks
  BY <1>1 DEF PressesKept
<1> HIDE DEF i, h
<1>9. /\ Len(i) \in Nat /\ Len(i) >= 1 /\ DOMAIN i = 1 .. Len(i) /\ h = i[1]
      /\ Len(Tail(i)) = Len(i) - 1 /\ DOMAIN Tail(i) = 1 .. Len(i) - 1
      /\ \A k \in 1 .. Len(i) - 1 : Tail(i)[k] = i[k + 1]
  BY <1>1, <1>2 DEF h, i
<1>10. Elems(i) \subseteq Elems(Tail(i)) \cup {h}
  BY <1>1, <1>2, ElemsTail DEF h, i
<1>11. h = Taken'
  BY <1>7, <1>8, <1>9
<1>12. \A k \in 1 .. Len(i) - 1 : Tail(i)[k] = Taken' + k
  BY <1>7, <1>8, <1>9
<1>13. /\ Taken' + Len(Tail(i)) <= Len(pressed)
       /\ ~rcvQ.closed => Taken' + Len(Tail(i)) = Len(pressed)
  BY <1>7, <1>8, <1>9
<1>14. rcvQ'.dirty \subseteq Elems(Tail(i)) /\ rcvQ'.processing = {h}
  BY <1>6, <1>8, <1>10
<1> QED BY <1>1, <1>5, <1>6, <1>8, <1>9, <1>11, <1>12, <1>13, <1>14 DEF PressesKept

\* The press in hand becomes a command; its data are its own.
LEMMA HandOverKeeps ==
  ASSUME DriveTypeOK, PressesKept, CommandsKept, HandOver
  PROVE  DriveTypeOK' /\ PressesKept' /\ CommandsKept'
<1> DEFINE i == rcvQ.items
           p == worker.press
           c == <<ActionOf(pressed[worker.press]), lirc.version>>
           what == [speed |-> maxSpeedValue, press |-> worker.press]
<1>1. /\ worker.pc = "send" /\ lirc.pc = "wait" /\ worker' = [pc |-> "get", press |-> 0]
      /\ rcvQ' = QDone(rcvQ, p) /\ Sends(c, what)
      /\ lirc' = [lirc EXCEPT !.version = @ + 1] /\ UNCHANGED <<pressed, tick, driveStopped>>
  BY DEF HandOver
<1>2. /\ Taken \in Nat /\ Len(pressed) \in Nat /\ Len(i) \in Nat /\ DOMAIN i = 1 .. Len(i)
      /\ \A x \in Elems(i) : Taken < x /\ x <= Len(pressed)
      /\ \A x \in rcvQ.dirty : Taken < x /\ x <= Len(pressed)
  BY PressesInQueue
<1>3. /\ p = Taken /\ Taken = lirc.version + 1 /\ lirc.version \in Nat
      /\ Taken <= Len(pressed) /\ Len(pressed) <= MaxPresses /\ MaxPresses \in Nat
      /\ MaxTicks \in Nat
  <2>1. p = Taken /\ Taken + Len(i) <= Len(pressed) /\ Len(pressed) <= MaxPresses
    BY <1>1 DEF PressesKept
  <2>2. Taken = lirc.version + 1 /\ lirc.version \in Nat
    BY <1>1 DEF Taken, Handed, DriveTypeOK
  <2> HIDE DEF i, p
  <2> QED BY <1>2, <2>1, <2>2, Speeds
<1>4. pressed \in Seq(Buttons) /\ p \in 1 .. Len(pressed) /\ p \in 0 .. MaxPresses
  BY <1>2, <1>3 DEF DriveTypeOK
<1>5. pressed[p] \in Buttons
  BY <1>4
<1>6. lirc.version \in 0 .. MaxPresses + MaxTicks
  BY <1>2, <1>3
<1>7. c \in Commands /\ what \in Payloads /\ Own(what.speed)
  <2>1. c \in Commands
    BY <1>5, <1>6, ActionsOfButtons
  <2>2. maxSpeedValue \in Nat /\ Own(maxSpeedValue)
    BY Speeds
  <2> QED BY <1>4, <2>1, <2>2 DEF Payloads
<1>8. rcvQ \in QueueType(1 .. MaxPresses)
  BY DEF DriveTypeOK
<1>9. rcvQ' \in QueueType(1 .. MaxPresses)
  BY <1>1, <1>8, QDoneType
<1>10. /\ CommandsKept' /\ sndQ' \in QueueType(Commands)
      /\ payload' \in Seq(Payloads) /\ Len(payload') = Len(sndQ'.items)
  <2>1. /\ sndQ \in QueueType(Commands)
        /\ payload \in Seq(Payloads) /\ Len(payload) = Len(sndQ.items)
    BY DEF DriveTypeOK
  <2> HIDE DEF c, what
  <2> QED BY <1>1, <1>7, <2>1, SendsCommand
<1>11. /\ lirc' \in [pc : {"wait", "exited"}, version : Nat]
       /\ lirc'.version = lirc.version + 1
  BY <1>1, <1>3 DEF DriveTypeOK
<1>12. worker' \in [pc : {"get", "send", "exited"}, press : 0 .. MaxPresses]
  BY <1>1, Speeds
<1>13. DriveTypeOK'
  BY <1>1, <1>9, <1>10, <1>11, <1>12 DEF DriveTypeOK
<1>14. p \notin rcvQ.dirty
  BY <1>2, <1>3
<1>15. /\ rcvQ'.items = i /\ rcvQ'.dirty = rcvQ.dirty /\ rcvQ'.closed = rcvQ.closed
       /\ rcvQ'.processing = rcvQ.processing \ {p}
  <2>1. ~Requeues(rcvQ, p)
    BY <1>14 DEF Requeues
  <2>2. rcvQ.dirty \ {p} = rcvQ.dirty
    BY <1>14
  <2> HIDE DEF p
  <2> QED BY <1>1, <1>8, <2>1, <2>2 DEF QDone, QueueType
<1>16. Taken' = Taken
  BY <1>1, <1>3, <1>11 DEF Taken, Handed
<1>17. rcvQ'.processing = {}
  BY <1>1, <1>15 DEF PressesKept
<1> HIDE DEF i, p, c, what
<1>18. PressesKept'
  BY <1>1, <1>15, <1>16, <1>17 DEF PressesKept, i
<1> QED BY <1>10, <1>13, <1>18

\* The steps of the controller that leave its queues alone.
LEMMA ExitsKeep ==
  ASSUME DriveTypeOK, PressesKept, CommandsKept, WorkerExits \/ LircExits
  PROVE  DriveTypeOK' /\ PressesKept' /\ CommandsKept'
<1>1. /\ UNCHANGED <<pressed, rcvQ, tick, sndQ, payload, driveStopped>>
      /\ worker'.pc = "send" <=> worker.pc = "send"
      /\ worker' = worker \/ worker' = [worker EXCEPT !.pc = "exited"]
      /\ lirc' = lirc \/ lirc' = [lirc EXCEPT !.pc = "exited"]
  BY DEF WorkerExits, LircExits, DriveTypeOK
<1>2. /\ worker' \in [pc : {"get", "send", "exited"}, press : 0 .. MaxPresses]
      /\ lirc' \in [pc : {"wait", "exited"}, version : Nat]
      /\ worker'.press = worker.press /\ lirc'.version = lirc.version
  BY <1>1 DEF DriveTypeOK
<1>3. DriveTypeOK'
  BY <1>1, <1>2 DEF DriveTypeOK
<1>4. Taken' = Taken
  BY <1>1, <1>2 DEF Taken, Handed
<1>5. PressesKept'
  BY <1>1, <1>2, <1>4 DEF PressesKept
<1>6. CommandsKept'
  BY <1>1 DEF CommandsKept
<1> QED BY <1>3, <1>5, <1>6

\* The next speed is on the scale as well, for any number of readings.
LEMMA SpeedStaysOwn ==
  ASSUME NEW n \in Nat, maxSpeedValue = stopSpeedValue + n * fadeAmount, OnScale(n),
         NEW readings \in {0, 2, 6}
  PROVE  Own(SpeedAfter(tick.speed, readings))
<1>1. PICK k \in 0 .. n : tick.speed = stopSpeedValue + k * fadeAmount
  BY DEF OnScale
<1>2. PICK j \in 0 .. n :
        SpeedAfter(tick.speed, readings) = stopSpeedValue + j * fadeAmount
  BY SMTT(30), <1>1, SpeedStaysOnScale
<1>3. stopSpeedValue \in Nat /\ fadeAmount \in Nat \ {0} /\ j \in Nat /\ n - j \in Nat
  BY SpeedAssumption
<1>4. j * fadeAmount \in Nat /\ (n - j) * fadeAmount \in Nat
  BY <1>3
<1>5. n * fadeAmount = j * fadeAmount + (n - j) * fadeAmount
  BY <1>3
<1>6. stopSpeedValue + j * fadeAmount \in stopSpeedValue .. maxSpeedValue
  BY <1>3, <1>4, <1>5
<1> QED BY <1>2, <1>6 DEF Own

\* A tick becomes a command.
LEMMA TickKeeps ==
  ASSUME NEW n \in Nat, maxSpeedValue = stopSpeedValue + n * fadeAmount, OnScale(n),
         DriveTypeOK, PressesKept, CommandsKept, Tick
  PROVE  DriveTypeOK' /\ PressesKept' /\ CommandsKept'
<1>1. PICK readings \in {0, 2, 6} :
        /\ tick' = [speed |-> SpeedAfter(tick.speed, readings), version |-> tick.version + 1]
        /\ Sends(<<"forward", tick.version>>,
                 [speed |-> SpeedAfter(tick.speed, readings), press |-> 0])
  BY DEF Tick
<1>2. tick.version < MaxTicks /\ UNCHANGED <<pressed, rcvQ, worker, lirc, driveStopped>>
  BY DEF Tick
<1> DEFINE v == SpeedAfter(tick.speed, readings)
           c == <<"forward", tick.version>>
           what == [speed |-> v, press |-> 0]
<1>3. Own(v)
  BY SpeedStaysOwn
<1> HIDE DEF v
<1>4. v \in Nat /\ MaxPresses \in Nat /\ MaxTicks \in Nat
  BY <1>3, Speeds DEF Own
<1>5. tick.version \in Nat /\ tick.version \in 0 .. MaxPresses + MaxTicks
  BY <1>2, <1>4 DEF DriveTypeOK
<1>6. c \in Commands
  BY <1>5 DEF Commands
<1>7. what \in Payloads /\ Own(what.speed)
  BY <1>3, <1>4 DEF Payloads
<1>8. Sends(c, what)
  BY <1>1 DEF v
<1>9. /\ CommandsKept' /\ sndQ' \in QueueType(Commands)
      /\ payload' \in Seq(Payloads) /\ Len(payload') = Len(sndQ'.items)
  <2>1. /\ sndQ \in QueueType(Commands)
        /\ payload \in Seq(Payloads) /\ Len(payload) = Len(sndQ.items)
    BY DEF DriveTypeOK
  <2> HIDE DEF c, what
  <2> QED BY <1>6, <1>7, <1>8, <2>1, SendsCommand
<1>10. tick' = [speed |-> v, version |-> tick.version + 1]
  BY <1>1 DEF v
<1>11. tick' \in [speed : Nat, version : Nat] /\ tick'.version <= MaxTicks
  BY <1>2, <1>4, <1>5, <1>10
<1>12. DriveTypeOK'
  BY <1>2, <1>9, <1>11 DEF DriveTypeOK
<1>13. Taken' = Taken
  BY <1>2 DEF Taken, Handed
<1>14. PressesKept'
  BY <1>2, <1>11, <1>13 DEF PressesKept
<1> QED BY <1>9, <1>12, <1>14

\* Stop shuts both queues down, with what is in them.
LEMMA DriveStopKeeps ==
  ASSUME DriveTypeOK, PressesKept, CommandsKept, DriveStop
  PROVE  DriveTypeOK' /\ PressesKept' /\ CommandsKept'
<1>1. /\ driveStopped' = TRUE /\ rcvQ' = QShutDown(rcvQ) /\ sndQ' = QShutDown(sndQ)
      /\ UNCHANGED <<pressed, worker, lirc, tick, payload>>
  BY DEF DriveStop
<1>2. rcvQ' \in QueueType(1 .. MaxPresses) /\ sndQ' \in QueueType(Commands)
  BY <1>1, QShutDownType DEF DriveTypeOK
<1>3. /\ rcvQ'.items = rcvQ.items /\ rcvQ'.dirty = rcvQ.dirty /\ rcvQ'.closed
      /\ rcvQ'.processing = rcvQ.processing
      /\ sndQ'.items = sndQ.items /\ sndQ'.dirty = sndQ.dirty
      /\ sndQ'.processing = sndQ.processing
  BY <1>1 DEF QShutDown, DriveTypeOK, QueueType
<1>4. DriveTypeOK'
  BY <1>1, <1>2, <1>3 DEF DriveTypeOK
<1>5. Taken' = Taken
  BY <1>1 DEF Taken, Handed
<1>6. PressesKept'
  BY <1>1, <1>3, <1>5 DEF PressesKept
<1>7. CommandsKept'
  BY <1>1, <1>3 DEF CommandsKept
<1> QED BY <1>4, <1>6, <1>7

\* What does not touch the receive queue, the worker or the ticks keeps the presses.
LEMMA PressesStay ==
  ASSUME DriveTypeOK, PressesKept,
         UNCHANGED <<pressed, rcvQ, worker, lirc, tick, driveStopped>>,
         sndQ' \in QueueType(Commands), payload' \in Seq(Payloads),
         Len(payload') = Len(sndQ'.items)
  PROVE  DriveTypeOK' /\ PressesKept'
<1>1. DriveTypeOK'
  BY DEF DriveTypeOK
<1>2. Taken' = Taken
  BY DEF Taken, Handed
<1> QED BY <1>1, <1>2 DEF PressesKept

\* The listener takes the head of the send queue with its data.
LEMMA RouteTakes ==
  ASSUME DriveTypeOK, PressesKept, CommandsKept, RoutersKept, RouteGet
  PROVE  DriveTypeOK' /\ PressesKept' /\ CommandsKept' /\ RoutersKept'
<1> DEFINE i == sndQ.items
           h == Head(sndQ.items)
<1>1. /\ i # <<>> /\ sndQ' = QTake(sndQ) /\ payload' = Tail(payload)
      /\ router' = [id |-> h, what |-> Head(payload)] /\ clientRouter' = clientRouter
      /\ UNCHANGED <<pressed, rcvQ, worker, lirc, tick, driveStopped>>
  BY DEF RouteGet
<1>2. /\ sndQ \in QueueType(Commands) /\ i \in Seq(Commands)
      /\ payload \in Seq(Payloads) /\ Len(payload) = Len(i)
  BY DEF DriveTypeOK, QueueType
<1>3. sndQ' \in QueueType(Commands) /\ h \in Commands
  BY <1>1, <1>2, QTakeType
<1>4. sndQ'.items = Tail(i)
  BY <1>1, <1>2 DEF QTake, QueueType
<1> HIDE DEF i, h
<1>5. /\ Len(payload) \in Nat /\ Len(payload) >= 1 /\ payload # <<>>
      /\ Len(Tail(i)) = Len(payload) - 1 /\ DOMAIN payload = 1 .. Len(payload)
  BY <1>1, <1>2
<1>6. /\ Tail(payload) \in Seq(Payloads) /\ Len(Tail(payload)) = Len(payload) - 1
      /\ Head(payload) = payload[1] /\ Head(payload) \in Payloads
      /\ DOMAIN Tail(payload) = 1 .. Len(payload) - 1
      /\ \A k \in 1 .. Len(payload) - 1 : Tail(payload)[k] = payload[k + 1]
  BY <1>2, <1>5
<1>7. DriveTypeOK' /\ PressesKept'
  BY <1>1, <1>3, <1>4, <1>5, <1>6, PressesStay
<1>8. \A k \in 1 .. Len(payload) : Own(payload[k].speed)
  BY <1>5 DEF CommandsKept
<1>9. CommandsKept'
  <2>1. \A k \in 1 .. Len(payload) - 1 : Own(payload[k + 1].speed)
    BY <1>5, <1>8
  <2>2. \A k \in DOMAIN payload' : Own(payload'[k].speed)
    BY <1>1, <1>6, <2>1
  <2> QED BY <2>2 DEF CommandsKept, Own
<1>10. router' \in [id : Commands, what : Payloads] /\ Own(router'.what.speed)
  BY <1>1, <1>3, <1>5, <1>6, <1>8
<1>11. RoutersKept'
  BY <1>1, <1>10 DEF RoutersKept, Own
<1> QED BY <1>7, <1>9, <1>11

\* It is done with the command, which Done may queue again with its data.
LEMMA RouteIsDone ==
  ASSUME DriveTypeOK, PressesKept, CommandsKept, RoutersKept, RouteAdd
  PROVE  /\ DriveTypeOK' /\ PressesKept' /\ CommandsKept' /\ RoutersKept'
         /\ router.id \in Commands /\ router.what \in Payloads /\ Own(router.what.speed)
<1> DEFINE c == router.id
           what == router.what
<1>1. /\ router # InGet /\ router' = InGet /\ sndQ' = QDone(sndQ, c)
      /\ payload' = IF Requeues(sndQ, c) THEN Append(payload, what) ELSE payload
      /\ clientRouter' = clientRouter
      /\ UNCHANGED <<pressed, rcvQ, worker, lirc, tick, driveStopped>>
  BY DEF RouteAdd
<1>2. c \in Commands /\ what \in Payloads /\ Own(what.speed)
  BY <1>1 DEF RoutersKept
<1>3. /\ sndQ \in QueueType(Commands) /\ sndQ.items \in Seq(Commands)
      /\ payload \in Seq(Payloads) /\ Len(payload) = Len(sndQ.items)
  BY DEF DriveTypeOK, QueueType
<1>4. sndQ' \in QueueType(Commands)
  BY <1>1, <1>3, QDoneType
<1> HIDE DEF c, what
<1>5. /\ CommandsKept' /\ payload' \in Seq(Payloads) /\ Len(payload') = Len(sndQ'.items)
  <2>1. CASE Requeues(sndQ, c)
    <3>1. sndQ'.items = Append(sndQ.items, c) /\ payload' = Append(payload, what)
      BY <1>1, <1>3, <2>1 DEF QDone, QueueType
    <3>2. Len(sndQ'.items) = Len(sndQ.items) + 1
      BY <1>2, <1>3, <3>1, AppendProperties
    <3> QED BY <1>2, <1>3, <3>1, <3>2, PayloadAtEnd
  <2>2. CASE ~Requeues(sndQ, c)
    <3>1. sndQ'.items = sndQ.items /\ payload' = payload
      BY <1>1, <1>3, <2>2 DEF QDone, QueueType
    <3> QED BY <1>3, <3>1 DEF CommandsKept, Own
  <2> QED BY <2>1, <2>2
<1>6. DriveTypeOK' /\ PressesKept'
  BY <1>1, <1>4, <1>5, PressesStay
<1>7. RoutersKept'
  BY <1>1 DEF RoutersKept, InGet
<1> QED BY <1>2, <1>5, <1>6, <1>7 DEF c, what

-----------------------------------------------------------------------------
(* The client.                                                               *)

\* A key or the timer puts at most one command into the channel.
LEMMA PutsType ==
  ASSUME cmdCh \in Seq(CarActions), Len(cmdCh) <= cmdChCapacity, NEW a \in CarActions,
         Puts(a) \/ UNCHANGED cmdCh
  PROVE  (cmdCh \in Seq(CarActions))' /\ (Len(cmdCh) <= cmdChCapacity)'
<1>1. CASE Puts(a)
  <2>1. cmdCh' \in Seq(CarActions) /\ Len(cmdCh') = Len(cmdCh) + 1 /\ Len(cmdCh) \in Nat
    BY <1>1 DEF Puts
  <2> QED BY <1>1, <2>1, CapacityAssumption DEF Puts
<1> QED BY <1>1

LEMMA ClientKeepsType ==
  ASSUME CarTypeOK,
         \/ \E key \in KeyActions \cup {OtherKey} : Keys(key)
         \/ TimerFires \/ Quits \/ Streams
  PROVE  CarTypeOK'
<1> USE DEF CarTypeOK
<1>1. ASSUME NEW key \in KeyActions \cup {OtherKey}, Keys(key) PROVE CarTypeOK'
  <2>1. /\ IF key = OtherKey THEN UNCHANGED cmdCh ELSE Puts(key)
        /\ client' = [client EXCEPT !.noInput = FALSE, !.keys = @ + 1] /\ serverQ' = serverQ
    BY <1>1 DEF Keys, KeyPressed
  <2>2. (cmdCh \in Seq(CarActions))' /\ (Len(cmdCh) <= cmdChCapacity)'
    <3>1. CASE key = OtherKey
      BY <2>1, <3>1
    <3>2. CASE key # OtherKey
      <4>1. key \in CarActions /\ Puts(key)
        BY <2>1, <3>2 DEF CarActions
      <4> QED BY <4>1, PutsType
    <3> QED BY <3>1, <3>2
  <2>3. client' \in [on : BOOLEAN, noInput : BOOLEAN, keys : Nat]
    <3>1. client' = [client EXCEPT !.noInput = FALSE, !.keys = client.keys + 1]
      BY <2>1
    <3>2. client \in [on : BOOLEAN, noInput : BOOLEAN, keys : Nat] /\ client.keys + 1 \in Nat
      OBVIOUS
    <3> QED BY <3>1, <3>2
  <2> QED BY <2>1, <2>2, <2>3
<1>2. CASE TimerFires
  <2>1. (cmdCh \in Seq(CarActions))' /\ (Len(cmdCh) <= cmdChCapacity)'
    <3>1. "stop" \in CarActions /\ (Puts("stop") \/ UNCHANGED cmdCh)
      BY <1>2 DEF TimerFires, CarActions
    <3> QED BY <3>1, PutsType
  <2>2. /\ client' = [client EXCEPT !.noInput = TRUE] /\ serverQ' = serverQ
    BY <1>2 DEF TimerFires
  <2> QED BY <2>1, <2>2
<1>3. CASE Quits
  BY <1>3 DEF Quits
<1>4. CASE Streams
  <2>1. /\ cmdCh # <<>> /\ cmdCh' = Tail(cmdCh) /\ client' = client
        /\ serverQ' = QAdd(serverQ, CarId(Head(cmdCh)))
    BY <1>4 DEF Streams, StreamSends
  <2>2. /\ Head(cmdCh) \in CarActions /\ cmdCh' \in Seq(CarActions)
        /\ Len(cmdCh') = Len(cmdCh) - 1 /\ Len(cmdCh) \in Nat
    BY <2>1
  <2>3. Len(cmdCh') <= cmdChCapacity
    BY <2>2, CapacityAssumption
  <2>4. CarId(Head(cmdCh)) \in {CarId(a) : a \in CarActions}
    BY <2>2
  <2>5. serverQ' \in QueueType({CarId(a) : a \in CarActions})
    BY <2>1, <2>4, QueueOpsType
  <2> QED BY <2>1, <2>2, <2>3, <2>5
<1> QED BY <1>1, <1>2, <1>3, <1>4

\* The listener takes the head of the server's queue, and is done with it.
LEMMA ClientRouteTakes ==
  ASSUME CarTypeOK, RoutersKept, ClientRouteGet
  PROVE  CarTypeOK' /\ RoutersKept'
<1> DEFINE C == {CarId(a) : a \in CarActions}
           h == Head(serverQ.items)
<1>1. /\ serverQ.items # <<>> /\ serverQ' = QTake(serverQ) /\ clientRouter' = h
      /\ UNCHANGED <<client, cmdCh, router>>
  BY DEF ClientRouteGet
<1>2. serverQ \in QueueType(C)
  BY DEF CarTypeOK
<1> HIDE DEF C
<1>3. serverQ' \in QueueType(C) /\ h \in C
  BY <1>1, <1>2, QTakeType
<1>4. CarTypeOK'
  BY <1>1, <1>3 DEF CarTypeOK, C
<1>5. RoutersKept'
  BY <1>1, <1>3 DEF RoutersKept, Own, C
<1> QED BY <1>4, <1>5

LEMMA ClientRouteIsDone ==
  ASSUME CarTypeOK, RoutersKept, ClientRouteAdd
  PROVE  /\ CarTypeOK' /\ RoutersKept'
         /\ \E a \in CarActions :
              Motors!MotorReceives(CarId(a), [speed |-> SpeedOf(a), press |-> 0])
<1> DEFINE C == {CarId(a) : a \in CarActions}
<1>1. /\ clientRouter # Motors!NoId /\ clientRouter' = Motors!NoId
      /\ serverQ' = QDone(serverQ, clientRouter) /\ UNCHANGED <<client, cmdCh, router>>
      /\ Motors!MotorReceives(clientRouter, [speed |-> SpeedOf(clientRouter[1]), press |-> 0])
  BY DEF ClientRouteAdd
<1>2. serverQ \in QueueType(C)
  BY DEF CarTypeOK
<1>3. serverQ' \in QueueType(C)
  BY <1>1, <1>2, QDoneType
<1>4. PICK a \in CarActions : clientRouter = CarId(a)
  BY <1>1 DEF RoutersKept
<1>5. clientRouter[1] = a
  BY <1>4 DEF CarId
<1>6. CarTypeOK'
  BY <1>1, <1>3 DEF CarTypeOK
<1>7. RoutersKept'
  BY <1>1 DEF RoutersKept, Own
<1>8. Motors!MotorReceives(CarId(a), [speed |-> SpeedOf(a), press |-> 0])
  BY <1>1, <1>4, <1>5
<1> QED BY <1>6, <1>7, <1>8

-----------------------------------------------------------------------------
(* The driver of the motors.                                                 *)

MotorIds == Commands \cup RemoteCommands \cup {CarId(a) : a \in CarActions}
MotorKept == Motors!MotorTypeOK /\ LoadsKept

\* The type of the driver without the instance, and the data next to the IDs.
LEMMA MotorFacts ==
  ASSUME MotorKept
  PROVE  /\ motorQ \in QueueType(MotorIds) /\ motorQ.items \in Seq(MotorIds)
         /\ load \in Seq(Payloads) /\ Len(load) = Len(motorQ.items) /\ Len(load) \in Nat
         /\ DOMAIN load = 1 .. Len(load) /\ DOMAIN motorQ.items = 1 .. Len(load)
         /\ \A k \in 1 .. Len(load) : Fits(motorQ.items[k], load[k])
<1>1. motorQ \in QueueType(MotorIds)
  BY MotorOps DEF MotorKept, Motors!MotorTypeOK, MotorIds
<1>2. motorQ.items \in Seq(MotorIds)
  BY <1>1 DEF QueueType
<1>3. load \in Seq(Payloads) /\ Len(load) = Len(motorQ.items)
  BY DEF MotorKept, Motors!MotorTypeOK
<1>4. /\ Len(load) \in Nat /\ DOMAIN load = 1 .. Len(load)
      /\ DOMAIN motorQ.items = 1 .. Len(motorQ.items)
  BY <1>2, <1>3
<1>5. \A k \in DOMAIN load : Fits(motorQ.items[k], load[k])
  BY DEF MotorKept, LoadsKept
<1> QED BY <1>1, <1>2, <1>3, <1>4, <1>5

\* A queue whose IDs are next to their data makes a well-typed driver.
LEMMA QueueAndLoad ==
  ASSUME MotorKept, UNCHANGED <<motor, wheels, motorStop, late>>,
         motorQ' \in QueueType(MotorIds), load' \in Seq(Payloads),
         Len(load') = Len(motorQ'.items),
         \A k \in 1 .. Len(load') : Fits(motorQ'.items[k], load'[k])
  PROVE  MotorKept'
<1>1. Motors!QueueType(MotorIds) = QueueType(MotorIds)
  BY MotorOps
<1>2. Motors!MotorTypeOK'
  BY <1>1 DEF MotorKept, Motors!MotorTypeOK, MotorIds
<1>3. DOMAIN load' = 1 .. Len(load')
  OBVIOUS
<1>4. LoadsKept'
  BY <1>3 DEF MotorKept, LoadsKept, Fits, Usual, Own
<1> QED BY <1>2, <1>4 DEF MotorKept

\* An ID and its data go to the end together.
LEMMA FitsAtEnd ==
  ASSUME NEW i \in Seq(MotorIds), NEW d \in Seq(Payloads), Len(i) = Len(d),
         \A k \in 1 .. Len(d) : Fits(i[k], d[k]),
         NEW id \in MotorIds, NEW what \in Payloads, Fits(id, what)
  PROVE  /\ Append(d, what) \in Seq(Payloads)
         /\ Len(Append(d, what)) = Len(Append(i, id))
         /\ \A k \in 1 .. Len(Append(d, what)) : Fits(Append(i, id)[k], Append(d, what)[k])
<1>1. /\ Append(d, what) \in Seq(Payloads) /\ Len(Append(d, what)) = Len(d) + 1
      /\ Append(d, what)[Len(d) + 1] = what /\ Len(d) \in Nat
      /\ \A k \in 1 .. Len(d) : Append(d, what)[k] = d[k]
  BY AppendProperties
<1>2. /\ Len(Append(i, id)) = Len(i) + 1 /\ Append(i, id)[Len(i) + 1] = id
      /\ \A k \in 1 .. Len(i) : Append(i, id)[k] = i[k]
  BY AppendProperties
<1>3. ASSUME NEW k \in 1 .. Len(d) + 1 PROVE Fits(Append(i, id)[k], Append(d, what)[k])
  <2>1. CASE k = Len(d) + 1
    <3>1. Append(i, id)[k] = id /\ Append(d, what)[k] = what
      BY <1>1, <1>2, <2>1
    <3> QED BY <3>1
  <2>2. CASE k \in 1 .. Len(d)
    <3>1. Append(i, id)[k] = i[k] /\ Append(d, what)[k] = d[k]
      BY <1>1, <1>2, <2>2
    <3> QED BY <2>2, <3>1
  <2> QED BY <1>1, <2>1, <2>2
<1> QED BY <1>1, <1>2, <1>3

\* The router adds a command: its data wait next to it.
LEMMA MotorReceivesKeeps ==
  ASSUME MotorKept, NEW id \in MotorIds, NEW what \in Payloads, Fits(id, what),
         Motors!MotorReceives(id, what)
  PROVE  MotorKept'
<1>1. /\ motorQ' = QAdd(motorQ, id)
      /\ load' = IF Appends(motorQ, id) THEN Append(load, what) ELSE load
      /\ UNCHANGED <<motor, wheels, motorStop, late>>
  BY MotorOps DEF Motors!MotorReceives
<1>2. /\ motorQ \in QueueType(MotorIds) /\ motorQ.items \in Seq(MotorIds)
      /\ load \in Seq(Payloads) /\ Len(load) = Len(motorQ.items)
      /\ \A k \in 1 .. Len(load) : Fits(motorQ.items[k], load[k])
  BY MotorFacts
<1>3. motorQ' \in QueueType(MotorIds)
  BY <1>1, <1>2, QueueOpsType
<1>4. CASE Appends(motorQ, id)
  <2>1. motorQ'.items = Append(motorQ.items, id)
    BY <1>1, <1>2, <1>4, AddEffect DEF Appends, Accepts
  <2>2. load' = Append(load, what)
    BY <1>1, <1>4
  <2>3. /\ load' \in Seq(Payloads) /\ Len(load') = Len(motorQ'.items)
        /\ \A k \in 1 .. Len(load') : Fits(motorQ'.items[k], load'[k])
    BY <1>2, <2>1, <2>2, FitsAtEnd
  <2> QED BY <1>1, <1>3, <2>3, QueueAndLoad
<1>5. CASE ~Appends(motorQ, id)
  <2>1. motorQ'.items = motorQ.items
    <3> DEFINE d == motorQ.dirty \cup {id}
    <3>1. motorQ' = motorQ \/ motorQ' = [motorQ EXCEPT !.dirty = d, !.items = motorQ.items]
      BY <1>1, <1>5 DEF QAdd
    <3> HIDE DEF d
    <3> QED BY <1>2, <3>1 DEF QueueType
  <2>2. load' = load
    BY <1>1, <1>5
  <2>3. \A k \in 1 .. Len(load') : Fits(motorQ'.items[k], load'[k])
    BY <1>2, <2>1, <2>2
  <2> QED BY <1>1, <1>2, <1>3, <2>1, <2>2, <2>3, QueueAndLoad
<1> QED BY <1>4, <1>5

\* The worker takes a command with its data, or leaves out one for other motors.
LEMMA MotorTakesKeeps ==
  ASSUME MotorKept, Motors!MotorTakes
  PROVE  MotorKept'
<1> DEFINE i == motorQ.items
           h == Head(motorQ.items)
<1>1. /\ motor.pc = "get" /\ i # <<>> /\ load' = Tail(load)
      /\ UNCHANGED <<wheels, motorStop, late>>
      /\ IF h \in RemoteForeign
         THEN motorQ' = QDone(QTake(motorQ), h) /\ motor' = motor
         ELSE /\ motorQ' = QTake(motorQ)
              /\ motor' = [pc |-> "lock", id |-> h, what |-> Head(load)]
  BY MotorOps DEF Motors!MotorTakes
<1>2. /\ motorQ \in QueueType(MotorIds) /\ i \in Seq(MotorIds)
      /\ load \in Seq(Payloads) /\ Len(load) = Len(i) /\ Len(load) \in Nat
      /\ \A k \in 1 .. Len(load) : Fits(i[k], load[k])
  BY MotorFacts
<1>3. motorQ'.items = Tail(i) /\ motorQ' \in QueueType(MotorIds) /\ h \in MotorIds
  <2>1. CASE h \in RemoteForeign
    BY <1>1, <1>2, <2>1, TakeAndDone, QTakeType
  <2>2. CASE h \notin RemoteForeign
    <3>1. QTake(motorQ).items = Tail(i)
      BY <1>2 DEF QTake, QueueType
    <3> QED BY <1>1, <1>2, <2>2, <3>1, QTakeType
  <2> QED BY <2>1, <2>2
<1> HIDE DEF i, h
<1>4. /\ Len(load) >= 1 /\ load # <<>> /\ h = i[1] /\ Len(Tail(i)) = Len(load) - 1
      /\ \A k \in 1 .. Len(load) - 1 : Tail(i)[k] = i[k + 1]
  BY <1>1, <1>2 DEF h, i
<1>5. /\ load' \in Seq(Payloads) /\ Len(load') = Len(load) - 1 /\ Head(load) = load[1]
      /\ Head(load) \in Payloads /\ \A k \in 1 .. Len(load) - 1 : load'[k] = load[k + 1]
  BY <1>1, <1>2, <1>4
<1>6. \A k \in 1 .. Len(load') : Fits(motorQ'.items[k], load'[k])
  <2> SUFFICES ASSUME NEW k \in 1 .. Len(load) - 1
               PROVE  Fits(motorQ'.items[k], load'[k])
    BY <1>5
  <2>1. /\ motorQ'.items[k] = i[k + 1] /\ load'[k] = load[k + 1]
        /\ k + 1 \in 1 .. Len(load)
    BY <1>2, <1>3, <1>4, <1>5
  <2> QED BY <1>2, <2>1
<1>7. Len(load') = Len(motorQ'.items)
  BY <1>3, <1>4, <1>5
<1>8. CASE h \in RemoteForeign
  BY <1>1, <1>3, <1>5, <1>6, <1>7, <1>8, QueueAndLoad
<1>9. CASE h \notin RemoteForeign
  <2>1. motor' = [pc |-> "lock", id |-> h, what |-> Head(load)]
    BY <1>1, <1>9
  <2>2. Motors!QueueType(MotorIds) = QueueType(MotorIds)
    BY MotorOps
  <2>3. Motors!MotorTypeOK'
    BY <1>1, <1>3, <1>5, <1>7, <2>1, <2>2 DEF MotorKept, Motors!MotorTypeOK, MotorIds
  <2>4. DOMAIN load' = 1 .. Len(load')
    BY <1>5
  <2>5. Fits(h, Head(load))
    <3>1. 1 \in 1 .. Len(load)
      BY <1>2, <1>4
    <3> QED BY <1>2, <1>4, <1>5, <3>1
  <2>6. Fits(motor.id, motor.what)' <=> Fits(h, Head(load))
    BY <2>1 DEF Fits, Own
  <2>7. \A k \in DOMAIN load' : Fits(motorQ.items[k], load[k])'
    BY <1>6, <2>4 DEF Fits, Own
  <2>8. (Usual(wheels.right) /\ Usual(wheels.left))' <=> Usual(wheels.right) /\ Usual(wheels.left)
    BY <1>1 DEF Usual
  <2>9. LoadsKept'
    BY <1>9, <2>1, <2>5, <2>6, <2>7, <2>8 DEF MotorKept, LoadsKept
  <2> QED BY <2>3, <2>9 DEF MotorKept
<1> QED BY <1>8, <1>9

\* Whatever the command, both wheels get a direction and a byte.
LEMMA WheelsType ==
  ASSUME NEW now \in [right : Motors!Wheel, left : Motors!Wheel], NEW action, NEW speed \in Nat
  PROVE  Motors!Wheels(now, action, speed) \in [right : Motors!Wheel, left : Motors!Wheel]
<1>1. \A x \in Int : Motors!Byte(x) \in 0 .. 255
  BY DEF Motors!Byte
<1>2. \A x \in Int : Motors!Forward(x) \in Motors!Wheel /\ Motors!Backward(x) \in Motors!Wheel
  BY <1>1 DEF Motors!Forward, Motors!Backward, Motors!Wheel
<1>3. speed \in Int /\ 0 \in Int /\ speed - 50 \in Int /\ speed + 50 \in Int
  OBVIOUS
<1> QED BY <1>2, <1>3 DEF Motors!Wheels

\* The controller turns both wheels at its own speed, which fits a byte.
LEMMA OwnCommandIsUsual ==
  ASSUME NEW id \in Commands, NEW speed, Own(speed), NEW now
  PROVE  LET w == Motors!Wheels(now, id[1], speed) IN Usual(w.right) /\ Usual(w.left)
<1>1. speed \in Nat /\ speed < 256
  <2>1. speed \in stopSpeedValue .. maxSpeedValue
    BY DEF Own
  <2> QED BY <2>1, Speeds
<1>2. Motors!Byte(speed) = speed /\ Motors!Byte(0) = 0
  BY <1>1 DEF Motors!Byte
<1>3. id[1] \in {"left", "right", "forward", "backward", "stop"}
  BY DEF Commands, ActionOf
<1>4. /\ Motors!Forward(speed).speed = speed /\ Motors!Backward(speed).speed = speed
      /\ Motors!Forward(0).speed = 0
  BY <1>2 DEF Motors!Forward, Motors!Backward
<1>5. \A w : w.speed \in {0, speed} => Usual(w)
  BY DEF Usual, Own
<1> DEFINE w == Motors!Wheels(now, id[1], speed)
<1>6. w.right.speed \in {0, speed} /\ w.left.speed \in {0, speed}
  BY <1>3, <1>4 DEF Motors!Wheels
<1> QED BY <1>5, <1>6

\* The client turns them at 200 or 250, and 50 more or less in a bend.
LEMMA CarCommandIsUsual ==
  ASSUME NEW a, NEW now, Usual(now.right), Usual(now.left)
  PROVE  LET w == Motors!Wheels(now, a, SpeedOf(a)) IN Usual(w.right) /\ Usual(w.left)
<1> DEFINE w == Motors!Wheels(now, a, SpeedOf(a))
<1>1. /\ Motors!Byte(0) = 0 /\ Motors!Byte(200) = 200 /\ Motors!Byte(250) = 250
      /\ Motors!Byte(200 - 50) = 150 /\ Motors!Byte(200 + 50) = 250
  BY DEF Motors!Byte
<1>2. \A x : Motors!Forward(x).speed = Motors!Byte(x) /\ Motors!Backward(x).speed = Motors!Byte(x)
  BY DEF Motors!Forward, Motors!Backward
<1>3. CASE a = "stop"
  BY <1>1, <1>2, <1>3 DEF Motors!Wheels, Usual
<1>4. CASE a \in {"left", "right"}
  BY <1>1, <1>2, <1>4 DEF Motors!Wheels, Usual, SpeedOf
<1>5. CASE a \in {"forward", "backward", "forward-right", "forward-left"}
  BY <1>1, <1>2, <1>5 DEF Motors!Wheels, Usual, SpeedOf
<1>6. CASE a \notin {"stop", "left", "right", "forward", "backward", "forward-right",
                     "forward-left"}
  BY <1>6 DEF Motors!Wheels
<1> QED BY <1>3, <1>4, <1>5, <1>6

\* The worker carries a command out, and Done may queue it again with the same data.
LEMMA ProcessKeeps ==
  ASSUME MotorKept, Motors!ProcessDriveCmd
  PROVE  MotorKept'
<1> DEFINE id == motor.id
           what == motor.what
<1>1. /\ motor.pc = "lock" /\ wheels' = Motors!Wheels(wheels, id[1], what.speed)
      /\ motorQ' = QDone(motorQ, id)
      /\ load' = IF Requeues(motorQ, id) THEN Append(load, what) ELSE load
      /\ motor' = [pc |-> Motors!NextLook, id |-> Motors!NoId, what |-> NoPayload]
      /\ late' = (IF motorStop = "done" THEN late + 1 ELSE late) /\ motorStop' = motorStop
  BY MotorOps DEF Motors!ProcessDriveCmd
<1>2. /\ motorQ \in QueueType(MotorIds) /\ motorQ.items \in Seq(MotorIds)
      /\ load \in Seq(Payloads) /\ Len(load) = Len(motorQ.items)
      /\ \A k \in 1 .. Len(load) : Fits(motorQ.items[k], load[k])
  BY MotorFacts
<1>3. id \notin RemoteForeign /\ Fits(id, what)
  BY <1>1 DEF MotorKept, LoadsKept
<1>4. id \in MotorIds
  BY <1>3 DEF Fits, MotorIds
<1>5. NoPayload \in Payloads
  BY Speeds DEF NoPayload, Payloads
<1>6. what \in Payloads /\ what.speed \in Nat
  <2>1. what \in Payloads \cup {NoPayload}
    BY DEF MotorKept, Motors!MotorTypeOK
  <2> HIDE DEF what
  <2>2. what \in Payloads
    BY <1>5, <2>1
  <2> QED BY <2>2 DEF Payloads
<1>7. motorQ' \in QueueType(MotorIds)
  BY <1>1, <1>2, QDoneType
<1>8. /\ load' \in Seq(Payloads) /\ Len(load') = Len(motorQ'.items)
      /\ \A k \in 1 .. Len(load') : Fits(motorQ'.items[k], load'[k])
  <2> HIDE DEF id, what
  <2>1. CASE Requeues(motorQ, id)
    <3>1. motorQ'.items = Append(motorQ.items, id) /\ load' = Append(load, what)
      BY <1>1, <1>2, <2>1 DEF QDone, QueueType
    <3> QED BY <1>2, <1>3, <1>4, <1>6, <3>1, FitsAtEnd
  <2>2. CASE ~Requeues(motorQ, id)
    <3>1. motorQ'.items = motorQ.items /\ load' = load
      BY <1>1, <1>2, <2>2 DEF QDone, QueueType
    <3> QED BY <1>2, <3>1
  <2> QED BY <2>1, <2>2
<1>9. /\ wheels \in [right : Motors!Wheel, left : Motors!Wheel]
      /\ motorStop \in {"no", "queues", "done"} /\ late \in Nat
  BY DEF MotorKept, Motors!MotorTypeOK
<1>10. wheels' \in [right : Motors!Wheel, left : Motors!Wheel]
  <2> HIDE DEF id, what
  <2> QED BY <1>1, <1>6, <1>9, WheelsType
<1>11. motor' \in [pc : {"get", "lock", "exited"}, id : MotorIds \cup {Motors!NoId},
                   what : Payloads \cup {NoPayload}]
  BY <1>1, <1>5 DEF Motors!NextLook
<1>12. late' \in Nat
  BY <1>1, <1>9
<1>13. Motors!MotorTypeOK'
  <2>1. Motors!QueueType(MotorIds) = QueueType(MotorIds)
    BY MotorOps
  <2> HIDE DEF id, what
  <2> QED BY <1>1, <1>7, <1>8, <1>9, <1>10, <1>11, <1>12, <2>1
          DEF Motors!MotorTypeOK, MotorIds
<1>14. ASSUME RemoteCommands \subseteq RemoteForeign
       PROVE  Usual(wheels'.right) /\ Usual(wheels'.left)
  <2>1. Usual(wheels.right) /\ Usual(wheels.left)
    BY <1>14 DEF MotorKept, LoadsKept
  <2>2. CASE id \in Commands /\ Own(what.speed)
    <3> HIDE DEF id, what
    <3> QED BY <1>1, <2>2, OwnCommandIsUsual
  <2>3. ASSUME NEW a \in CarActions, id = CarId(a), what.speed = SpeedOf(a)
        PROVE  Usual(wheels'.right) /\ Usual(wheels'.left)
    <3>1. id[1] = a
      BY <2>3 DEF CarId
    <3> HIDE DEF id, what
    <3>2. wheels' = Motors!Wheels(wheels, a, SpeedOf(a))
      BY <1>1, <2>3, <3>1
    <3> QED BY <2>1, <3>2, CarCommandIsUsual
  <2>4. id \notin RemoteCommands
    BY <1>3, <1>14
  <2> QED BY <1>3, <2>2, <2>3, <2>4 DEF Fits
<1>15. motor'.pc # "lock"
  BY <1>1 DEF Motors!NextLook
<1>16. \A k \in DOMAIN load' : Fits(motorQ.items[k], load[k])'
  <2>1. DOMAIN load' = 1 .. Len(load')
    BY <1>8
  <2> QED BY <1>8, <2>1 DEF Fits, Own
<1>17. RemoteCommands \subseteq RemoteForeign => (Usual(wheels.right) /\ Usual(wheels.left))'
  BY <1>14 DEF Usual
<1>18. LoadsKept'
  BY <1>15, <1>16, <1>17 DEF LoadsKept
<1> QED BY <1>13, <1>18 DEF MotorKept

\* The end of the worker and the steps of Stop leave the commands alone.
LEMMA MotorStopsKeep ==
  ASSUME MotorKept,
         Motors!MotorExits \/ Motors!MotorStopQueue \/ Motors!MotorStopKill
  PROVE  MotorKept'
<1>1. motorQ \in QueueType(MotorIds) /\ Motors!QueueType(MotorIds) = QueueType(MotorIds)
  BY MotorFacts, MotorOps
<1>2. /\ UNCHANGED <<load, wheels, late>>
      /\ motorQ' = motorQ \/ motorQ' = QShutDown(motorQ)
      /\ motor' = motor \/ motor' = [motor EXCEPT !.pc = "exited"]
      /\ motorStop' \in {motorStop, "queues", "done"}
  BY MotorOps DEF Motors!MotorExits, Motors!MotorStopQueue, Motors!MotorStopKill
<1>3. motorQ' \in QueueType(MotorIds) /\ motorQ'.items = motorQ.items
  BY <1>1, <1>2, QShutDownType DEF QShutDown, QueueType
<1>4. motor \in [pc : {"get", "lock", "exited"}, id : MotorIds \cup {Motors!NoId},
                 what : Payloads \cup {NoPayload}]
  BY DEF MotorKept, Motors!MotorTypeOK, MotorIds
<1>5. /\ motor' \in [pc : {"get", "lock", "exited"}, id : MotorIds \cup {Motors!NoId},
                     what : Payloads \cup {NoPayload}]
      /\ motor'.pc = "lock" => motor' = motor
  BY <1>2, <1>4
<1>6. Motors!MotorTypeOK'
  BY <1>1, <1>2, <1>3, <1>5 DEF MotorKept, Motors!MotorTypeOK, MotorIds
<1>7. \A k \in DOMAIN load : Fits(motorQ.items[k], load[k])
  BY DEF MotorKept, LoadsKept
<1>8. \A k \in DOMAIN load' : Fits(motorQ.items[k], load[k])'
  BY <1>2, <1>3, <1>7 DEF Fits, Own
<1>9. motor'.pc = "lock" => motor'.id \notin RemoteForeign /\ Fits(motor.id, motor.what)'
  BY <1>5 DEF MotorKept, LoadsKept, Fits, Own
<1>10. RemoteCommands \subseteq RemoteForeign => (Usual(wheels.right) /\ Usual(wheels.left))'
  BY <1>2 DEF MotorKept, LoadsKept, Usual
<1>11. LoadsKept'
  BY <1>8, <1>9, <1>10 DEF LoadsKept
<1> QED BY <1>6, <1>11 DEF MotorKept

-----------------------------------------------------------------------------
(* The three together.                                                       *)

DriveKept == DriveTypeOK /\ PressesKept /\ CommandsKept
HistoryTypeOK ==
  scene \in Scenes /\ remote \subseteq RemoteCommands /\ ranPresses \subseteq 1 .. MaxPresses

\* What a step leaves alone stays as it was.
LEMMA UnchangedKeep ==
  /\ DriveKept /\ UNCHANGED driveVars => DriveKept'
  /\ CarTypeOK /\ UNCHANGED carVars => CarTypeOK'
  /\ MotorKept /\ UNCHANGED motorState => MotorKept'
  /\ HistoryTypeOK /\ UNCHANGED history => HistoryTypeOK'
  /\ RoutersKept /\ UNCHANGED routers => RoutersKept'
<1>1. ASSUME DriveKept, UNCHANGED driveVars PROVE DriveKept'
  <2>1. UNCHANGED <<pressed, rcvQ, worker, lirc, tick, sndQ, payload, driveStopped>>
    BY <1>1 DEF driveVars
  <2>2. DriveTypeOK'
    BY <1>1, <2>1 DEF DriveKept, DriveTypeOK
  <2>3. Taken' = Taken
    BY <2>1 DEF Taken, Handed
  <2>4. PressesKept'
    BY <1>1, <2>1, <2>3 DEF DriveKept, PressesKept
  <2>5. CommandsKept'
    BY <1>1, <2>1 DEF DriveKept, CommandsKept
  <2> QED BY <2>2, <2>4, <2>5 DEF DriveKept
<1>2. CarTypeOK /\ UNCHANGED carVars => CarTypeOK'
  BY DEF CarTypeOK, carVars
<1>3. ASSUME MotorKept, UNCHANGED motorState PROVE MotorKept'
  <2>1. UNCHANGED <<motorQ, load, motor, wheels, motorStop, late>>
    BY <1>3 DEF motorState
  <2>2. /\ motorQ \in QueueType(MotorIds) /\ load \in Seq(Payloads)
        /\ Len(load) = Len(motorQ.items)
        /\ \A k \in 1 .. Len(load) : Fits(motorQ.items[k], load[k])
    BY <1>3, MotorFacts
  <2>3. \A k \in 1 .. Len(load') : Fits(motorQ'.items[k], load'[k])
    BY <2>1, <2>2
  <2> QED BY <1>3, <2>1, <2>2, <2>3, QueueAndLoad
<1>4. HistoryTypeOK /\ UNCHANGED history => HistoryTypeOK'
  BY DEF HistoryTypeOK, history
<1>5. RoutersKept /\ UNCHANGED routers => RoutersKept'
  BY DEF RoutersKept, routers, Own
<1> QED BY <1>1, <1>2, <1>3, <1>4, <1>5

\* The steps of the controller on its own.
LEMMA ControllerSteps ==
  ASSUME NEW n \in Nat, maxSpeedValue = stopSpeedValue + n * fadeAmount, OnScale(n),
         DriveKept,
         \/ \E b \in Buttons : Controller(Presses(b))
         \/ Controller(TakePress) \/ Controller(WorkerExits)
         \/ Controller(HandOver) \/ Controller(LircExits)
         \/ Controller(Ticks) \/ Controller(StopsDrive)
  PROVE  DriveKept' /\ UNCHANGED <<carVars, motorState, routers, history>>
<1> USE DEF Controller
<1>1. UNCHANGED <<carVars, motorState, routers, history>>
  OBVIOUS
<1>2. ASSUME NEW b \in Buttons, Press(b) PROVE DriveKept'
  <2>1. DriveTypeOK' /\ PressesKept'
    BY <1>2, PressKeeps DEF DriveKept
  <2>2. CommandsKept'
    BY <1>2 DEF Press, CommandsKept, DriveKept
  <2> QED BY <2>1, <2>2 DEF DriveKept
<1>3. CASE TakePress
  <2>1. DriveTypeOK' /\ PressesKept'
    BY <1>3, TakePressKeeps DEF DriveKept
  <2>2. CommandsKept'
    BY <1>3 DEF TakePress, CommandsKept, DriveKept
  <2> QED BY <2>1, <2>2 DEF DriveKept
<1>4. CASE WorkerExits \/ LircExits
  BY <1>4, ExitsKeep DEF DriveKept
<1>5. CASE HandOver
  BY <1>5, HandOverKeeps DEF DriveKept
<1>6. CASE Tick
  BY <1>6, TickKeeps DEF DriveKept
<1>7. CASE DriveStop
  BY <1>7, DriveStopKeeps DEF DriveKept
<1>8. DriveKept'
  BY <1>2, <1>3, <1>4, <1>5, <1>6, <1>7 DEF Presses, Ticks, StopsDrive
<1> QED BY <1>1, <1>8

\* What the router forwards has data that fit it.
LEMMA ForwardedFits ==
  ASSUME MotorKept
  PROVE  /\ DriveKept /\ RoutersKept /\ Route => DriveKept' /\ RoutersKept' /\ MotorKept'
         /\ CarTypeOK /\ RoutersKept /\ RouteClient => CarTypeOK' /\ RoutersKept' /\ MotorKept'
         /\ \A c \in RemoteCommands : RemoteSends(c) => MotorKept'
<1>0. /\ RemoteSpeed \in Nat /\ 0 \in 0 .. MaxPresses
      /\ \A a : SpeedOf(a) \in Nat
  BY LoopAssumption, Speeds DEF SpeedOf
<1>1. ASSUME DriveKept, RoutersKept, Route PROVE DriveKept' /\ RoutersKept' /\ MotorKept'
  <2>1. CASE RouteGet
    <3>1. DriveKept' /\ RoutersKept'
      BY <1>1, <2>1, RouteTakes DEF DriveKept
    <3>2. UNCHANGED motorState
      BY <2>1 DEF RouteGet
    <3> QED BY <3>1, <3>2, UnchangedKeep
  <2>2. CASE RouteAdd
    <3> DEFINE id == router.id
               what == router.what
    <3>1. /\ DriveKept' /\ RoutersKept'
          /\ id \in Commands /\ what \in Payloads /\ Own(what.speed)
      BY <1>1, <2>2, RouteIsDone DEF DriveKept
    <3>2. Motors!MotorReceives(id, what)
      BY <2>2 DEF RouteAdd
    <3> HIDE DEF id, what
    <3>3. id \in MotorIds /\ Fits(id, what)
      BY <3>1 DEF MotorIds, Fits
    <3>4. MotorKept'
      BY <3>1, <3>2, <3>3, MotorReceivesKeeps
    <3> QED BY <3>1, <3>4
  <2> QED BY <1>1, <2>1, <2>2 DEF Route
<1>2. ASSUME CarTypeOK, RoutersKept, RouteClient
      PROVE  CarTypeOK' /\ RoutersKept' /\ MotorKept'
  <2>1. CASE ClientRouteGet
    <3>1. CarTypeOK' /\ RoutersKept'
      BY <1>2, <2>1, ClientRouteTakes
    <3>2. UNCHANGED motorState
      BY <2>1 DEF ClientRouteGet
    <3> QED BY <3>1, <3>2, UnchangedKeep
  <2>2. CASE ClientRouteAdd
    <3>1. CarTypeOK' /\ RoutersKept'
      BY <1>2, <2>2, ClientRouteIsDone
    <3>2. PICK a \in CarActions :
            Motors!MotorReceives(CarId(a), [speed |-> SpeedOf(a), press |-> 0])
      BY <1>2, <2>2, ClientRouteIsDone
    <3> DEFINE what == [speed |-> SpeedOf(a), press |-> 0]
    <3>3. what \in Payloads /\ what.speed = SpeedOf(a)
      BY <1>0 DEF Payloads
    <3> HIDE DEF what
    <3>4. CarId(a) \in MotorIds /\ Fits(CarId(a), what)
      BY <3>3 DEF MotorIds, Fits
    <3>5. Motors!MotorReceives(CarId(a), what)
      BY <3>2 DEF what
    <3>6. MotorKept'
      BY <3>3, <3>4, <3>5, MotorReceivesKeeps
    <3> QED BY <3>1, <3>6
  <2> QED BY <1>2, <2>1, <2>2 DEF RouteClient
<1>3. ASSUME NEW c \in RemoteCommands, RemoteSends(c) PROVE MotorKept'
  <2> DEFINE what == [speed |-> RemoteSpeed, press |-> 0]
  <2>1. what \in Payloads
    BY <1>0 DEF Payloads
  <2>2. Motors!MotorReceives(c, what)
    BY <1>3 DEF RemoteSends
  <2> HIDE DEF what
  <2>3. c \in MotorIds /\ Fits(c, what)
    BY DEF MotorIds, Fits
  <2> QED BY <2>1, <2>2, <2>3, MotorReceivesKeeps
<1> QED BY <1>1, <1>2, <1>3

\* No step of the controller, the client, the router or the driver leaves it.
LEMMA LoopStep ==
  ASSUME NEW n \in Nat, maxSpeedValue = stopSpeedValue + n * fadeAmount
  PROVE  LoopIInv(n) /\ [Next]_loopVars => LoopIInv(n)'
<1> SUFFICES ASSUME LoopIInv(n), [Next]_loopVars PROVE LoopIInv(n)'
  OBVIOUS
<1>1. DriveKept /\ CarTypeOK /\ MotorKept /\ RoutersKept /\ HistoryTypeOK /\ OnScale(n)
  BY DEF LoopIInv, TypeOK, DriveKept, MotorKept, HistoryTypeOK
<1>2. OnScale(n)'
  BY <1>1, StepStaysOnScale
<1>3. DriveKept' /\ CarTypeOK' /\ MotorKept' /\ RoutersKept' /\ HistoryTypeOK'
        => LoopIInv(n)'
  <2> SUFFICES ASSUME DriveKept', CarTypeOK', MotorKept', RoutersKept', HistoryTypeOK'
               PROVE  LoopIInv(n)'
    OBVIOUS
  <2>1. RouterTypeOK'
    <3>1. NoPayload \in Payloads
      BY Speeds DEF NoPayload, Payloads
    <3> QED BY <3>1 DEF RoutersKept, RouterTypeOK, InGet
  <2> QED BY <1>2, <2>1 DEF LoopIInv, TypeOK, DriveKept, MotorKept, HistoryTypeOK
<1>4. CASE \/ \E b \in Buttons : Controller(Presses(b))
           \/ Controller(TakePress) \/ Controller(WorkerExits)
           \/ Controller(HandOver) \/ Controller(LircExits)
           \/ Controller(Ticks) \/ Controller(StopsDrive)
  <2>1. DriveKept' /\ UNCHANGED <<carVars, motorState, routers, history>>
    BY <1>1, <1>4, ControllerSteps
  <2> QED BY <1>1, <1>3, <2>1, UnchangedKeep
<1>5. CASE \/ \E key \in KeyActions \cup {OtherKey} : Client(Keys(key))
           \/ Client(TimerFires) \/ Client(Quits) \/ Client(Streams)
  <2>1. UNCHANGED <<driveVars, motorState, routers, history>>
    BY <1>5 DEF Client
  <2>2. CarTypeOK'
    BY <1>1, <1>5, ClientKeepsType DEF Client
  <2> QED BY <1>1, <1>3, <2>1, <2>2, UnchangedKeep
<1>6. CASE Route
  <2>1. DriveKept' /\ RoutersKept' /\ MotorKept'
    BY <1>1, <1>6, ForwardedFits
  <2>2. UNCHANGED <<carVars, history>>
    BY <1>6 DEF Route, RouteGet, RouteAdd
  <2> QED BY <1>1, <1>3, <2>1, <2>2, UnchangedKeep
<1>7. CASE RouteClient
  <2>1. CarTypeOK' /\ RoutersKept' /\ MotorKept'
    BY <1>1, <1>7, ForwardedFits
  <2>2. UNCHANGED <<driveVars, history>>
    BY <1>7 DEF RouteClient, ClientRouteGet, ClientRouteAdd
  <2> QED BY <1>1, <1>3, <2>1, <2>2, UnchangedKeep
<1>8. ASSUME NEW c \in RemoteCommands, RemoteSends(c) PROVE LoopIInv(n)'
  <2>1. MotorKept'
    BY <1>1, <1>8, ForwardedFits
  <2>2. UNCHANGED <<driveVars, carVars, routers>> /\ HistoryTypeOK'
    BY <1>1, <1>8 DEF RemoteSends, HistoryTypeOK
  <2> QED BY <1>1, <1>3, <2>1, <2>2, UnchangedKeep
<1>9. CASE Runs
  <2>1. MotorKept'
    BY <1>1, <1>9, ProcessKeeps DEF Runs
  <2>2. UNCHANGED <<driveVars, carVars, routers, scene, remote>>
    BY <1>9 DEF Runs
  <2>3. InHand \in 0 .. MaxPresses
    <3>1. motor.what \in Payloads \cup {NoPayload} /\ 0 \in 0 .. MaxPresses
      BY <1>1, Speeds DEF MotorKept, Motors!MotorTypeOK
    <3>2. motor.what.press \in 0 .. MaxPresses
      BY <3>1 DEF Payloads, NoPayload
    <3> QED BY <3>1, <3>2 DEF InHand
  <2>4. ranPresses' = ranPresses \cup ({InHand} \ {0})
    BY <1>9 DEF Runs
  <2>5. InHand = 0 \/ InHand \in 1 .. MaxPresses
    BY <2>3
  <2>6. HistoryTypeOK'
    BY <1>1, <2>2, <2>4, <2>5 DEF HistoryTypeOK
  <2> QED BY <1>1, <1>3, <2>1, <2>2, <2>6, UnchangedKeep
<1>10. CASE \/ Driver(Motors!MotorTakes) \/ Driver(Motors!MotorExits)
            \/ Driver(StopsMotors) \/ Driver(Motors!MotorStopKill)
  <2>1. UNCHANGED <<driveVars, carVars, routers, history>>
    BY <1>10 DEF Driver
  <2>2. MotorKept'
    BY <1>1, <1>10, MotorTakesKeeps, MotorStopsKeep DEF Driver, StopsMotors
  <2> QED BY <1>1, <1>3, <2>1, <2>2, UnchangedKeep
<1>11. CASE UNCHANGED loopVars
  BY <1>1, <1>3, <1>11, UnchangedKeep DEF loopVars
<1> QED BY <1>4, <1>5, <1>6, <1>7, <1>8, <1>9, <1>10, <1>11 DEF Next

\* Everything starts empty, and the wheels stand.
LEMMA LoopStarts ==
  ASSUME NEW n \in Nat, Init
  PROVE  LoopIInv(n)
<1>1. /\ DriveInit /\ CarInit /\ Motors!MotorInit /\ scene \in Scenes /\ remote = {}
      /\ ranPresses = {} /\ router = InGet /\ clientRouter = Motors!NoId
  BY DEF Init
<1>2. OnScale(n)
  <2>1. stopSpeedValue = stopSpeedValue + 0 * fadeAmount
    BY SpeedAssumption
  <2> QED BY <1>1, <2>1 DEF DriveInit, OnScale
<1>3. NoPayload \in Payloads
  BY Speeds DEF NoPayload, Payloads
<1>4. DriveTypeOK
  <2>1. NewQueue \in QueueType(1 .. MaxPresses) /\ NewQueue \in QueueType(Commands)
    BY NewQueueType
  <2>2. pressed = <<>> /\ rcvQ = NewQueue /\ sndQ = NewQueue /\ driveStopped = FALSE
    BY <1>1 DEF DriveInit
  <2>3. worker \in [pc : {"get", "send", "exited"}, press : 0 .. MaxPresses]
    BY <1>1, Speeds DEF DriveInit
  <2>4. /\ lirc \in [pc : {"wait", "exited"}, version : Nat]
        /\ tick \in [speed : Nat, version : Nat]
    BY <1>1, Speeds DEF DriveInit
  <2>5. payload \in Seq(Payloads) /\ Len(payload) = Len(sndQ.items)
    <3>1. payload = <<>> /\ sndQ.items = <<>>
      BY <1>1 DEF DriveInit, NewQueue
    <3> QED BY <3>1
  <2>6. driveStopped \in BOOLEAN
    BY <2>2
  <2>7. pressed \in Seq(Buttons)
    BY <2>2
  <2>8. rcvQ \in QueueType(1 .. MaxPresses) /\ sndQ \in QueueType(Commands)
    BY <2>1, <2>2
  <2> QED BY <2>3, <2>4, <2>5, <2>6, <2>7, <2>8 DEF DriveTypeOK
<1>5. /\ NewQueue.items = <<>> /\ NewQueue.dirty = {} /\ NewQueue.processing = {}
      /\ ~NewQueue.closed /\ Len(<<>>) = 0 /\ DOMAIN <<>> = {} /\ Elems(<<>>) = {}
  BY DEF NewQueue, Elems
<1>6. PressesKept
  <2>1. Taken = 0 /\ worker.pc # "send" /\ pressed = <<>> /\ rcvQ = NewQueue /\ tick.version = 0
    BY <1>1 DEF DriveInit, Taken, Handed
  <2> QED BY <1>5, <2>1, Speeds DEF PressesKept
<1>7. CommandsKept
  BY <1>1, <1>5 DEF DriveInit, CommandsKept
<1>8. CarTypeOK
  <2>1. NewQueue \in QueueType({CarId(a) : a \in CarActions})
    BY NewQueueType
  <2> QED BY <1>1, <2>1, CapacityAssumption DEF CarInit, CarTypeOK
<1>9. /\ motorQ = NewQueue /\ load = <<>> /\ motorStop = "no" /\ late = 0
      /\ motor = [pc |-> "get", id |-> Motors!NoId, what |-> NoPayload]
      /\ wheels = [right |-> Motors!Forward(0), left |-> Motors!Forward(0)]
  BY <1>1, MotorOps DEF Motors!MotorInit
<1>10. Motors!Forward(0) \in Motors!Wheel /\ Motors!Forward(0).speed = 0
  BY DEF Motors!Forward, Motors!Byte, Motors!Wheel
<1>11. Motors!MotorTypeOK
  <2>1. motorQ \in QueueType(MotorIds) /\ Motors!QueueType(MotorIds) = QueueType(MotorIds)
    BY <1>9, NewQueueType, MotorOps
  <2>2. load \in Seq(Payloads) /\ Len(load) = Len(motorQ.items)
    BY <1>5, <1>9
  <2>3. motor \in [pc : {"get", "lock", "exited"}, id : MotorIds \cup {Motors!NoId},
                   what : Payloads \cup {NoPayload}]
    BY <1>9
  <2>4. wheels \in [right : Motors!Wheel, left : Motors!Wheel]
    BY <1>9, <1>10
  <2> QED BY <1>9, <2>1, <2>2, <2>3, <2>4 DEF Motors!MotorTypeOK, MotorIds
<1>12. LoadsKept
  BY <1>5, <1>9, <1>10 DEF LoadsKept, Usual
<1>13. RoutersKept /\ RouterTypeOK
  BY <1>1, <1>3 DEF RoutersKept, RouterTypeOK, InGet
<1> QED
  BY <1>1, <1>2, <1>4, <1>6, <1>7, <1>8, <1>11, <1>12, <1>13 DEF LoopIInv, TypeOK

\* From the timer and the keys to the wheels every value has its type and every speed
\* is in its range, whatever the presses, ticks, keys and other clients: what comes
\* with an ID through the queues and the duplicates they drop is data that fit it, and
\* commands for other motors do not get through (autonomous_drive.go:242-252,
\* dualmotors.go:151-176, 213-250, queue.go:51-104).
THEOREM LoopAlwaysRight == Spec => []LoopInv
<1>1. PICK n \in Nat : maxSpeedValue = stopSpeedValue + n * fadeAmount
  BY SpeedAssumption
<1>2. Init => LoopIInv(n)
  BY LoopStarts
<1>3. LoopIInv(n) /\ [Next]_loopVars => LoopIInv(n)'
  BY <1>1, LoopStep
<1>4. LoopIInv(n) => LoopInv
  <2> SUFFICES ASSUME LoopIInv(n) PROVE LoopInv
    OBVIOUS
  <2>1. TypeOK /\ OnScale(n) /\ LoadsKept
    BY DEF LoopIInv
  <2>2. SpeedInRange
    BY <1>1, <2>1, ScaleInRange
  <2>3. WheelsInRange
    BY <2>1 DEF LoadsKept, Usual, WheelsInRange
  <2> QED BY <2>1, <2>2, <2>3 DEF LoopInv
<1> QED BY <1>2, <1>3, <1>4, PTL DEF Spec

=============================================================================
