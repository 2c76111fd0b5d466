----------------------------- MODULE DriveLoop ------------------------------
(***************************************************************************)
(* From the buttons and the distance sensor to the wheels: the autonomous  *)
(* drive controller, the message router between them, and the driver of    *)
(* the motors, which also takes the commands of a remote client: those of  *)
(* RemoteCar, and any that are meant for another driver.                   *)
(***************************************************************************)
EXTENDS AutoDrive, RemoteCar, FiniteSets

CONSTANTS Scenes,         \* bounds: the presses, ticks and keys of a behaviour
          MaxWaiting,     \* bound: commands queued when one of the client is added
          RemoteCommands, \* the IDs of the commands of other remote clients
          RemoteForeign,  \* those that are for another driver
          RemoteSpeed,    \* their speed
          MaxRemote       \* bound: how many arrive

\* Speeds are unsigned; the motors take a byte.
ASSUME LoopAssumption == RemoteSpeed \in Nat /\ maxSpeedValue < 256

VARIABLES motorQ, load, motor, wheels, motorStop, late,
          router,       \* the command the listener on the controller's send queue has in hand
          clientRouter, \* the ID that of the message server's send queue has in hand
          scene,     \* how many presses, ticks and keys there may be
          remote,    \* the commands of other remote clients so far
          ranPresses \* the presses whose own command was carried out (history)

Motors == INSTANCE DualMotors WITH
  Ids <- Commands \cup RemoteCommands \cup {CarId(a) : a \in CarActions},
  Foreign <- RemoteForeign, Loads <- Payloads, NoLoad <- NoPayload

motorState == <<motorQ, load, motor, wheels, motorStop, late>>
routers == <<router, clientRouter>>
history == <<scene, remote, ranPresses>>
loopVars == <<driveVars, carVars, motorState, routers, history>>

\* A listener that waits in Get has no command in hand.
InGet == [id |-> Motors!NoId, what |-> NoPayload]

Init ==
  /\ DriveInit /\ CarInit /\ Motors!MotorInit /\ router = InGet /\ clientRouter = Motors!NoId
  /\ scene \in Scenes /\ remote = {} /\ ranPresses = {}

\* The controller takes a step of its own.
Controller(step) == step /\ UNCHANGED <<carVars, motorState, routers, history>>
Presses(b) == Len(pressed) < scene.presses /\ Press(b)
Ticks == tick.version < scene.ticks /\ Tick

\* The listener on the send queue of the controller: Get, and then Add to the queue of
\* the driver, and Done.  A command with the ID of the one in hand is put off until
\* Done, which queues the one in hand again in its place.  Add and Done are one step:
\* what the controller does between them it may also do before, and the driver after.
RouteGet ==
  /\ router = InGet /\ sndQ.items # <<>>
  /\ router' = [id |-> Head(sndQ.items), what |-> Head(payload)]
  /\ sndQ' = QTake(sndQ) /\ payload' = Tail(payload)
  /\ UNCHANGED <<pressed, rcvQ, worker, lirc, tick, driveStopped, carVars, motorState,
                 clientRouter, history>>

RouteAdd ==
  /\ router # InGet /\ router' = InGet
  /\ Motors!MotorReceives(router.id, router.what) /\ sndQ' = QDone(sndQ, router.id)
  /\ payload' = IF Requeues(sndQ, router.id) THEN Append(payload, router.what) ELSE payload
  /\ UNCHANGED <<pressed, rcvQ, worker, lirc, tick, driveStopped, carVars,
                 clientRouter, history>>

Route == RouteGet \/ RouteAdd

\* The client takes a step of its own; it is there in a behaviour that has keys.
Client(step) == scene.keys > 0 /\ step /\ UNCHANGED <<driveVars, motorState, routers, history>>
Keys(key) == client.keys < scene.keys /\ KeyPressed(key)

\* Bound: every "stop" has one ID, and a queue can hold many copies of an ID that
\* comes again and again while it is processed.
Streams == Len(serverQ.items) < MaxWaiting /\ StreamSends

\* The listener on the send queue of the message server does the same.
ClientRouteGet ==
  /\ clientRouter = Motors!NoId /\ serverQ.items # <<>>
  /\ clientRouter' = Head(serverQ.items) /\ serverQ' = QTake(serverQ)
  /\ UNCHANGED <<client, cmdCh, driveVars, motorState, router, history>>

\* Bound: of the copies the queue of the driver holds.
ClientRouteAdd ==
  /\ clientRouter # Motors!NoId /\ Len(motorQ.items) < MaxWaiting
  /\ clientRouter' = Motors!NoId /\ serverQ' = QDone(serverQ, clientRouter)
  /\ Motors!MotorReceives(clientRouter, [speed |-> SpeedOf(clientRouter[1]), press |-> 0])
  /\ UNCHANGED <<client, cmdCh, driveVars, router, history>>

RouteClient == ClientRouteGet \/ ClientRouteAdd

\* Bound: only in a behaviour without keys.  A command of another remote client
\* arrives, of whom the router knows nothing else.
RemoteSends(c) ==
  /\ scene.keys = 0 /\ Cardinality(remote) < MaxRemote /\ c \notin remote
  /\ remote' = remote \cup {c}
  /\ Motors!MotorReceives(c, [speed |-> RemoteSpeed, press |-> 0])
  /\ UNCHANGED <<driveVars, carVars, routers, scene, ranPresses>>

\* The driver takes a step of its own.
Driver(step) == step /\ UNCHANGED <<driveVars, carVars, routers, history>>

\* The press whose command the driver has taken; 0 if it is no press.
InHand == IF motor.pc = "lock" THEN motor.what.press ELSE 0

\* The driver carries a command out.
Runs ==
  /\ Motors!ProcessDriveCmd
  /\ ranPresses' = ranPresses \cup ({InHand} \ {0})
  /\ UNCHANGED <<driveVars, carVars, routers, scene, remote>>

\* Bound: a behaviour stops one of the two, and a controller that has something to do.
StopsDrive == motorStop = "no" /\ scene.keys = 0 /\ DriveStop
StopsMotors == ~driveStopped /\ Motors!MotorStopQueue

Next ==
  \/ \E b \in Buttons : Controller(Presses(b))
  \/ Controller(TakePress) \/ Controller(WorkerExits)
  \/ Controller(HandOver) \/ Controller(LircExits)
  \/ Controller(Ticks) \/ Controller(StopsDrive)
  \/ \E key \in KeyActions \cup {OtherKey} : Client(Keys(key))
  \/ Client(TimerFires) \/ Client(Quits) \/ Client(Streams) \/ RouteClient
  \/ Route \/ Runs
  \/ \E c \in RemoteCommands : RemoteSends(c)
  \/ Driver(Motors!MotorTakes) \/ Driver(Motors!MotorExits)
  \/ Driver(StopsMotors) \/ Driver(Motors!MotorStopKill)

Spec == Init /\ [][Next]_loopVars

\* Fairness of every goroutine, and of the client's timer, which is a loop without
\* an end; buttons, ticks, keys, other clients and the calls of Stop owe nothing.
Fairness ==
  /\ WF_loopVars(Controller(TakePress) \/ Controller(WorkerExits))
  /\ WF_loopVars(Controller(HandOver))
  /\ WF_loopVars(Controller(LircExits))
  /\ WF_loopVars(Client(TimerFires)) /\ WF_loopVars(Client(Streams))
  /\ WF_loopVars(RouteClient)
  /\ WF_loopVars(Route) /\ WF_loopVars(Driver(Motors!MotorStopKill))
  /\ WF_loopVars(Runs \/ Driver(Motors!MotorTakes) \/ Driver(Motors!MotorExits))

FairSpec == Spec /\ Fairness

-----------------------------------------------------------------------------
RouterTypeOK ==
  /\ router \in [id : Commands \cup {Motors!NoId}, what : Payloads]
  /\ clientRouter \in {CarId(a) : a \in CarActions} \cup {Motors!NoId}

\* Every variable has its type.
TypeOK ==
  /\ DriveTypeOK /\ CarTypeOK /\ Motors!MotorTypeOK /\ RouterTypeOK /\ scene \in Scenes
  /\ remote \subseteq RemoteCommands /\ ranPresses \subseteq 1 .. MaxPresses

\* The ID of the command of press k.
IdOf(k) == <<ActionOf(pressed[k]), k - 1>>

\* No press overtakes an earlier one: the commands of the presses are carried out
\* for the first time in the order of the presses (autonomous_drive.go:189-225).
PressesInOrder ==
  [][\A k \in ranPresses' \ ranPresses : \A j \in ranPresses : j < k]_loopVars

\* Until a Stop, a command with the ID of each press is carried out, although the
\* ticks count versions of their own and may take the place of a "forward"
\* (autonomous_drive.go:214, 258; message.go:154).
PressesReachWheels ==
  \A k \in 1 .. MaxPresses :
    k \in Elems(rcvQ.items) ~> \/ Len(pressed) >= k /\ motor.id = IdOf(k)
                              \/ driveStopped \/ motorStop # "no"

\* Once Stop has returned the wheels are set at most once more.
AtMostOneAfterStop == Motors!AtMostOneAfterStop

\* The wheels stand, or turn at a speed of the controller, between that of standing
\* and the maximum, or at one of the client, 50 more or less in a bend: a command for
\* other motors, at whatever speed, does not get through (dualmotors.go:164, 218-245).
WheelsInRange ==
  RemoteCommands \subseteq RemoteForeign =>
    \A w \in {wheels.right, wheels.left} :
      w.speed \in {0, 150, 200, 250} \cup stopSpeedValue .. maxSpeedValue

\* A car that only the client drives comes to rest when no key is pressed any more,
\* and stays there, though a command may be dropped as a duplicate of one that still
\* waits, and one that was added during its execution is executed again after a
\* "stop" (remotecar.go:238-246, queue.go:51-63).  A client that has quit leaves the
\* car as it is.
Standing == wheels.right.speed = 0 /\ wheels.left.speed = 0
CarComesToRest ==
  scene.presses = 0 /\ scene.ticks = 0 /\ scene.keys > 0 =>
    <>[](Standing \/ ~client.on \/ motorStop # "no")

\* "Fair: items processed in the order in which they are added" (queue.go:3): no
\* press is carried out again after a later one.
NoStalePress ==
  [][InHand # 0 /\ motor'.pc # "lock" => \A j \in ranPresses : j <= InHand]_loopVars

\* From the timer to the wheels no speed leaves the range (dualmotors.go:213-250).
LoopInv == TypeOK /\ SpeedInRange /\ WheelsInRange

\* Every press gets to the wheels, and none overtakes another
\* (autonomous_drive.go:189-225, dualmotors.go:151-176).
PressesArrive == PressesInOrder /\ PressesReachWheels

\* Until Stop the goroutine that holds stateMU in messageHandler comes out of it.  Stop
\* may strand it there for good, and does not keep it from its end in any other way
\* (autonomous_drive.go:100-130, 166-175).
HandlerReturns == HandlerUnlocks /\ StopEndsOrStrandsWorker

=============================================================================
