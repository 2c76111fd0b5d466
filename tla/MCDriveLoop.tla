---------------------------- MODULE MCDriveLoop -----------------------------
(* The fade amount of the code, and speeds with a shorter climb and so low   *)
(* that two fades lead below zero.  A remote client drives another pair of   *)
(* motors, at a speed of which 50 more wraps.                                *)
EXTENDS DriveLoop

ForOthers == {<<"forward-left", 0>>}

\* The controller alone and the client alone.
SomeScenes == {[presses |-> 2, ticks |-> 1, keys |-> 0],
               [presses |-> 1, ticks |-> 2, keys |-> 0],
               [presses |-> 0, ticks |-> 0, keys |-> 2]}

=============================================================================
