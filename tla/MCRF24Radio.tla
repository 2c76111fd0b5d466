---------------------------- MODULE MCRF24Radio -----------------------------
(* A child with three frames, which a read cuts anywhere, and a heartbeat; one *)
(* with a frame and two messages of the daemon; the master with two frames, or *)
(* two messages; and a message, or a frame, that has no internal form.         *)
EXTENDS RF24Radio

Load(role, frames, msgs, beats, bad) ==
  [role |-> role, frames |-> frames, msgs |-> msgs, beats |-> beats, bad |-> bad]

SomeLoads ==
  {Load("child", 3, 0, 1, {}), Load("child", 1, 2, 0, {}), Load("child", 0, 2, 0, {2}),
   Load("master", 2, 0, 0, {}), Load("master", 0, 2, 0, {}),
   Load("master", 1, 0, 0, {1})}

BadFrame == {Load("child", 1, 0, 0, {1})}

=============================================================================
