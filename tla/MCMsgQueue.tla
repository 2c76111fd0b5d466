---------------------------- MODULE MCMsgQueue ------------------------------
(* Instances of MsgQueue for TLC. *)
EXTENDS MsgQueue, TLC

Symmetry == Permutations(Ids) \cup Permutations(Consumers)

=============================================================================
