--------------------------- MODULE MCMachineLife ----------------------------
(* Instances of MachineLife for TLC. *)
EXTENDS MachineLife, TLC

CONSTANTS a1

\* Every driver is attached to the adaptor a1.
OnA1 == [d \in Drivers |-> a1]

\* The controllers of MCMachine are alike: each may fail to start, none runs a plugin.
ControllersAlike == Permutations(Controllers)

=============================================================================
