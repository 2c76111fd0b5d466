---------------------------- MODULE MCRF24Nodes -----------------------------
(* One node that subscribes to one of two types; every message is of it.    *)
EXTENDS RF24Nodes

CONSTANTS led, other

TypesOf == [m \in Msgs |-> led]
WantsLed == [n \in Nodes |-> {led}]

=============================================================================
