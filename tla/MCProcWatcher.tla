--------------------------- MODULE MCProcWatcher ----------------------------
(* Instances of ProcWatcher for TLC. *)
EXTENDS ProcWatcher, TLC

CONSTANTS p1, p2, p3

ThreeStarts == {p1, p2, p3}
TwoKept == {p1, p2}
OneStart == {p1}

=============================================================================
