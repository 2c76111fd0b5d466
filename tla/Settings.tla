------------------------------ MODULE Settings ------------------------------
(***************************************************************************)
(* What the options of the daemon promise: a permitted request is carried  *)
(* out as a whole, options that it does not name keep their values, other  *)
(* requests change nothing, and a restart turns all options off.           *)
(***************************************************************************)
CONSTANTS Keys,
          Permitted \* the requests: values for some of the keys

VARIABLE enabled

Init == enabled = [k \in Keys |-> FALSE]

Change == \E n \in Permitted :
            enabled' = [k \in Keys |-> IF k \in DOMAIN n THEN n[k] ELSE enabled[k]]

Restart == enabled' = [k \in Keys |-> FALSE]

Spec == Init /\ [][Change \/ Restart]_enabled

=============================================================================
