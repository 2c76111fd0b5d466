----------------------------- MODULE MCRecords ------------------------------
(* Three options, one in two spellings and one read-only; two commands with   *)
(* an option of their own and one in common, and a third that ends early; a   *)
(* request in another spelling and one with a key that is refused.            *)
EXTENDS Records

Found == [A |-> "A", a |-> "A", B |-> "B", b |-> "B", C |-> "C", D |-> "D",
          ro |-> "ro", x |-> None]

Arg(key, value) == [key |-> key, value |-> value]

Arguments ==
  [c1 |-> <<Arg("a", TRUE), Arg("C", TRUE), Arg("A", FALSE)>>,
   c2 |-> <<Arg("B", TRUE), Arg("C", FALSE)>>,
   c3 |-> <<Arg("D", TRUE), Arg("ro", TRUE)>>]

OtherRequests ==
  {[C |-> TRUE, b |-> TRUE], [C |-> TRUE, x |-> TRUE], [C |-> FALSE, ro |-> TRUE]}

=============================================================================
