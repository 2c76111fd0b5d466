---------------------------- MODULE MCMsgRouter -----------------------------
(* Instances of MsgRouter for TLC: m3 sends, and m2 never stops.  When m1 or *)
(* m3 leaves there is another subscriber that a listener may pass over.      *)
EXTENDS MsgRouter

CONSTANTS m1, m2, m3

ThreeModules == {m1, m2, m3}
Leavers == {m1, m3}
OneSender == {m3}
OneLeaver == {m1}
NoModules == {}
Remainer == {m2}

=============================================================================
