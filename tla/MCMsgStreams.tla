---------------------------- MODULE MCMsgStreams ----------------------------
(* Every message for the streams of the message server has an external form, *)
(* the first one for a plugin has none.  The peers of a plugin send two at a *)
(* time, those of the message server one that has no internal form.          *)
EXTENDS MsgStreams

CONSTANTS i1, i2

FirstForPlugin == [grpc |-> {}, mpi |-> {1}]
TwoForPlugin == [grpc |-> {<<>>}, mpi |-> {<<i1, i2>>}]

=============================================================================
