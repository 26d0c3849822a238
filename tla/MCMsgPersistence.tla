-------------------------- MODULE MCMsgPersistence --------------------------
(* Model-checking values for MsgPersistence. *)
EXTENDS MsgPersistence, TLC

CONSTANTS id1, id2

TwoIds == {id1, id2}
=============================================================================
