---------------------------- MODULE MCConnection ----------------------------
(* Model-checking values for Connection: three clients are the one the slash  *)
(* commands keep, the one in use and the one being dialled; a fourth lets     *)
(* polls of a replaced client outlive the next dial.                          *)
EXTENDS Connection, TLC

CONSTANTS c1, c2, c3, c4

ThreeClients == {c1, c2, c3}
FourClients == {c1, c2, c3, c4}
=============================================================================
