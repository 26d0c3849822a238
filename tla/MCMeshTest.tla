----------------------------- MODULE MCMeshTest -----------------------------
(* Model-checking values for MeshTest: a node on a serial port that is also on  *)
(* the network, and another two on the network.                                 *)
EXTENDS MeshTest, TLC

CONSTANTS tty, ws1, ws2, ws3, A, B, C, none

FourNodes == <<tty, ws1, ws2, ws3>>
FourAddresses == (tty :> A) @@ (ws1 :> A) @@ (ws2 :> B) @@ (ws3 :> C)
=============================================================================
