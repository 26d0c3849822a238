---------------------------- MODULE MCTuiTarget ----------------------------
(* Two processes, two aliases, a host that demands a token and an open
one, a BLE peer that demands one, and the ways of naming a target. *)
EXTENDS TuiTarget
CONSTANTS tui, cli, a1, a2, h1, h2, k1, k2
MCHosts == {h1, h2}
MCTokens == {k1, k2}
MCEntries == [host : MCHosts, token : MCTokens \cup {None}]
MCTyped == {[host |-> h1, token |-> None], [host |-> h2, token |-> k2]}
MCSecret == [t \in Targets |-> IF t \in {h1, Ble} THEN k1 ELSE None]
Plain == [device |-> None, transport |-> None, ble |-> FALSE, port |-> FALSE,
          token |-> None, env |-> None, interactive |-> TRUE]
MCCommandLines ==
    {Plain,
     [Plain EXCEPT !.interactive = FALSE],
     [Plain EXCEPT !.device = a1],
     [Plain EXCEPT !.device = a1, !.env = k2],
     [Plain EXCEPT !.transport = h1],
     [Plain EXCEPT !.transport = h1, !.token = k1],
     [Plain EXCEPT !.transport = h1, !.device = a1],
     [Plain EXCEPT !.ble = TRUE],
     [Plain EXCEPT !.port = TRUE]}
=============================================================================
