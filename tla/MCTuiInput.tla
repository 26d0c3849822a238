---------------------------- MODULE MCTuiInput ----------------------------
(* Texts for TuiInput: what they are is told by their names.               *)
EXTENDS TuiInput

CONSTANTS all, mesh, peer, say, long, act, msg, critical, toAll, toPeer, second, close,
          reboot, confirm, mouseText, quit, help

KindDef ==
    [t \in Texts |->
        CASE t = say -> "say" [] t = long -> "long" [] t = act -> "act" [] t = msg -> "msg"
          [] t = critical -> "critical" [] t \in {toAll, toPeer} -> "goto"
          [] t = second -> "number" [] t = close -> "close" [] t = reboot -> "reboot"
          [] t = confirm -> "confirm" [] t = mouseText -> "mouse" [] t = quit -> "quit"
          [] OTHER -> "print"]

ToDef == [t \in Texts |-> IF t = second THEN 2 ELSE IF t \in {msg, toPeer} THEN peer ELSE all]
=============================================================================
