------------------------------ MODULE Session ------------------------------
(***************************************************************************)
(* What the TUI promises its user about the connection to the node: it is  *)
(* online, or it waits for the next attempt, or an attempt is under way.   *)
(* The waits of one outage are 1, 2, 4, ... seconds up to a ceiling, and   *)
(* an outage ends with the next attempt that succeeds.  The event loop of  *)
(* Connection.tla is shown to implement this specification.                *)
(***************************************************************************)
EXTENDS Naturals

CONSTANT MaxBackoff        \* the ceiling of the wait, in seconds

VARIABLES
    phase,                 \* "online", "waiting" or "dialing"
    wait                   \* seconds announced for the current outage, 0 online

sessionVars == <<phase, wait>>

\* The wait after a wait of d seconds: twice as long, up to the ceiling.
NextWait(d) == IF 2 * d > MaxBackoff THEN MaxBackoff ELSE 2 * d

Init == phase = "online" /\ wait = 0

\* The connection is found lost: the first attempt is due in one second.
Lose ==
    /\ phase = "online"
    /\ phase' = "waiting"
    /\ wait' = 1

\* The wait is over and an attempt starts.
Attempt ==
    /\ phase = "waiting"
    /\ phase' = "dialing"
    /\ UNCHANGED wait

\* The attempt failed: wait longer.
Retry ==
    /\ phase = "dialing"
    /\ phase' = "waiting"
    /\ wait' = NextWait(wait)

\* The attempt succeeded: the outage is over and forgotten.
Resume ==
    /\ phase = "dialing"
    /\ phase' = "online"
    /\ wait' = 0

Next == Lose \/ Attempt \/ Retry \/ Resume

Spec == Init /\ [][Next]_sessionVars

-----------------------------------------------------------------------------

\* Liveness the loop owes: a wait always ends in an attempt, and an attempt
\* always ends, one way or the other.
KeepsTrying ==
    /\ phase = "waiting" ~> phase = "dialing"
    /\ phase = "dialing" ~> phase # "dialing"

=============================================================================
