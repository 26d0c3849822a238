--------------------------- MODULE MsgPersistence ---------------------------
(***************************************************************************)
(* The message database across sessions of the TUI (internal/tui/msgdb.go, *)
(* the store's and the loop's writes to it, and runTUI's start-up).        *)
(*                                                                         *)
(* The store never waits for the database: every message filed and every   *)
(* status reported starts a goroutine that writes it, and the goroutines   *)
(* run in any order (each statement under MsgDB.mu).  Leaving the program, *)
(* or its crash, drops the goroutines that have not run.                   *)
(*                                                                         *)
(* A row is its status.  Messages are those of one node and carry the ids  *)
(* the node gave them; time stamps are left out, so any messages may be    *)
(* the most recent.                                                        *)
(***************************************************************************)
EXTENDS Naturals, FiniteSets

CONSTANTS
    Ids,           \* messages (a bound on their number)
    Recent,        \* the limit PreloadFromDB passes to LoadRecent (200)
    MaxSessions    \* bound: how often the program is started

ASSUME PersistenceAssumption ==
    /\ IsFiniteSet(Ids)
    /\ Recent \in Nat \ {0}
    /\ MaxSessions \in Nat \ {0}

VARIABLES
    phase,         \* "down", "fetching" (runTUI before the loop) or "running"
    sessions,      \* how often the program was started
    row,           \* per message: "absent" or the status column
    upserts,       \* messages with an UpsertMessage goroutine to run
    updates,       \* pairs of a message and a status with an UpdateStatus goroutine to run
    loaded,        \* messages in the store's conversations
    awaited,       \* messages whose send result or push is on its way to the loop
    made,          \* messages the node has
    reported       \* per message: the statuses the node has reported to a session

goroutines == <<upserts, updates>>
node == <<made, reported>>
vars == <<phase, sessions, row, goroutines, loaded, awaited, node>>

Reports == {"delivered", "failed"}

TypeOK ==
    /\ phase \in {"down", "fetching", "running"}
    /\ sessions \in 0 .. MaxSessions
    /\ row \in [Ids -> {"absent", "sent"} \cup Reports]
    /\ upserts \subseteq loaded
    /\ updates \subseteq Ids \X Reports
    /\ loaded \subseteq made
    /\ awaited \subseteq made
    /\ made \subseteq Ids
    /\ reported \in [Ids -> SUBSET Reports]

Stored == {id \in Ids : row[id] # "absent"}

Init ==
    /\ phase = "down" /\ sessions = 0
    /\ row = [id \in Ids |-> "absent"]
    /\ upserts = {} /\ updates = {}
    /\ loaded = {} /\ awaited = {} /\ made = {}
    /\ reported = [id \in Ids |-> {}]

-----------------------------------------------------------------------------
(* Statements on the database *)

\* A fault: a message that failed is deleted.
FaultUpdateStatus(id, status) ==
    row' = IF row[id] = "absent" THEN row
           ELSE [row EXCEPT ![id] = IF status = "failed" THEN "absent" ELSE status]

\* UpdateStatus: nothing happens when there is no row.
UpdateStatus(id, status) ==
    row' = IF row[id] # "absent" THEN [row EXCEPT ![id] = status] ELSE row

\* A fault: a message counts as delivered once it is filed.
FaultUpsertMessage(id) == row' = [row EXCEPT ![id] = "delivered"]

\* UpsertMessage of a message from AddMessage or runTUI: these are always "sent",
\* and on a conflict the status overwrites the row's.
UpsertMessage(id) == row' = [row EXCEPT ![id] = "sent"]

-----------------------------------------------------------------------------
(* A session *)

\* A fault: the limit holds for the screen but not for the upserts.
FaultStart ==
    /\ phase = "down" /\ sessions < MaxSessions
    /\ sessions' = sessions + 1
    /\ phase' = "fetching"
    /\ \E rows \in SUBSET Stored :
         /\ Cardinality(rows) = IF Cardinality(Stored) < Recent
                                THEN Cardinality(Stored) ELSE Recent
         /\ loaded' = rows
    /\ upserts' = Stored
    /\ UNCHANGED <<row, updates, awaited, node>>

\* PreloadFromDB: the most recent rows go through AddMessage, which starts an upsert
\* for each of them.
Start ==
    /\ phase = "down" /\ sessions < MaxSessions
    /\ sessions' = sessions + 1
    /\ phase' = "fetching"
    /\ \E rows \in SUBSET Stored :
         /\ Cardinality(rows) = IF Cardinality(Stored) < Recent
                                THEN Cardinality(Stored) ELSE Recent
         /\ loaded' = rows
         /\ upserts' = rows
    /\ UNCHANGED <<row, updates, awaited, node>>

\* runTUI upserts a message the node lists; none of them reaches the screen of this
\* session.
FetchMessage(id) ==
    /\ phase = "fetching"
    /\ id \in made
    /\ UpsertMessage(id)
    /\ UNCHANGED <<phase, sessions, goroutines, loaded, awaited, node>>

\* The list is through, failed, or was cut off by its 10 s: the loop starts.
Run ==
    /\ phase = "fetching"
    /\ phase' = "running"
    /\ UNCHANGED <<sessions, row, goroutines, loaded, awaited, node>>

\* A fault: the message goes to the screen and not to the database.
FaultFileMessage(id) ==
    /\ phase = "running" /\ id \in awaited
    /\ awaited' = awaited \ {id}
    /\ loaded' = loaded \cup {id}
    /\ UNCHANGED <<phase, sessions, row, goroutines, node>>

\* AddMessage, for a send result or a push.
FileMessage(id) ==
    /\ phase = "running" /\ id \in awaited
    /\ awaited' = awaited \ {id}
    /\ loaded' = loaded \cup {id}
    /\ upserts' = upserts \cup {id}
    /\ UNCHANGED <<phase, sessions, row, updates, node>>

\* AckReceived (UpdateAck) and BroadcastDeliveryReceived: each report starts an
\* update; the first report of a status is enough here.
Report(id, status) ==
    /\ phase = "running" /\ id \in made /\ status \notin reported[id]
    /\ reported' = [reported EXCEPT ![id] = @ \cup {status}]
    /\ updates' = updates \cup {<<id, status>>}
    /\ UNCHANGED <<phase, sessions, row, upserts, loaded, awaited, made>>

DoUpsert(id) ==
    /\ id \in upserts
    /\ upserts' = upserts \ {id}
    /\ UpsertMessage(id)
    /\ UNCHANGED <<phase, sessions, updates, loaded, awaited, node>>

DoUpdate(id, status) ==
    /\ <<id, status>> \in updates
    /\ updates' = updates \ {<<id, status>>}
    /\ UpdateStatus(id, status)
    /\ UNCHANGED <<phase, sessions, upserts, loaded, awaited, node>>

\* The user quits or the program crashes: what was not written is lost.
Stop ==
    /\ phase # "down"
    /\ phase' = "down"
    /\ upserts' = {} /\ updates' = {} /\ loaded' = {} /\ awaited' = {}
    /\ UNCHANGED <<sessions, row, node>>

\* The node sends a message for the user or receives one from the mesh; a session
\* hears of it only when its callbacks are registered.
NodeMessage(id) ==
    /\ id \notin made
    /\ made' = made \cup {id}
    /\ awaited' = IF phase = "running" THEN awaited \cup {id} ELSE awaited
    /\ UNCHANGED <<phase, sessions, row, goroutines, loaded, reported>>

Next ==
    \/ Start
    \/ Run
    \/ Stop
    \/ \E id \in Ids : NodeMessage(id)
    \/ \E id \in Ids : FetchMessage(id)
    \/ \E id \in Ids : FileMessage(id)
    \/ \E id \in Ids : DoUpsert(id)
    \/ \E id \in Ids, status \in Reports : Report(id, status)
    \/ \E id \in Ids, status \in Reports : DoUpdate(id, status)

Spec == Init /\ [][Next]_vars

\* The Go runtime runs every goroutine, and the loop takes every posted message, as
\* long as the program runs.  The user and the node owe nothing.
Fairness ==
    /\ WF_vars(Run)
    /\ \A id \in Ids : WF_vars(FileMessage(id)) /\ WF_vars(DoUpsert(id))

FairSpec == Spec /\ Fairness

-----------------------------------------------------------------------------
(* Correctness *)

\* The database invents nothing, whatever the order of its writers and however
\* often the program dies: a row is a message of the node, and a status other than
\* "sent" was reported by the node.
RowsAreReported ==
    \A id \in Ids : row[id] # "absent" =>
        id \in made /\ row[id] \in {"sent"} \cup reported[id]

\* A message that was stored stays stored, across crashes and late writers.
StoredStays == [][Stored \subseteq Stored']_vars

\* What a session was told or preloaded is stored in the end, unless it ends first.
EventuallyStored ==
    \A id \in Ids : (id \in awaited \cup loaded) ~> (id \in Stored \/ phase = "down")

-----------------------------------------------------------------------------
(* What the repository's documents say and the program does not do *)

\* docs/plans/2026-02-26-tui-implementation-plan.md:248, "Ack updates reflected":
\* when no writer is left, a stored message that was acknowledged in this session
\* has a status the node reported.
AckSettles ==
    \A id \in loaded : reported[id] # {} /\ upserts = {} /\ updates = {} =>
        row[id] \in reported[id]
=============================================================================
