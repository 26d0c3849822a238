------------------------ MODULE MsgPersistenceProofs ------------------------
(***************************************************************************)
(* For any messages, limit and number of sessions: the database holds only *)
(* what the node has and reported, and never loses a row.  The inductive   *)
(* invariant adds that the status a goroutine carries was reported.  On    *)
(* top of it: what the screen shows is stored or on its way.               *)
(***************************************************************************)
EXTENDS MsgPersistence, TLAPS

UpdatesAreReports ==
    \A id \in Ids, status \in Reports : <<id, status>> \in updates =>
        id \in made /\ status \in reported[id]

IInv == TypeOK /\ UpdatesAreReports /\ RowsAreReported

LEMMA InitIInv == Init => IInv
  BY PersistenceAssumption DEF Init, IInv, TypeOK, UpdatesAreReports, RowsAreReported, Reports

\* The statement that writes "sent" keeps rows typed and reported, for a message
\* the node has.
LEMMA UpsertKeeps ==
    ASSUME IInv, NEW id \in made, UpsertMessage(id), made' = made, reported' = reported
    PROVE  /\ row' \in [Ids -> {"absent", "sent"} \cup Reports]
           /\ RowsAreReported'
  BY DEF IInv, TypeOK, RowsAreReported, UpsertMessage

\* The statement that writes a reported status keeps them as well.
LEMMA UpdateKeeps ==
    ASSUME IInv, NEW id \in Ids, NEW status \in Reports, <<id, status>> \in updates,
           UpdateStatus(id, status), made' = made, reported' = reported
    PROVE  /\ row' \in [Ids -> {"absent", "sent"} \cup Reports]
           /\ RowsAreReported'
  BY DEF IInv, TypeOK, UpdatesAreReports, RowsAreReported, UpdateStatus

LEMMA NextIInv == IInv /\ [Next]_vars => IInv'
<1> SUFFICES ASSUME IInv, [Next]_vars PROVE IInv' OBVIOUS
<1>0. TypeOK BY DEF IInv
<1>1. CASE Start
  <2>1. PICK rows \in SUBSET Stored : loaded' = rows /\ upserts' = rows BY <1>1 DEF Start
  <2>2. rows \subseteq made BY <2>1 DEF IInv, RowsAreReported, Stored
  <2>3. sessions' \in 0 .. MaxSessions BY <1>0, <1>1, PersistenceAssumption DEF Start, TypeOK
  <2>4. TypeOK' BY <1>0, <1>1, <2>1, <2>2, <2>3 DEF Start, TypeOK, node
  <2>5. UpdatesAreReports' /\ RowsAreReported'
    BY <1>1 DEF IInv, Start, UpdatesAreReports, RowsAreReported, node
  <2> QED BY <2>4, <2>5 DEF IInv
<1>2. CASE Run
  BY <1>2 DEF IInv, Run, TypeOK, UpdatesAreReports, RowsAreReported, goroutines, node
<1>3. CASE Stop
  BY <1>3 DEF IInv, Stop, TypeOK, UpdatesAreReports, RowsAreReported, node
<1>4. ASSUME NEW id \in Ids, NodeMessage(id) PROVE IInv'
  <2>1. TypeOK' BY <1>0, <1>4 DEF NodeMessage, TypeOK, goroutines
  <2>2. UpdatesAreReports' /\ RowsAreReported'
    BY <1>4 DEF IInv, NodeMessage, UpdatesAreReports, RowsAreReported, goroutines
  <2> QED BY <2>1, <2>2 DEF IInv
<1>5. ASSUME NEW id \in Ids, FetchMessage(id) PROVE IInv'
  <2>1. /\ row' \in [Ids -> {"absent", "sent"} \cup Reports]
        /\ RowsAreReported'
    BY <1>5, UpsertKeeps DEF FetchMessage, node
  <2>2. TypeOK' BY <1>0, <1>5, <2>1 DEF FetchMessage, TypeOK, goroutines, node
  <2>3. UpdatesAreReports' BY <1>5 DEF IInv, FetchMessage, UpdatesAreReports, goroutines, node
  <2> QED BY <2>1, <2>2, <2>3 DEF IInv
<1>6. ASSUME NEW id \in Ids, FileMessage(id) PROVE IInv'
  <2>1. TypeOK' BY <1>0, <1>6 DEF FileMessage, TypeOK, node
  <2>2. UpdatesAreReports' /\ RowsAreReported'
    BY <1>6 DEF IInv, FileMessage, UpdatesAreReports, RowsAreReported, node
  <2> QED BY <2>1, <2>2 DEF IInv
<1>7. ASSUME NEW id \in Ids, DoUpsert(id) PROVE IInv'
  <2>1. id \in made BY <1>0, <1>7 DEF DoUpsert, TypeOK
  <2>2. /\ row' \in [Ids -> {"absent", "sent"} \cup Reports]
        /\ RowsAreReported'
    BY <1>7, <2>1, UpsertKeeps DEF DoUpsert, node
  <2>3. TypeOK' BY <1>0, <1>7, <2>2 DEF DoUpsert, TypeOK, node
  <2>4. UpdatesAreReports' BY <1>7 DEF IInv, DoUpsert, UpdatesAreReports, node
  <2> QED BY <2>2, <2>3, <2>4 DEF IInv
<1>8. ASSUME NEW id \in Ids, NEW status \in Reports, Report(id, status) PROVE IInv'
  <2>1. reported' \in [Ids -> SUBSET Reports] BY <1>0, <1>8 DEF Report, TypeOK
  <2>2. TypeOK' BY <1>0, <1>8, <2>1 DEF Report, TypeOK
  <2>3. \A i \in Ids : reported[i] \subseteq reported'[i] BY <1>0, <1>8 DEF Report, TypeOK
  <2>4. status \in reported'[id] BY <1>0, <1>8 DEF Report, TypeOK
  <2>5. UpdatesAreReports' BY <1>8, <2>3, <2>4 DEF IInv, Report, UpdatesAreReports
  <2>6. RowsAreReported' BY <1>8, <2>3 DEF IInv, Report, RowsAreReported
  <2> QED BY <2>2, <2>5, <2>6 DEF IInv
<1>9. ASSUME NEW id \in Ids, NEW status \in Reports, DoUpdate(id, status) PROVE IInv'
  <2>1. /\ row' \in [Ids -> {"absent", "sent"} \cup Reports]
        /\ RowsAreReported'
    BY <1>9, UpdateKeeps DEF DoUpdate, node
  <2>2. TypeOK' BY <1>0, <1>9, <2>1 DEF DoUpdate, TypeOK, node
  <2>3. UpdatesAreReports' BY <1>9 DEF IInv, DoUpdate, UpdatesAreReports, node
  <2> QED BY <2>1, <2>2, <2>3 DEF IInv
<1>10. CASE UNCHANGED vars
  BY <1>10 DEF IInv, vars, TypeOK, UpdatesAreReports, RowsAreReported, goroutines, node
<1> QED BY <1>1, <1>2, <1>3, <1>4, <1>5, <1>6, <1>7, <1>8, <1>9, <1>10 DEF Next

\* No step, in any session, removes a row.
LEMMA NextKeepsRows ==
    ASSUME TypeOK, [Next]_vars
    PROVE  Stored \subseteq Stored'
<1>1. CASE row' = row BY <1>1 DEF Stored
<1>2. CASE \E id \in Ids : UpsertMessage(id) BY <1>2 DEF UpsertMessage, Stored, TypeOK
<1>3. CASE \E id \in Ids, status \in Reports : UpdateStatus(id, status)
  BY <1>3 DEF UpdateStatus, Stored, TypeOK, Reports
<1> QED
  BY <1>1, <1>2, <1>3
     DEF Next, vars, Start, Run, Stop, NodeMessage, FetchMessage, FileMessage, DoUpsert,
         Report, DoUpdate

-----------------------------------------------------------------------------

\* The inductive invariant holds in every reachable state.
THEOREM Invariance == Spec => []IInv
BY InitIInv, NextIInv, PTL DEF Spec

\* Every variable keeps its type; the database goroutines write only messages that
\* the store holds.
THEOREM TypeCorrect == Spec => []TypeOK
<1>1. IInv => TypeOK BY DEF IInv
<1> QED BY <1>1, Invariance, PTL

\* The database invents neither messages nor statuses.
THEOREM NothingInvented == Spec => []RowsAreReported
<1>1. IInv => RowsAreReported BY DEF IInv
<1> QED BY <1>1, Invariance, PTL

\* No row is ever lost.
THEOREM RowsStay == Spec => StoredStays
<1>1. IInv /\ [Next]_vars => [Stored \subseteq Stored']_vars
  BY NextKeepsRows DEF IInv
<1> QED BY <1>1, Invariance, PTL DEF Spec, StoredStays

\* What the user sees is in the database, or a goroutine that will write it is left:
\* no update, upsert or preload loses a message between the screen and the disk.
ShownIsOnItsWay == \A id \in loaded : id \in Stored \cup upserts

\* Every step of a session keeps what it shows on record or on its way: a row is
\* never removed, and an upsert leaves one.
LEMMA NextKeepsShown ==
    ASSUME TypeOK, ShownIsOnItsWay, [Next]_vars
    PROVE  ShownIsOnItsWay'
<1>0. Stored \subseteq Stored' BY NextKeepsRows
<1>1. CASE Start BY <1>1 DEF Start, ShownIsOnItsWay
<1>2. CASE Stop BY <1>2 DEF Stop, ShownIsOnItsWay
<1>3. ASSUME NEW id \in Ids, FileMessage(id) PROVE ShownIsOnItsWay'
  BY <1>0, <1>3 DEF FileMessage, ShownIsOnItsWay
<1>4. ASSUME NEW id \in Ids, DoUpsert(id) PROVE ShownIsOnItsWay'
  <2>1. id \in Stored' BY <1>4 DEF DoUpsert, UpsertMessage, Stored, TypeOK
  <2> QED BY <1>0, <1>4, <2>1 DEF DoUpsert, ShownIsOnItsWay
<1>5. CASE UNCHANGED <<loaded, upserts>> BY <1>0, <1>5 DEF ShownIsOnItsWay
<1> QED
  BY <1>1, <1>2, <1>3, <1>4, <1>5
     DEF Next, vars, goroutines, node, Run, NodeMessage, FetchMessage, Report, DoUpdate

\* A message on the screen is stored or about to be, in every session.
THEOREM ShownAreStored == Spec => []ShownIsOnItsWay
<1>1. Init => ShownIsOnItsWay BY DEF Init, ShownIsOnItsWay
<1>2. IInv /\ ShownIsOnItsWay /\ [Next]_vars => ShownIsOnItsWay' BY NextKeepsShown DEF IInv
<1> QED BY <1>1, <1>2, Invariance, PTL DEF Spec

=============================================================================
