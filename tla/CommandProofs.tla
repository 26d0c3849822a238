--------------------------- MODULE CommandProofs ---------------------------
(***************************************************************************)
(* Proofs about two kinds of commands that run once and share no state:    *)
(* the ones that collect what comes in (Collection) and the ones about the *)
(* location (Location, whose specification has names of its own).          *)
(*                                                                         *)
(* Collection, for any answers, filters and capacity of the channel: what  *)
(* came is accounted for, because broadcast and discover listen before an  *)
(* answer may come, and a window that ends because all is said has nothing *)
(* left.                                                                   *)
(*                                                                         *)
(* Location, for any peers and channels, any rules a node may hold, any    *)
(* commands that run meanwhile and any pattern of failed reads: the        *)
(* verdict of the doctor agrees with what the node does as long as nothing *)
(* changed since the first read.  The five reads come one after the other, *)
(* so the invariant says of each what it knows once its turn is over       *)
(* (HasRead) and what stands in the report before (NotYetRead).            *)
(***************************************************************************)
EXTENDS Collection, Location, FiniteSetTheorems, TLAPS

-----------------------------------------------------------------------------
(* Collection: the inductive invariant *)

\* broadcast and discover listen from the moment on that answers may come.
ListensInTime ==
    command \in {"broadcast", "discover"} /\ (phase = "asked" \/ Looping) => listening

\* A goroutine of fleet that is through has written its row.
RowWritten == command = "fleet" => Answers \ coming \subseteq printed

\* A reason to end comes with the end.
EndsOnce == ended = "no" <=> phase # "done"

WindowIInv ==
    /\ TypeOK
    /\ ListensInTime
    /\ ReceiptsAddUp
    /\ RowWritten
    /\ EndsOnce
    /\ NothingLeftBehind

\* Nothing came yet.
LEMMA WindowInit == Init => WindowIInv
<1> SUFFICES ASSUME Init PROVE WindowIInv
  OBVIOUS
<1>1. TypeOK
  BY DEF Init, TypeOK, Commands, Queued, Monitors, Consoles
<1>2. ListensInTime /\ RowWritten /\ EndsOnce /\ NothingLeftBehind
  BY DEF Init, ListensInTime, Looping, RowWritten, EndsOnce, NothingLeftBehind
<1>3. ReceiptsAddUp
  BY DEF Init, ReceiptsAddUp, Accounted, Due
<1> QED
  BY <1>1, <1>2, <1>3 DEF WindowIInv

\* A phase begins: what came is left alone, and broadcast and discover listen.
LEMMA Opening ==
    ASSUME WindowIInv, phase # "done",
           phase' \in {"asked", "open", "draining", "closing"}, listening' \in BOOLEAN,
           command \in {"broadcast", "discover"} => listening',
           complete' \in BOOLEAN, enabled' \in BOOLEAN,
           UNCHANGED <<command, flags, ended, coming, queue, printed, dropped, quit>>
    PROVE  WindowIInv'
<1>1. TypeOK'
  BY DEF WindowIInv, TypeOK, window
<1>2. ListensInTime' /\ EndsOnce'
  BY DEF WindowIInv, ListensInTime, Looping, EndsOnce
<1>3. RowWritten' /\ NothingLeftBehind'
  BY DEF WindowIInv, RowWritten, NothingLeftBehind, window
<1>4. ReceiptsAddUp'
  BY DEF WindowIInv, ReceiptsAddUp, Accounted, Due, window
<1> QED
  BY <1>1, <1>2, <1>3, <1>4 DEF WindowIInv

\* The end of a command leaves the window as it is.
LEMMA Ending ==
    ASSUME WindowIInv, NEW why \in {"error", "time", "complete", "match", "signal", "rows", "read"},
           Ends(why), why = "complete" => queue = {}, why = "rows" => command = "fleet" /\ coming = {}
    PROVE  WindowIInv'
<1>1. TypeOK'
  BY DEF WindowIInv, TypeOK, Ends, window
<1>2. ListensInTime' /\ EndsOnce' /\ RowWritten'
  BY DEF WindowIInv, ListensInTime, Looping, EndsOnce, RowWritten, Ends, window
<1>3. NothingLeftBehind'
  BY DEF WindowIInv, TypeOK, RowWritten, NothingLeftBehind, Ends, window
<1>4. ReceiptsAddUp'
  BY DEF WindowIInv, ReceiptsAddUp, Accounted, Due, Ends, window
<1> QED
  BY <1>1, <1>2, <1>3, <1>4 DEF WindowIInv

\* Up to the window.
LEMMA StartKeeps ==
    ASSUME WindowIInv, Ask \/ Enable \/ Open \/ Refused
    PROVE  WindowIInv'
<1> USE DEF WindowIInv
<1>1. CASE Fail
  BY <1>1, Ending DEF Fail
<1>2. CASE Ask /\ ~Fail
  <2>1. /\ phase = "start" /\ phase' = "asked" /\ listening' \in BOOLEAN
        /\ command \in {"broadcast", "discover"} => listening'
        /\ UNCHANGED <<command, flags, ended, window, quit, enabled>>
    BY <1>2 DEF Ask, AskBroadcast, AskDiscover, AskProbe, AskTraffic, Asks, ListensFirst
  <2> QED
    BY <2>1, Opening DEF TypeOK, window
<1>3. CASE Enable /\ ~Fail
  <2>1. /\ phase = "asked" /\ command = "traffic" /\ enabled' = TRUE
        /\ UNCHANGED <<command, flags, phase, ended, listening, window, quit>>
    BY <1>3 DEF Enable
  <2> QED
    BY <2>1, Opening DEF TypeOK, window
<1>4. CASE Open
  <2>1. /\ phase \in {"start", "asked"} /\ phase' = "open" /\ listening' = TRUE
        /\ UNCHANGED <<command, flags, ended, window, quit, enabled>>
    BY <1>4 DEF Open, OpenWait, OpenProbe, OpenTraffic, OpenMonitor, OpenConsole, OpenFleet, Opens
  <2> QED
    BY <2>1, Opening DEF TypeOK, window
<1> QED
  BY <1>1, <1>2, <1>3, <1>4 DEF Refused

\* An answer that comes to broadcast or discover is in the channel or found it full,
\* because they listen.
LEMMA ArriveQueuedKeeps ==
    ASSUME WindowIInv, NEW a \in Answers, ArriveQueued(a)
    PROVE  WindowIInv'
<1>1. /\ command \in Queued /\ a \in coming /\ (phase = "asked" \/ Looping)
      /\ coming' = coming \ {a}
      /\ UNCHANGED <<command, flags, phase, ended, listening, quit, enabled, printed, complete>>
      /\ queue' = IF listening THEN Put(a) ELSE queue
      /\ dropped' = IF listening /\ Cardinality(queue) >= QueueMax THEN dropped \cup {a}
                                                                    ELSE dropped
  BY DEF ArriveQueued, Arrive
<1>2. queue' \subseteq queue \cup {a} /\ queue \subseteq queue' /\ dropped \subseteq dropped'
      /\ dropped' \subseteq dropped \cup {a}
  BY <1>1 DEF Put
<1>3. listening => a \in queue' \/ a \in dropped'
  <2>0. QueueMax \in Nat /\ Cardinality(queue) \in Nat
    BY CollectionAssumption, FS_Subset, FS_CardinalityType DEF WindowIInv, TypeOK
  <2>1. CASE Cardinality(queue) < QueueMax
    BY <1>1, <2>1 DEF Put
  <2>2. CASE Cardinality(queue) >= QueueMax
    BY <1>1, <2>2
  <2> QED
    BY <2>0, <2>1, <2>2
<1>4. TypeOK'
  BY <1>1, <1>2 DEF WindowIInv, TypeOK
<1>5. ListensInTime' /\ EndsOnce'
  BY <1>1 DEF WindowIInv, ListensInTime, Looping, EndsOnce
<1>6. RowWritten' /\ NothingLeftBehind'
  BY <1>1 DEF WindowIInv, RowWritten, NothingLeftBehind, EndsOnce, Queued, Looping
<1>7. ReceiptsAddUp'
  BY <1>1, <1>2, <1>3 DEF WindowIInv, ListensInTime, Looping, ReceiptsAddUp, Accounted, Due
<1> QED
  BY <1>4, <1>5, <1>6, <1>7 DEF WindowIInv

\* What the other commands get is printed where it comes.
LEMMA ArriveElseKeeps ==
    ASSUME WindowIInv, NEW a \in Answers,
           ArriveEvent(a) \/ ArriveTraffic(a) \/ ArriveLine(a) \/ ArriveRow(a)
    PROVE  WindowIInv'
<1>1. /\ command \notin Queued /\ a \in coming /\ (phase = "asked" \/ Looping)
      /\ coming' = coming \ {a}
      /\ UNCHANGED <<command, flags, phase, ended, listening, quit, enabled, queue, dropped>>
      /\ printed' = printed \/ printed' = printed \cup {a}
      /\ command = "fleet" => printed' = printed \cup {a}
  BY DEF ArriveEvent, ArriveTraffic, ArriveLine, ArriveRow, Arrive, Queued, Consoles
<1>2. complete' \in BOOLEAN
  BY DEF WindowIInv, TypeOK, ArriveEvent, ArriveTraffic, ArriveLine, ArriveRow
<1>3. TypeOK'
  BY <1>1, <1>2 DEF WindowIInv, TypeOK
<1>4. ListensInTime' /\ EndsOnce' /\ RowWritten' /\ NothingLeftBehind'
  BY <1>1 DEF WindowIInv, ListensInTime, Looping, EndsOnce, RowWritten, NothingLeftBehind
<1>5. ReceiptsAddUp'
  BY <1>1 DEF ReceiptsAddUp, Accounted, Queued
<1> QED
  BY <1>3, <1>4, <1>5 DEF WindowIInv

\* The loop moves an entry of the channel to what is reported, if it counts.
LEMMA TakeKeeps ==
    ASSUME WindowIInv, NEW a \in Answers, Take(a)
    PROVE  WindowIInv'
<1>1. /\ Looping /\ a \in queue /\ queue' = queue \ {a}
      /\ printed' = IF Counts(a) THEN printed \cup {a} ELSE printed
      /\ UNCHANGED <<command, flags, phase, ended, listening, coming, complete, dropped,
                     quit, enabled>>
  BY DEF Take
<1>2. TypeOK'
  BY <1>1 DEF WindowIInv, TypeOK
<1>3. ListensInTime' /\ EndsOnce' /\ RowWritten' /\ NothingLeftBehind'
  BY <1>1 DEF WindowIInv, ListensInTime, EndsOnce, RowWritten, NothingLeftBehind, Looping
<1>4. ReceiptsAddUp'
  BY <1>1 DEF WindowIInv, ReceiptsAddUp, Accounted, Due, Counts
<1> QED
  BY <1>2, <1>3, <1>4 DEF WindowIInv

\* The node and the user set a flag.
LEMMA FlagKeeps ==
    ASSUME WindowIInv, Complete \/ Interrupt
    PROVE  WindowIInv'
<1>1. /\ UNCHANGED <<command, flags, phase, ended, listening, coming, queue, printed, dropped,
                     enabled>>
      /\ complete' \in BOOLEAN /\ quit' \in BOOLEAN
  BY DEF Complete, Interrupt, window, WindowIInv, TypeOK
<1>2. TypeOK' /\ ListensInTime' /\ EndsOnce' /\ RowWritten' /\ NothingLeftBehind'
  BY <1>1 DEF WindowIInv, TypeOK, ListensInTime, Looping, EndsOnce, RowWritten, NothingLeftBehind
<1>3. ReceiptsAddUp'
  BY <1>1 DEF WindowIInv, ReceiptsAddUp, Accounted, Due
<1> QED
  BY <1>2, <1>3 DEF WindowIInv

\* A probe that is complete ends with an empty channel, a sweep with its last row.
LEMMA CloseKeeps ==
    ASSUME WindowIInv, Close \/ ReadEnds
    PROVE  WindowIInv'
<1>1. CASE CloseBroadcast \/ CloseProbe \/ CloseDiscover
  BY <1>1, Ending DEF CloseBroadcast, CloseProbe, CloseDiscover
<1>2. CASE CloseOnSignal \/ CloseOnMatch \/ ReadEnds
  BY <1>2, Ending DEF CloseOnSignal, CloseOnMatch, ReadEnds
<1>3. CASE CloseOnRows
  BY <1>3, Ending DEF CloseOnRows, AllRows
<1>4. CASE CloseConsole
  <2>1. /\ phase = "open" /\ phase' = "closing" /\ command \in Consoles
        /\ UNCHANGED <<command, flags, ended, listening, window, quit, enabled>>
    BY <1>4 DEF CloseConsole
  <2> QED
    BY <2>1, Opening DEF WindowIInv, TypeOK, Consoles, window
<1>5. CASE CloseOnComplete
  <2>1. /\ phase = "open" /\ phase' = "draining" /\ command = "probe" /\ complete' = FALSE
        /\ UNCHANGED <<command, flags, ended, listening, coming, queue, printed, dropped, quit,
                       enabled>>
    BY <1>5 DEF CloseOnComplete
  <2> QED
    BY <2>1, Opening DEF WindowIInv, TypeOK
<1>6. CASE DrainEnds
  BY <1>6, Ending DEF DrainEnds, Drained
<1> QED
  BY <1>1, <1>2, <1>3, <1>4, <1>5, <1>6 DEF Close

\* Every step of a command, of its callbacks and of the mesh keeps the invariant.
LEMMA WindowStep == WindowIInv /\ [Next]_vars => WindowIInv'
<1> SUFFICES ASSUME WindowIInv, [Next]_vars PROVE WindowIInv'
  OBVIOUS
<1>1. CASE UNCHANGED vars
  <2>1. UNCHANGED <<command, flags, phase, ended, listening, coming, queue, printed, complete,
                    dropped, quit, enabled>>
    BY <1>1 DEF vars, window
  <2> QED
    BY <2>1 DEF WindowIInv, TypeOK, ListensInTime, Looping, ReceiptsAddUp, Accounted, Due,
                RowWritten, EndsOnce, NothingLeftBehind
<1>2. CASE Ask \/ Enable \/ Open \/ Refused
  BY <1>2, StartKeeps
<1>3. CASE \E a \in Answers : Arrives(a) \/ Take(a)
  BY <1>3, ArriveQueuedKeeps, ArriveElseKeeps, TakeKeeps DEF Arrives
<1>4. CASE Complete \/ Interrupt
  BY <1>4, FlagKeeps
<1>5. CASE Close \/ ReadEnds
  BY <1>5, CloseKeeps
<1> QED
  BY <1>1, <1>2, <1>3, <1>4, <1>5 DEF Next

\* The inductive invariant of the windows holds for any answers, filters and
\* capacity of the channel.
THEOREM WindowInvariance == Spec => []WindowIInv
BY WindowInit, WindowStep, PTL DEF Spec

\* The windows keep their types: no more is printed, queued or dropped than may come.
THEOREM WindowTypeCorrect == Spec => []TypeOK
<1>1. WindowIInv => TypeOK
  BY DEF WindowIInv
<1> QED
  BY <1>1, WindowInvariance, PTL

\* A receipt of this broadcast is counted, waits in the channel or found it full,
\* also if it came before the call returned; none of another one is counted.
THEOREM ReceiptsCorrect == Spec => []ReceiptsAddUp
<1>1. WindowIInv => ReceiptsAddUp
  BY DEF WindowIInv
<1> QED
  BY <1>1, WindowInvariance, PTL

\* A probe that is complete leaves no result in its channel, and a sweep of the
\* bench ends with a row for every port.
THEOREM EndsCorrect == Spec => []NothingLeftBehind
<1>1. WindowIInv => NothingLeftBehind
  BY DEF WindowIInv
<1> QED
  BY <1>1, WindowInvariance, PTL

-----------------------------------------------------------------------------
(* Location: the inductive invariant *)

\* The report has its six fields; the doctor is at one of its reads or through.
Shape ==
    /\ read = [config |-> read.config, gps |-> read.gps, known |-> read.known,
               sessions |-> read.sessions, near |-> read.near, routed |-> read.routed]
    /\ next \in 1..6 /\ stale \in BOOLEAN
    /\ read.known \in BOOLEAN /\ read.gps \in {"fix", "none", "failed"}

\* What no read has filled in stands at gatherLocationDoctorInput's zero value.
NotYetRead ==
    /\ next <= 2 => read.gps = "none"
    /\ next <= 3 => ~read.known
    /\ next <= 4 => read.near = {}
    /\ next <= 5 => read.routed = {}

\* Unless something changed since the first read, what was read is so: the
\* configuration always, the GPS and the sessions if their reads did not fail,
\* neighbours and routes unless nothing is known of them.
HasRead ==
    ~stale =>
        /\ next > 1 /\ verdict # "failed" => read.config = config
        /\ next > 2 /\ read.gps # "failed" => (read.gps = "fix" <=> fix)
        /\ next > 3 /\ read.known => read.sessions = session
        /\ next > 4 => read.near \in {near, {}}
        /\ next > 5 => read.routed \in {routed, {}}

\* A verdict is the one of what was read, after the last read; a failed read of
\* the configuration is the only other end.
Judged ==
    verdict \notin {"none", "failed"} => next = 6 /\ verdict = Diagnosis

LocationIInv == Shape /\ NotYetRead /\ HasRead /\ Judged

LEMMA DiagnosisValues == Diagnosis \in {"ok", "warn", "blocked"}
BY DEF Diagnosis

\* The report begins empty.
LEMMA ReportInit == LocationInit => LocationIInv
<1> SUFFICES ASSUME LocationInit PROVE LocationIInv
  OBVIOUS
<1>1. Shape
  <2> DEFINE none == [p \in Peers |-> "none"]
  <2>1. read = [config |-> config, gps |-> "none", known |-> FALSE, sessions |-> none,
                near |-> {}, routed |-> {}]
    BY DEF LocationInit
  <2> HIDE DEF none
  <2>2. read = [config |-> read.config, gps |-> read.gps, known |-> read.known,
                sessions |-> read.sessions, near |-> read.near, routed |-> read.routed]
    BY <2>1
  <2>3. read.known \in BOOLEAN /\ read.gps \in {"fix", "none", "failed"}
    BY <2>1
  <2>4. next \in 1..6
    BY DEF LocationInit
  <2>5. stale \in BOOLEAN
    BY DEF LocationInit
  <2> QED
    BY <2>2, <2>3, <2>4, <2>5 DEF Shape
<1>2. NotYetRead /\ HasRead /\ Judged
  BY DEF LocationInit, NotYetRead, HasRead, Judged
<1> QED
  BY <1>1, <1>2 DEF LocationIInv

\* The commands touch the configuration only, and are noted once the doctor has
\* begun.
LEMMA ChangeInv == LocationIInv /\ Change => LocationIInv'
<1> SUFFICES ASSUME LocationIInv, Change PROVE LocationIInv'
  OBVIOUS
<1>1. /\ UNCHANGED <<around, doctor>>
      /\ \/ UNCHANGED <<config, stale>>
         \/ stale' = (stale \/ (next > 1 /\ config' # config))
  BY DEF Change, CheckConfig, CheckContact, CheckPeer, Checks, SetConfig, SetContact, RemoveContact,
         ShareOnce, Call
<1>2. Shape' /\ NotYetRead'
  BY <1>1 DEF LocationIInv, Shape, NotYetRead, doctor
<1>3. HasRead'
  BY <1>1 DEF LocationIInv, Shape, HasRead, doctor, around
<1>4. Judged'
  <2>1. Diagnosis' = Diagnosis
    BY <1>1 DEF doctor, Diagnosis, Targets, HasPosition, JudgeContact, JudgeChannel, Items, On
  <2> QED
    BY <1>1, <2>1 DEF LocationIInv, Judged, doctor
<1> QED
  BY <1>2, <1>3, <1>4 DEF LocationIInv

LEMMA DriftInv == LocationIInv /\ Drift => LocationIInv'
<1> SUFFICES ASSUME LocationIInv, Drift PROVE LocationIInv'
  OBVIOUS
<1>1. UNCHANGED <<config, doctor>> /\ stale' = (stale \/ next > 1)
  BY DEF Drift, setting
<1>2. Shape' /\ NotYetRead'
  BY <1>1 DEF LocationIInv, Shape, NotYetRead, doctor
<1>3. HasRead'
  <2>1. CASE next = 1
    BY <1>1, <2>1 DEF HasRead, doctor
  <2>2. CASE next # 1
    <3>1. next > 1
      BY <2>2 DEF LocationIInv, Shape
    <3>2. stale'
      BY <1>1, <3>1
    <3> QED
      BY <3>2 DEF HasRead
  <2> QED
    BY <2>1, <2>2
<1>4. Judged'
  <2>1. Diagnosis' = Diagnosis
    BY <1>1 DEF doctor, Diagnosis, Targets, HasPosition, JudgeContact, JudgeChannel, Items, On
  <2> QED
    BY <1>1, <2>1 DEF LocationIInv, Judged, doctor
<1> QED
  BY <1>2, <1>3, <1>4 DEF LocationIInv

\* A read fills in its own field; one that fails leaves the report, but for the
\* GPS, and ends the doctor if it was the configuration.
LEMMA GatherInv == LocationIInv /\ Gather => LocationIInv'
<1> SUFFICES ASSUME LocationIInv, Gather PROVE LocationIInv'
  OBVIOUS
<1>1. /\ next \in 1..5 /\ next' = next + 1 /\ verdict = "none"
      /\ UNCHANGED <<config, around, stale>>
  BY DEF LocationIInv, Shape, Gather, Reads, setting
<1>2. Reads[1] = "config" /\ Reads[2] = "gps" /\ Reads[3] = "sessions" /\ Reads[4] = "near"
      /\ Reads[5] = "routed"
  BY DEF Reads
<1>3. CASE next = 1
  <2>1. \/ read' = [read EXCEPT !.config = config] /\ verdict' = "none"
        \/ read' = read /\ verdict' = "failed"
    BY <1>1, <1>2, <1>3 DEF Gather
  <2> QED
    BY <1>1, <1>3, <2>1 DEF LocationIInv, Shape, NotYetRead, HasRead, Judged, around
<1>4. CASE next = 2
  <2>1. /\ \/ read' = [read EXCEPT !.gps = IF fix THEN "fix" ELSE "none"]
           \/ read' = [read EXCEPT !.gps = "failed"]
        /\ verdict' = "none"
    BY <1>1, <1>2, <1>4 DEF Gather
  <2> QED
    BY <1>1, <1>4, <2>1 DEF LocationIInv, Shape, NotYetRead, HasRead, Judged, around
<1>5. CASE next = 3
  <2>1. /\ \/ read' = [read EXCEPT !.sessions = session, !.known = TRUE]
           \/ read' = read
        /\ verdict' = "none"
    BY <1>1, <1>2, <1>5 DEF Gather
  <2>2. CASE read' = read
    BY <1>1, <1>5, <2>1, <2>2 DEF LocationIInv, Shape, NotYetRead, HasRead, Judged, around
  <2>3. CASE read' = [read EXCEPT !.sessions = session, !.known = TRUE]
    <3>1. read' = [config |-> read.config, gps |-> read.gps, known |-> TRUE,
                   sessions |-> session, near |-> read.near, routed |-> read.routed]
      BY <2>3 DEF LocationIInv, Shape
    <3>2. Shape' /\ NotYetRead'
      BY <1>1, <1>5, <3>1 DEF LocationIInv, Shape, NotYetRead
    <3>3. HasRead'
      BY <1>1, <1>5, <2>1, <3>1 DEF LocationIInv, HasRead, around
    <3> QED
      BY <2>1, <3>2, <3>3 DEF LocationIInv, Judged
  <2> QED
    BY <2>1, <2>2, <2>3
<1>6. CASE next = 4
  <2>1. /\ read' = [read EXCEPT !.near = near] \/ read' = read
        /\ verdict' = "none"
    BY <1>1, <1>2, <1>6 DEF Gather
  <2> QED
    BY <1>1, <1>6, <2>1 DEF LocationIInv, Shape, NotYetRead, HasRead, Judged, around
<1>7. CASE next = 5
  <2>1. /\ read' = [read EXCEPT !.routed = routed] \/ read' = read
        /\ verdict' = "none"
    BY <1>1, <1>2, <1>7 DEF Gather
  <2> QED
    BY <1>1, <1>7, <2>1 DEF LocationIInv, Shape, NotYetRead, HasRead, Judged, around
<1> QED
  BY <1>1, <1>3, <1>4, <1>5, <1>6, <1>7

\* The verdict is given once, of the report as it is.
LEMMA DiagnoseInv == LocationIInv /\ Diagnose => LocationIInv'
<1> SUFFICES ASSUME LocationIInv, Diagnose PROVE LocationIInv'
  OBVIOUS
<1>1. /\ next = 6 /\ verdict = "none" /\ verdict' = Diagnosis
      /\ UNCHANGED <<config, around, next, read, stale>>
  BY DEF LocationIInv, Shape, Diagnose, Reads, setting
<1>2. Shape' /\ NotYetRead'
  BY <1>1 DEF LocationIInv, Shape, NotYetRead
<1>3. HasRead'
  BY <1>1, DiagnosisValues DEF LocationIInv, HasRead, around
<1>4. Judged'
  <2>1. Diagnosis' = Diagnosis
    BY <1>1 DEF Diagnosis, Targets, HasPosition, JudgeContact, JudgeChannel, Items, On
  <2> QED
    BY <1>1, <2>1 DEF Judged
<1> QED
  BY <1>2, <1>3, <1>4 DEF LocationIInv

\* Every step of the doctor, of a command beside it and around the node keeps it.
LEMMA ReportStep == LocationIInv /\ [LocationNext]_locationVars => LocationIInv'
<1> SUFFICES ASSUME LocationIInv, [LocationNext]_locationVars PROVE LocationIInv'
  OBVIOUS
<1>1. CASE UNCHANGED locationVars
  <2>1. Diagnosis' = Diagnosis
    BY <1>1 DEF locationVars, doctor, Diagnosis, Targets, HasPosition, JudgeContact, JudgeChannel,
                Items, On
  <2> QED
    BY <1>1, <2>1 DEF LocationIInv, Shape, NotYetRead, HasRead, Judged, locationVars, setting,
                      around, doctor
<1> QED
  BY <1>1, ChangeInv, GatherInv, DiagnoseInv, DriftInv DEF LocationNext

\* What was read is so, read by read, in every reachable state: the
\* inductive invariant of the doctor.
THEOREM LocationInvariance == LocationSpec => []LocationIInv
BY ReportInit, ReportStep, PTL DEF LocationSpec

-----------------------------------------------------------------------------
(* The two promises of the verdict *)

\* A contact judged fine has a session with a send chain and a way to it.
LEMMA FineContact ==
    ASSUME NEW r, JudgeContact(r) = "ok"
    PROVE  /\ On(r) /\ read.known /\ r.to \in Peers /\ read.sessions[r.to] = "ready"
           /\ r.to \in read.near \cup read.routed
BY DEF JudgeContact

\* A contact is blocked only without such a session.
LEMMA BlockedContact ==
    ASSUME NEW r, JudgeContact(r) = "blocked"
    PROVE  read.known /\ (r.to \notin Peers \/ read.sessions[r.to] # "ready")
BY DEF JudgeContact

LEMMA ChannelVerdicts ==
    ASSUME NEW r
    PROVE  /\ JudgeChannel(r) # "blocked"
           /\ JudgeChannel(r) = "ok" => On(r) /\ read.near # {}
BY DEF JudgeChannel

LEMMA OkInv == LocationIInv => OkMeansShared
<1> SUFFICES ASSUME LocationIInv, verdict = "ok", ~stale PROVE Sharing /\ Reaches
  BY DEF OkMeansShared
<1>1. Diagnosis = "ok" /\ next = 6
  BY DEF LocationIInv, Judged
<1>2. /\ read.config = config /\ (read.gps = "fix" => fix)
      /\ read.known => read.sessions = session
      /\ read.near \subseteq near /\ read.routed \subseteq routed
  BY <1>1 DEF LocationIInv, HasRead
<1>3. /\ read.config.enabled = "yes" /\ HasPosition /\ read.known
      /\ \E t \in Targets : t[1] /\ t[2] # "blocked"
      /\ \A t \in Targets : t[2] = "ok"
  BY <1>1 DEF Diagnosis
<1>4. \A r \in Items(config.contacts) : Sends(r) /\ r.to \in near \cup routed
  <2> TAKE r \in Items(config.contacts)
  <2>1. <<On(r), JudgeContact(r)>> \in Targets
    BY <1>2 DEF Targets
  <2>2. JudgeContact(r) = "ok"
    BY <1>3, <2>1
  <2> QED
    BY <1>2, <2>2, FineContact DEF Sends
<1>5. \A r \in Items(config.channels) : On(r) /\ near # {}
  <2> TAKE r \in Items(config.channels)
  <2>1. <<On(r), JudgeChannel(r)>> \in Targets
    BY <1>2 DEF Targets
  <2>2. JudgeChannel(r) = "ok"
    BY <1>3, <2>1
  <2> QED
    BY <1>2, <2>2, ChannelVerdicts
<1>6. Items(config.contacts) # {} \/ Items(config.channels) # {}
  BY <1>2, <1>3 DEF Targets
<1>7. config.enabled = "yes" /\ (fix \/ config.manual)
  BY <1>2, <1>3 DEF HasPosition
<1> QED
  BY <1>4, <1>5, <1>6, <1>7 DEF Sharing, Reaches

LEMMA BlockedInv == LocationIInv => BlockedMeansSilent
<1> SUFFICES ASSUME LocationIInv, verdict = "blocked", ~stale, read.gps # "failed", Sharing
             PROVE  FALSE
  BY DEF BlockedMeansSilent
<1>1. Diagnosis = "blocked" /\ next = 6
  BY DEF LocationIInv, Judged
<1>2. /\ read.config = config /\ (read.gps = "fix" <=> fix)
      /\ read.known => read.sessions = session
  BY <1>1 DEF LocationIInv, HasRead
<1>3. read.config.enabled = "yes" /\ HasPosition
  BY <1>2 DEF Sharing, HasPosition
<1>4. \A t \in Targets : t[1] => t[2] = "blocked"
  BY <1>1, <1>3 DEF Diagnosis
<1>5. CASE \E r \in Items(config.contacts) : Sends(r)
  <2>1. PICK r \in Items(config.contacts) : Sends(r)
    BY <1>5
  <2>2. <<On(r), JudgeContact(r)>> \in Targets
    BY <1>2 DEF Targets
  <2>3. JudgeContact(r) = "blocked"
    BY <1>4, <2>1, <2>2 DEF Sends
  <2> QED
    BY <1>2, <2>1, <2>3, BlockedContact DEF Sends
<1>6. CASE \E r \in Items(config.channels) : On(r)
  <2>1. PICK r \in Items(config.channels) : On(r)
    BY <1>6
  <2>2. <<On(r), JudgeChannel(r)>> \in Targets
    BY <1>2 DEF Targets
  <2> QED
    BY <1>4, <2>1, <2>2, ChannelVerdicts
<1> QED
  BY <1>5, <1>6 DEF Sharing

\* An all-clear of the doctor that nothing overtook: the node shares, every
\* contact has its session and a way to it, and channels are heard.
THEOREM OkCorrect == LocationSpec => []OkMeansShared
BY LocationInvariance, OkInv, PTL

\* A node that the doctor calls blocked sends its location to nobody.
THEOREM BlockedCorrect == LocationSpec => []BlockedMeansSilent
BY LocationInvariance, BlockedInv, PTL
=============================================================================
