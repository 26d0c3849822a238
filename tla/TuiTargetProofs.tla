--------------------------- MODULE TuiTargetProofs ---------------------------
(***************************************************************************)
(* For any processes, aliases, devices, tokens and command lines.          *)
(* First the address book by itself: a copy of the book agrees with the    *)
(* last complete file in every alias its holder did not touch.  Then the   *)
(* TUI beside the processes that change the book under it: a token reaches *)
(* the book only with the host that accepted it.                           *)
(***************************************************************************)
EXTENDS TuiTarget, TLAPS

Saving(s) == s.at \in {"open", "write"}

\* A process inside Save knows which alias it means, and why it saves.
Knows(s) ==
    /\ s.at \in {"confirm", "open", "write"} => s.meant \in Aliases
    /\ Saving(s) => s.task \in {"command", "pickAdd", "pickRm"}

\* The aliases in which a copy may differ from the file.
Touched(s) == s.lost \cup (IF Saving(s) THEN {s.meant} ELSE {})

\* Elsewhere it does not, while no other process touches the file.
Agrees(s, book) ==
    s.at # "off" /\ ~s.foreign => \A a \in Aliases \ Touched(s) : s.mem[a] = book[a]

\* An alias being added is not in the file, so taking it back restores it.
AddIsNew(s, book) ==
    Saving(s) /\ s.task = "pickAdd" /\ ~s.foreign /\ s.meant \notin s.lost
    => book[s.meant] = None

\* A write that nobody interfered with finds the file empty.
WritesAlone(s, contents) == s.at = "write" /\ ~s.foreign => contents = Empty

Holds(s, contents, book) ==
    Knows(s) /\ Agrees(s, book) /\ AddIsNew(s, book) /\ WritesAlone(s, contents)

\* What can be read is the last complete book.
ReadsGood == file \notin Broken => file = good

BookIInv ==
    BookTypeOK /\ ReadsGood /\ \A p \in Procs : Holds(proc[p], file, good)

LEMMA IdleType == Idle \in Proc
  BY DEF Idle, Proc, Blank, Books

LEMMA IdleHolds == ASSUME NEW f, NEW g PROVE Holds(Idle, f, g)
  BY DEF Idle, Holds, Knows, Agrees, AddIsNew, WritesAlone, Saving

LEMMA BookInitInv == BookInit => BookIInv
<1> SUFFICES ASSUME BookInit PROVE BookIInv OBVIOUS
<1>1. Blank \in Books BY DEF Blank, Books
<1>2. BookTypeOK BY <1>1, IdleType DEF BookInit, BookTypeOK
<1>3. \A p \in Procs : Holds(proc[p], file, good) BY IdleHolds DEF BookInit
<1> QED BY <1>2, <1>3 DEF BookInit, BookIInv, ReadsGood

\* A step of p that leaves the file alone: only its own state matters.
LEMMA Private ==
    ASSUME BookIInv, NEW p \in Procs, NEW s \in Proc, Become(p, s),
           UNCHANGED <<file, good>>, Holds(s, file, good)
    PROVE  BookIInv'
<1>1. BookTypeOK' BY DEF Become, BookIInv, BookTypeOK
<1>2. ReadsGood' BY DEF BookIInv, ReadsGood
<1>3. \A q \in Procs : Holds(proc'[q], file', good')
  BY DEF Become, BookIInv, BookTypeOK
<1> QED BY <1>1, <1>2, <1>3 DEF BookIInv

\* A step of p that touches the file: every other copy counts as stale.
LEMMA Touching ==
    ASSUME BookIInv, NEW p \in Procs, NEW s \in Proc, BecomeTouching(p, s),
           file' \in Books \cup Broken, good' \in Books,
           file' \notin Broken => file' = good', Holds(s, file', good')
    PROVE  BookIInv'
<1>1. \A q \in Procs : proc[q] \in Proc BY DEF BookIInv, BookTypeOK
<1>2. \A q \in Procs : [proc[q] EXCEPT !.foreign = proc[q].at # "off"] \in Proc
  BY <1>1 DEF Proc
<1>3. BookTypeOK' BY <1>2 DEF BecomeTouching, BookTypeOK
<1>4. ReadsGood' BY DEF ReadsGood
<1>5. ASSUME NEW q \in Procs, q # p PROVE Holds(proc'[q], file', good')
  <2>1. proc'[q] = [proc[q] EXCEPT !.foreign = proc[q].at # "off"]
    BY <1>5 DEF BecomeTouching
  <2>2. Holds(proc[q], file, good) BY DEF BookIInv
  <2>3. proc[q] \in Proc BY <1>1
  <2> QED BY <2>1, <2>2, <2>3
    DEF Holds, Knows, Agrees, AddIsNew, WritesAlone, Saving, Touched, Proc
<1>6. proc'[p] = s BY DEF BecomeTouching
<1>7. \A q \in Procs : Holds(proc'[q], file', good') BY <1>5, <1>6
<1> QED BY <1>3, <1>4, <1>7 DEF BookIInv

LEMMA LoadSaves ==
    ASSUME BookIInv, NEW p \in Procs, NEW a \in Aliases, NEW e \in Entries \cup {None},
           StartSave(p, a, e)
    PROVE  BookIInv'
<1> DEFINE s == [Idle EXCEPT !.at = "open", !.task = "command", !.meant = a,
                             !.mem = [file EXCEPT ![a] = e]]
<1>1. file = good /\ file \in Books
  BY DEF BookIInv, ReadsGood, StartSave, BookTypeOK
<1>2. [file EXCEPT ![a] = e] \in Books BY <1>1 DEF Books
<1>3. s \in Proc BY <1>2, IdleType DEF Idle, Proc
<1>4. \A b \in Aliases \ {a} : s.mem[b] = good[b] BY <1>1 DEF Books, Idle
<1>5. s.at = "open" /\ s.task = "command" /\ s.meant = a BY DEF Idle
<1>6. Holds(s, file, good)
  BY <1>4, <1>5 DEF Holds, Knows, Agrees, AddIsNew, WritesAlone, Saving, Touched
<1> HIDE DEF s
<1>7. Become(p, s) /\ UNCHANGED <<file, good>> BY DEF StartSave, s
<1> QED BY <1>3, <1>6, <1>7, Private

LEMMA OpensPicker ==
    ASSUME BookIInv, NEW p \in Procs, PickerOpen(p)
    PROVE  BookIInv'
<1> DEFINE s == [Idle EXCEPT !.at = "list", !.mem = file]
<1>1. file = good /\ file \in Books
  BY DEF BookIInv, ReadsGood, PickerOpen, BookTypeOK
<1>2. s \in Proc BY <1>1, IdleType DEF Idle, Proc
<1>3. s.at = "list" /\ s.mem = good BY <1>1 DEF Idle
<1>4. Holds(s, file, good)
  BY <1>3 DEF Holds, Knows, Agrees, AddIsNew, WritesAlone, Saving, Touched
<1> HIDE DEF s
<1>5. Become(p, s) /\ UNCHANGED <<file, good>> BY DEF PickerOpen, s
<1> QED BY <1>2, <1>4, <1>5, Private

LEMMA Closes ==
    ASSUME BookIInv, NEW p \in Procs, Become(p, Idle), UNCHANGED <<file, good>>
    PROVE  BookIInv'
  BY IdleType, IdleHolds, Private

\* The keys of the picker that do not touch the file.
LEMMA Edits ==
    ASSUME BookIInv, NEW p \in Procs, PickerStep(p)
    PROVE  BookIInv'
<1> USE DEF Holds, Knows, Agrees, AddIsNew, WritesAlone, Saving, Touched
<1>0. proc[p] \in Proc /\ Holds(proc[p], file, good) BY DEF BookIInv, BookTypeOK
<1>1. CASE PickerCancel(p)
  <2> DEFINE s == [proc[p] EXCEPT !.at = "list", !.meant = None]
  <2>1. s \in Proc BY <1>0 DEF Proc
  <2>2. Holds(s, file, good) BY <1>0, <1>1 DEF PickerCancel, Proc
  <2> HIDE DEF s
  <2>3. Become(p, s) /\ UNCHANGED <<file, good>> BY <1>1 DEF PickerCancel, s
  <2> QED BY <2>1, <2>2, <2>3, Private
<1>2. CASE PickerConfirm(p)
  <2> DEFINE book == [proc[p].mem EXCEPT ![proc[p].meant] = None]
             s == [proc[p] EXCEPT !.at = "open", !.task = "pickRm", !.mem = book]
  <2>1. book \in Books BY <1>0 DEF Proc, Books
  <2>2. s \in Proc BY <1>0, <2>1 DEF Proc
  <2>3. \A a \in Aliases : a # proc[p].meant => book[a] = proc[p].mem[a]
    BY <1>0 DEF Proc, Books
  <2> HIDE DEF book
  <2>4. Holds(s, file, good) BY <1>0, <1>2, <2>3 DEF PickerConfirm, Proc
  <2> HIDE DEF s
  <2>5. Become(p, s) /\ UNCHANGED <<file, good>> BY <1>2 DEF PickerConfirm, s, book
  <2> QED BY <2>2, <2>4, <2>5, Private
<1>3. ASSUME NEW a \in Aliases, PickerDelete(p, a) PROVE BookIInv'
  <2> DEFINE s == [proc[p] EXCEPT !.at = "confirm", !.meant = a]
  <2>1. s \in Proc BY <1>0 DEF Proc
  <2>2. Holds(s, file, good) BY <1>0, <1>3 DEF PickerDelete, Proc
  <2> HIDE DEF s
  <2>3. Become(p, s) /\ UNCHANGED <<file, good>> BY <1>3 DEF PickerDelete, s
  <2> QED BY <2>1, <2>2, <2>3, Private
<1>4. ASSUME NEW a \in Aliases, PickerAdd(p, a) PROVE BookIInv'
  <2>0. PICK e \in Typed :
          Become(p, [proc[p] EXCEPT !.at = "open", !.task = "pickAdd", !.meant = a,
                                    !.mem = [@ EXCEPT ![a] = e]])
    BY <1>4 DEF PickerAdd
  <2> DEFINE book == [proc[p].mem EXCEPT ![a] = e]
             s == [proc[p] EXCEPT !.at = "open", !.task = "pickAdd", !.meant = a,
                                  !.mem = book]
  <2>1. book \in Books BY <1>0, BookAssumption DEF Proc, Books
  <2>2. s \in Proc BY <1>0, <2>1 DEF Proc
  <2>3. \A b \in Aliases : b # a => book[b] = proc[p].mem[b]
    BY <1>0 DEF Proc, Books
  <2> HIDE DEF book
  <2>4. Holds(s, file, good) BY <1>0, <1>4, <2>3 DEF PickerAdd, Proc
  <2> HIDE DEF s
  <2>5. Become(p, s) /\ UNCHANGED <<file, good>> BY <1>4, <2>0 DEF PickerAdd, s, book
  <2> QED BY <2>2, <2>4, <2>5, Private
<1> QED BY <1>1, <1>2, <1>3, <1>4 DEF PickerStep

\* Save, in its two system calls and their failures.
LEMMA Saves ==
    ASSUME BookIInv, NEW p \in Procs, SaveStep(p)
    PROVE  BookIInv'
<1>0. proc[p] \in Proc /\ Holds(proc[p], file, good) BY DEF BookIInv, BookTypeOK
<1>f. file \in Books \cup Broken /\ good \in Books BY DEF BookIInv, BookTypeOK
<1>1. CASE SaveOpens(p)
  <2> DEFINE s == [proc[p] EXCEPT !.at = "write"]
  <2>1. s \in Proc BY <1>0 DEF Proc
  <2>2. Holds(s, Empty, good)
    BY <1>0, <1>1 DEF SaveOpens, Proc, Holds, Knows, Agrees, AddIsNew, WritesAlone,
       Saving, Touched
  <2> HIDE DEF s
  <2>3. BecomeTouching(p, s) /\ file' = Empty /\ good' = good BY <1>1 DEF SaveOpens, s
  <2>4. Empty \in Broken BY DEF Broken
  <2> QED BY <1>f, <2>1, <2>2, <2>3, <2>4, Touching
<1>2. ASSUME proc[p].at = "write", file' = proc[p].mem, good' = proc[p].mem,
             BecomeTouching(p, Back(p, proc[p].mem, {}, FALSE))
      PROVE  BookIInv'
  <2> DEFINE s == Back(p, proc[p].mem, {}, FALSE)
  <2>1. proc[p].mem \in Books BY <1>0 DEF Proc
  <2>2. s \in Proc BY <2>1, IdleType DEF Back, Idle, Proc
  <2>3. s = Idle \/ (s.at = "list" /\ s.mem = proc[p].mem) BY DEF Back
  <2>4. Holds(s, proc[p].mem, proc[p].mem)
    BY <2>3, IdleHolds DEF Holds, Knows, Agrees, AddIsNew, WritesAlone, Saving, Touched
  <2> HIDE DEF s
  <2>5. BecomeTouching(p, s) BY <1>2 DEF s
  <2> QED BY <1>2, <2>1, <2>2, <2>4, <2>5, Touching
<1>3. ASSUME proc[p].at = "write", file # Empty, file' = Torn, good' = good,
             BecomeTouching(p, Back(p, proc[p].mem, proc[p].lost, proc[p].foreign))
      PROVE  BookIInv'
  <2> DEFINE s == Back(p, proc[p].mem, proc[p].lost, proc[p].foreign)
  <2>1. s \in Proc BY <1>0, IdleType DEF Back, Idle, Proc
  <2>2. proc[p].foreign BY <1>0, <1>3 DEF Holds, WritesAlone, Proc
  <2>3. s = Idle \/ (s.at = "list" /\ s.foreign = proc[p].foreign) BY DEF Back
  <2>4. Holds(s, Torn, good)
    BY <2>2, <2>3, IdleHolds
       DEF Holds, Knows, Agrees, AddIsNew, WritesAlone, Saving, Touched
  <2> HIDE DEF s
  <2>5. BecomeTouching(p, s) BY <1>3 DEF s
  <2>6. Torn \in Broken BY DEF Broken
  <2> QED BY <1>f, <1>3, <2>1, <2>4, <2>5, <2>6, Touching
<1>4. CASE SaveFails(p)
  <2> DEFINE s == Back(p, Kept(p), Unsaved(p), proc[p].foreign)
  <2>1. Saving(proc[p]) BY <1>4 DEF SaveFails, Saving
  <2>2. proc[p].meant \in Aliases /\ proc[p].task \in {"command", "pickAdd", "pickRm"}
    BY <1>0, <2>1 DEF Holds, Knows, Saving
  <2>3. Kept(p) \in Books BY <1>0 DEF Kept, Proc, Books
  <2>4. Unsaved(p) \in SUBSET Aliases BY <1>0, <2>2 DEF Unsaved, Proc
  <2>5. s \in Proc BY <1>0, <2>3, <2>4, IdleType DEF Back, Idle, Proc
  <2>6. ASSUME proc[p].task # "command", ~proc[p].foreign, NEW a \in Aliases \ Unsaved(p)
        PROVE  Kept(p)[a] = good[a]
    <3>1. a # proc[p].meant => proc[p].mem[a] = good[a]
      BY <1>0, <2>1, <2>6 DEF Holds, Agrees, Touched, Saving, Unsaved
    <3>2. CASE proc[p].task = "pickAdd"
      <4>1. a \notin proc[p].lost BY <2>6, <3>2 DEF Unsaved
      <4>2. a = proc[p].meant => good[a] = None
        BY <1>0, <2>1, <2>6, <3>2, <4>1 DEF Holds, AddIsNew
      <4> QED BY <1>0, <3>1, <3>2, <4>2 DEF Kept, Proc, Books
    <3>3. CASE proc[p].task = "pickRm"
      BY <2>6, <3>1, <3>3 DEF Kept, Unsaved
    <3> QED BY <2>2, <2>6, <3>2, <3>3
  <2>7. s = Idle \/ /\ proc[p].task # "command" /\ s.at = "list" /\ s.mem = Kept(p)
                    /\ s.lost = Unsaved(p) /\ s.foreign = proc[p].foreign
    BY DEF Back
  <2>8. ASSUME NEW f PROVE Holds(s, f, good)
    BY <2>6, <2>7, IdleHolds
       DEF Holds, Knows, Agrees, AddIsNew, WritesAlone, Saving, Touched
  <2> HIDE DEF s
  <2>9. CASE UNCHANGED <<file, good>> /\ Become(p, s)
    BY <2>5, <2>8, <2>9, Private
  <2>10. CASE file' \in {file, Torn} /\ UNCHANGED good /\ BecomeTouching(p, s)
    <3>1. file' \notin Broken => file' = good'
      BY <2>10 DEF BookIInv, ReadsGood, Broken
    <3>2. file' \in Books \cup Broken BY <1>f, <2>10 DEF Broken
    <3> QED BY <1>f, <2>5, <2>8, <2>10, <3>1, <3>2, Touching
  <2>11. CASE /\ file' = proc[p].mem /\ good' = proc[p].mem
              /\ BecomeTouching(p, Back(p, Kept(p), TakenBack(p), FALSE))
    <3> DEFINE r == Back(p, Kept(p), TakenBack(p), FALSE)
    <3>1. proc[p].mem \in Books BY <1>0 DEF Proc
    <3>2. TakenBack(p) \in SUBSET Aliases BY <2>2 DEF TakenBack
    <3>3. r \in Proc BY <2>3, <3>2, IdleType DEF Back, Idle, Proc
    <3>4. r = Idle \/ (r.at = "list" /\ r.mem = Kept(p) /\ r.lost = TakenBack(p))
      BY DEF Back
    <3>5. \A a \in Aliases \ TakenBack(p) : Kept(p)[a] = proc[p].mem[a]
      BY <3>1 DEF Kept, TakenBack, Books
    <3>6. Holds(r, proc[p].mem, proc[p].mem)
      BY <3>4, <3>5, IdleHolds
         DEF Holds, Knows, Agrees, AddIsNew, WritesAlone, Saving, Touched
    <3> HIDE DEF r
    <3>7. BecomeTouching(p, r) BY <2>11 DEF r
    <3> QED BY <2>11, <3>1, <3>3, <3>6, <3>7, Touching
  <2> QED BY <1>4, <2>9, <2>10, <2>11 DEF SaveFails, s
<1> QED BY <1>1, <1>2, <1>3, <1>4 DEF SaveStep, SaveWrites

LEMMA Dies ==
    ASSUME BookIInv, NEW p \in Procs, Die(p)
    PROVE  BookIInv'
<1>1. CASE UNCHANGED file /\ Become(p, Idle) BY <1>1, Closes DEF Die
<1>2. CASE file' \in {file, Torn} /\ BecomeTouching(p, Idle)
  <2>1. file \in Books \cup Broken /\ good \in Books BY DEF BookIInv, BookTypeOK
  <2>2. file' \notin Broken => file' = good'
    BY <1>2 DEF BookIInv, ReadsGood, Die, Broken
  <2>3. file' \in Books \cup Broken /\ good' \in Books BY <1>2, <2>1 DEF Broken, Die
  <2> QED BY <1>2, <2>2, <2>3, IdleType, IdleHolds, Touching
<1> QED BY <1>1, <1>2 DEF Die

\* One step of one process.
LEMMA ProcStepInv ==
    ASSUME BookIInv, NEW p \in Procs, ProcStep(p)
    PROVE  BookIInv'
<1>1. ASSUME NEW a \in Aliases, CmdAdd(p, a) PROVE BookIInv'
  BY <1>1, LoadSaves, BookAssumption DEF CmdAdd
<1>2. ASSUME NEW a \in Aliases, CmdRm(p, a) PROVE BookIInv'
  BY <1>2, LoadSaves DEF CmdRm
<1>3. CASE PickerClose(p)
  BY <1>3, Closes DEF PickerClose
<1> QED
  BY <1>1, <1>2, <1>3, OpensPicker, Edits, Saves, Dies DEF ProcStep, CommandStep

LEMMA BookStutters == BookIInv /\ UNCHANGED bookVars => BookIInv'
  BY DEF bookVars, BookIInv, BookTypeOK, ReadsGood

\* No save but an interfered one changes an alias the user did not mean, also if
\* it reports an error.
LEMMA NextOnlyMeant ==
    ASSUME BookIInv, NEW p \in Procs, SaveStep(p), good' # good, ~proc[p].foreign,
           NEW a \in Aliases \ (proc[p].lost \cup {proc[p].meant})
    PROVE  good'[a] = good[a]
<1>1. Holds(proc[p], file, good) BY DEF BookIInv
<1>2. good' = proc[p].mem /\ proc[p].at = "write"
  BY DEF SaveStep, SaveOpens, SaveWrites, SaveFails
<1> QED BY <1>1, <1>2 DEF Holds, Agrees, Saving, Touched

\* The inductive invariant of the address book.
THEOREM BookInvariance == BookSpec => []BookIInv
<1>1. BookIInv /\ [BookNext]_bookVars => BookIInv'
  BY ProcStepInv, BookStutters DEF BookNext
<1> QED BY <1>1, BookInitInv, PTL DEF BookSpec

-----------------------------------------------------------------------------
(* The book under the TUI. *)

\* The steps of the TUI keep it too, whatever it resolves, prompts for and saves.
LEMMA NextBook ==
    ASSUME BookIInv, TypeOK, [Next]_vars
    PROVE  BookIInv'
<1>1. ASSUME NEW p \in Procs, Other(p) \/ Save(p) PROVE BookIInv'
  BY <1>1, ProcStepInv DEF Other, Save, ProcStep
<1>2. CASE OpenPicker \/ Edit \/ Quit \/ Killed
  BY <1>2, ProcStepInv, TargetAssumption DEF OpenPicker, Edit, Quit, Killed, ProcStep
<1>3. ASSUME NEW a \in Aliases, Choose(a) PROVE BookIInv'
  BY <1>3, ProcStepInv, TargetAssumption DEF Choose, ProcStep
<1>4. ASSUME NEW a \in Aliases, OfferSave(a) PROVE BookIInv'
  <2> DEFINE e == [host |-> SaveHost, token |-> flags.token]
  <2>1. SaveHost \in Hosts
    BY <1>4, TargetAssumption DEF OfferSave, SaveHost, TypeOK, Flags
  <2>2. e \in Entries BY <2>1, TargetAssumption DEF TypeOK, Flags
  <2> HIDE DEF e
  <2>3. StartSave(Tui, a, e) BY <1>4 DEF OfferSave, e
  <2> QED BY <2>2, <2>3, LoadSaves, TargetAssumption
<1>5. CASE UNCHANGED bookVars
  BY <1>5, BookStutters
<1>6. CASE \/ NoPicker \/ Unreadable \/ Dial \/ DialFails \/ Verify \/ Rejected
           \/ PromptEmpty \/ Reverify \/ ReverifyFails \/ Decline \/ Saved \/ Reconnect
           \/ \E k \in Tokens : Prompt(k)
  BY <1>5, <1>6 DEF NoPicker, Unreadable, Dial, DialFails, Verify, Rejected, PromptEmpty,
     Reverify, ReverifyFails, Decline, Saved, Reconnect, Prompt
<1> QED
  BY <1>1, <1>2, <1>3, <1>4, <1>5, <1>6 DEF Next, TuiStep, vars

-----------------------------------------------------------------------------
(* The session. *)

TargetTypeOK ==
    /\ flags \in Flags
    /\ stage \in Stages
    /\ resolved \in Entries \cup {None}
    /\ target \in Targets \cup {None}
    /\ first \in Targets \cup {None}
    /\ verified \in BOOLEAN

\* The picker is for command lines without a target; an entry is resolved for
\* an alias only.
Named ==
    /\ stage = "pick" => ~Explicit
    /\ resolved # None => flags.device # None

\* What the client is connected to until the UI starts, and on which target
\* and with which token it starts.
Dialed ==
    /\ stage \in {"verify", "reverify", "offer", "save"} => target = DialTarget(resolved)
    /\ stage = "run" => first = DialTarget(resolved) /\ target \in {first, RedialTarget}

Prompted ==
    stage \in {"redial", "reverify", "offer", "save"} => flags.token # None

Accepted ==
    /\ stage \in {"offer", "save"} => Accepts(target, Token)
    /\ stage = "run" /\ verified => Accepts(first, Token)

SessionIInv == TargetTypeOK /\ Named /\ Dialed /\ Prompted /\ Accepted

LEMMA InitSession == Init => SessionIInv
  BY TargetAssumption
     DEF Init, SessionIInv, TargetTypeOK, Named, Dialed, Prompted, Accepted, Stages

\* The targets of a resolution are devices.
LEMMA TargetsAreDevices ==
    ASSUME TargetTypeOK
    PROVE  \A e \in Entries \cup {None} : DialTarget(e) \in Targets /\ Selected(e, Mdns) \in Targets
  BY TargetAssumption DEF TargetTypeOK, Flags, DialTarget, Selected, Targets

LEMMA NextSession ==
    ASSUME SessionIInv, BookTypeOK, [Next]_vars
    PROVE  SessionIInv'
<1> USE DEF SessionIInv
<1>1. CASE UNCHANGED targetVars
  BY <1>1 DEF targetVars, TargetTypeOK, Named, Explicit, Dialed, DialTarget, RedialTarget,
     Selected, Prompted, Accepted, Accepts, Token
<1>2. CASE NoPicker \/ OpenPicker
  BY <1>2 DEF NoPicker, OpenPicker, Goto, Explicit, TargetTypeOK, Stages, Named, Dialed,
     Prompted, Accepted
<1>3. CASE Unreadable \/ Quit \/ Killed \/ DialFails \/ PromptEmpty \/ ReverifyFails
  BY <1>3 DEF Unreadable, Quit, Killed, DialFails, PromptEmpty, ReverifyFails, Exit, Goto,
     TargetTypeOK, Stages, Named, Dialed, Prompted, Accepted
<1>4. ASSUME NEW a \in Aliases, Choose(a) PROVE SessionIInv'
  BY <1>4, BookAssumption DEF Choose, Goto, TargetTypeOK, Flags, Stages, Named, Dialed,
     Prompted, Accepted
<1>5. CASE Dial
  <2>1. resolved' \in Entries \cup {None} /\ (resolved' # None => flags.device # None)
    BY <1>5 DEF Dial, BookTypeOK, Books, TargetTypeOK, Flags
  <2>2. target' = DialTarget(resolved)' BY <1>5 DEF Dial, DialTarget, Selected
  <2>3. target' \in Targets BY <1>5, <2>1, TargetsAreDevices DEF Dial
  <2> QED
    BY <1>5, <2>1, <2>2, <2>3 DEF Dial, Goto, TargetTypeOK, Stages, Named, Dialed,
       Prompted, Accepted
<1>6. CASE Verify \/ Decline \/ Saved
  <2>1. UNCHANGED <<flags, resolved, target>> /\ first' = target /\ stage' = "run"
        /\ stage \in {"verify", "offer", "save"}
    BY <1>6 DEF Verify, Decline, Saved, Goto
  <2>2. verified' \in BOOLEAN /\ (verified' => Accepts(target, Token))
    BY <1>6 DEF Verify, Decline, Saved, Accepted, TargetTypeOK
  <2> QED
    BY <2>1, <2>2 DEF TargetTypeOK, Stages, Named, Dialed, DialTarget, RedialTarget,
       Selected, Prompted, Accepted, Accepts, Token
<1>7. CASE Rejected
  BY <1>7 DEF Rejected, Goto, TargetTypeOK, Stages, Named, Dialed, DialTarget, Selected,
     Prompted, Accepted
<1>8. ASSUME NEW k \in Tokens, Prompt(k) PROVE SessionIInv'
  BY <1>8, TargetAssumption DEF Prompt, Goto, TargetTypeOK, Flags, Stages, Named, Dialed,
     Prompted, Accepted
<1>9. CASE Reverify
  BY <1>9 DEF Reverify, Goto, TargetTypeOK, Stages, Named, Dialed, DialTarget, Selected,
     Prompted, Accepted, Accepts, Token
<1>10. ASSUME NEW a \in Aliases, OfferSave(a) PROVE SessionIInv'
  BY <1>10 DEF OfferSave, Goto, TargetTypeOK, Stages, Named, Dialed, DialTarget, Selected,
     Prompted, Accepted, Accepts, Token
<1>11. CASE Reconnect
  <2>1. RedialTarget \in Targets BY TargetsAreDevices DEF RedialTarget, TargetTypeOK
  <2> QED
    BY <1>11, <2>1 DEF Reconnect, TargetTypeOK, Stages, Named, Dialed, DialTarget,
       RedialTarget, Selected, Prompted, Accepted, Accepts, Token
<1>12. CASE Edit \/ \E p \in Procs : Other(p) \/ Save(p)
  BY <1>1, <1>12 DEF Edit, Other, Save
<1>13. CASE UNCHANGED vars BY <1>1, <1>13 DEF vars
<1> QED
  BY <1>2, <1>3, <1>4, <1>5, <1>6, <1>7, <1>8, <1>9, <1>10, <1>11, <1>12, <1>13
     DEF Next, TuiStep

-----------------------------------------------------------------------------
(* Tokens. *)

Belongs(e) == e \in Typed \cup {None} \/ Accepts(e.host, e.token)

AllBelong(book) == \A a \in Aliases : Belongs(book[a])

\* The books in memory are as good as the one in the file.
Backed == OneTarget => AllBelong(good) /\ \A p \in Procs : AllBelong(proc[p].mem)

LEMMA BlankBelongs == AllBelong(Blank) /\ AllBelong(Idle.mem)
  BY DEF AllBelong, Blank, Belongs, Idle

\* A step that keeps the file's book, and gives each process a sound copy.
LEMMA CopiesBacked ==
    ASSUME Backed, OneTarget, good' = good, NEW p \in Procs, NEW s,
           Become(p, s) \/ BecomeTouching(p, s), AllBelong(s.mem), BookTypeOK
    PROVE  AllBelong(good') /\ \A q \in Procs : AllBelong(proc'[q].mem)
<1>1. ASSUME NEW q \in Procs, q # p PROVE proc'[q].mem = proc[q].mem
  BY <1>1 DEF Become, BecomeTouching, BookTypeOK, Proc
<1>2. proc'[p] = s BY DEF Become, BecomeTouching, BookTypeOK
<1>3. \A q \in Procs : AllBelong(proc[q].mem) BY DEF Backed
<1>4. \A q \in Procs : AllBelong(proc'[q].mem) BY <1>1, <1>2, <1>3
<1> QED BY <1>4 DEF Backed

\* What Load and one change make of the book in the file.
LEMMA LoadBacked ==
    ASSUME Backed, OneTarget, BookIInv, NEW p \in Procs, NEW a \in Aliases, NEW e,
           StartSave(p, a, e), Belongs(e)
    PROVE  AllBelong(good') /\ \A q \in Procs : AllBelong(proc'[q].mem)
<1> DEFINE s == [Idle EXCEPT !.at = "open", !.task = "command", !.meant = a,
                             !.mem = [file EXCEPT ![a] = e]]
<1>1. file = good /\ file \in Books
  BY DEF BookIInv, ReadsGood, StartSave, BookTypeOK
<1>2. s.mem = [file EXCEPT ![a] = e] BY DEF Idle
<1>3. AllBelong(s.mem) BY <1>1, <1>2 DEF AllBelong, Books, Backed
<1> HIDE DEF s
<1>4. Become(p, s) /\ good' = good BY DEF StartSave, s
<1> QED BY <1>3, <1>4, CopiesBacked DEF BookIInv

\* One step of any process on the book, other than OfferSave's.
LEMMA ProcBacked ==
    ASSUME Backed, OneTarget, BookIInv, NEW p \in Procs, ProcStep(p)
    PROVE  AllBelong(good') /\ \A q \in Procs : AllBelong(proc'[q].mem)
<1>0. proc[p] \in Proc /\ BookTypeOK /\ AllBelong(good) /\ AllBelong(proc[p].mem)
  BY DEF BookIInv, BookTypeOK, Backed
<1>1. ASSUME NEW a \in Aliases, CmdAdd(p, a) \/ CmdRm(p, a)
      PROVE  AllBelong(good') /\ \A q \in Procs : AllBelong(proc'[q].mem)
  <2>1. \A e \in Typed \cup {None} : Belongs(e) BY DEF Belongs
  <2> QED BY <1>1, <2>1, LoadBacked DEF CmdAdd, CmdRm
<1>2. CASE PickerOpen(p)
  <2>1. AllBelong([Idle EXCEPT !.at = "list", !.mem = file].mem)
    BY <1>0, <1>2 DEF PickerOpen, BookIInv, ReadsGood, Idle
  <2> QED BY <1>0, <1>2, <2>1, CopiesBacked DEF PickerOpen
<1>3. CASE PickerCancel(p)
  <2>1. [proc[p] EXCEPT !.at = "list", !.meant = None].mem = proc[p].mem BY <1>0 DEF Proc
  <2> QED BY <1>0, <1>3, <2>1, CopiesBacked DEF PickerCancel
<1>4. CASE PickerConfirm(p)
  <2> DEFINE book == [proc[p].mem EXCEPT ![proc[p].meant] = None]
             s == [proc[p] EXCEPT !.at = "open", !.task = "pickRm", !.mem = book]
  <2>1. s.mem = book BY <1>0 DEF Proc
  <2>2. AllBelong(s.mem) BY <1>0, <2>1 DEF Proc, Books, AllBelong, Belongs
  <2> HIDE DEF s
  <2>3. Become(p, s) /\ good' = good BY <1>4 DEF PickerConfirm, s
  <2> QED BY <1>0, <2>2, <2>3, CopiesBacked
<1>5. ASSUME NEW a \in Aliases, PickerDelete(p, a)
      PROVE  AllBelong(good') /\ \A q \in Procs : AllBelong(proc'[q].mem)
  <2>1. [proc[p] EXCEPT !.at = "confirm", !.meant = a].mem = proc[p].mem
    BY <1>0 DEF Proc
  <2> QED BY <1>0, <1>5, <2>1, CopiesBacked DEF PickerDelete
<1>6. ASSUME NEW a \in Aliases, PickerAdd(p, a)
      PROVE  AllBelong(good') /\ \A q \in Procs : AllBelong(proc'[q].mem)
  <2>0. PICK e \in Typed :
          Become(p, [proc[p] EXCEPT !.at = "open", !.task = "pickAdd", !.meant = a,
                                    !.mem = [@ EXCEPT ![a] = e]])
    BY <1>6 DEF PickerAdd
  <2> DEFINE book == [proc[p].mem EXCEPT ![a] = e]
             s == [proc[p] EXCEPT !.at = "open", !.task = "pickAdd", !.meant = a,
                                  !.mem = book]
  <2>1. s.mem = book BY <1>0 DEF Proc
  <2>2. AllBelong(s.mem) BY <1>0, <2>1 DEF Proc, Books, AllBelong, Belongs
  <2> HIDE DEF s
  <2>3. Become(p, s) /\ good' = good BY <1>6, <2>0 DEF PickerAdd, s
  <2> QED BY <1>0, <2>2, <2>3, CopiesBacked
<1>7. CASE PickerClose(p)
  BY <1>0, <1>7, BlankBelongs, CopiesBacked DEF PickerClose
<1>8. CASE SaveOpens(p)
  <2>1. [proc[p] EXCEPT !.at = "write"].mem = proc[p].mem BY <1>0 DEF Proc
  <2> QED BY <1>0, <1>8, <2>1, CopiesBacked DEF SaveOpens
<1>9. CASE SaveWrites(p)
  <2>1. \A lost, foreign : AllBelong(Back(p, proc[p].mem, lost, foreign).mem)
    BY <1>0, BlankBelongs DEF Back
  <2>2. good' \in {good, proc[p].mem} /\ AllBelong(good')
    BY <1>0, <1>9 DEF SaveWrites
  <2>3. \E s : BecomeTouching(p, s) /\ AllBelong(s.mem)
    BY <1>9, <2>1 DEF SaveWrites
  <2>4. \A q \in Procs : AllBelong(proc[q].mem) BY DEF Backed
  <2>5. \A q \in Procs : q # p => proc'[q].mem = proc[q].mem
    BY <1>0, <2>3 DEF BecomeTouching, BookTypeOK, Proc
  <2>6. AllBelong(proc'[p].mem) BY <2>3 DEF BecomeTouching
  <2>7. \A q \in Procs : AllBelong(proc'[q].mem) BY <2>4, <2>5, <2>6
  <2> QED BY <2>2, <2>7
<1>10. CASE SaveFails(p)
  <2>1. AllBelong(Kept(p)) BY <1>0 DEF Kept, AllBelong, Belongs, Proc, Books
  <2>2. \A lost, foreign : AllBelong(Back(p, Kept(p), lost, foreign).mem)
    BY <2>1, BlankBelongs DEF Back
  <2>3. good' \in {good, proc[p].mem} /\ AllBelong(good')
    BY <1>0, <1>10 DEF SaveFails
  <2>4. \E s : (Become(p, s) \/ BecomeTouching(p, s)) /\ AllBelong(s.mem)
    BY <1>10, <2>2 DEF SaveFails
  <2>5. \A q \in Procs : AllBelong(proc[q].mem) BY DEF Backed
  <2>6. \A q \in Procs : q # p => proc'[q].mem = proc[q].mem
    BY <1>0, <2>4 DEF Become, BecomeTouching, BookTypeOK, Proc
  <2>7. AllBelong(proc'[p].mem) BY <1>0, <2>4 DEF Become, BecomeTouching, BookTypeOK
  <2>8. \A q \in Procs : AllBelong(proc'[q].mem) BY <2>5, <2>6, <2>7
  <2> QED BY <2>3, <2>8
<1>11. CASE Die(p) BY <1>0, <1>11, BlankBelongs, CopiesBacked DEF Die
<1> QED
  BY <1>1, <1>2, <1>3, <1>4, <1>5, <1>6, <1>7, <1>8, <1>9, <1>10, <1>11
     DEF ProcStep, CommandStep, PickerStep, SaveStep

\* A typed token is offered for the host that has just accepted it.
LEMMA OfferBelongs ==
    ASSUME SessionIInv, OneTarget, stage = "offer", SaveHost # None
    PROVE  Accepts(SaveHost, flags.token)
<1>1. target = DialTarget(resolved) /\ Accepts(target, Token) /\ flags.token # None
  BY DEF SessionIInv, Dialed, Accepted, Prompted
<1>2. Token = flags.token BY <1>1 DEF Token
<1>3. target = SaveHost
  BY <1>1 DEF SessionIInv, Named, OneTarget, SaveHost, DialTarget, Selected
<1> QED BY <1>1, <1>2, <1>3

LEMMA NextBacked ==
    ASSUME Backed, BookIInv, SessionIInv, [Next]_vars
    PROVE  Backed'
<1> SUFFICES ASSUME OneTarget'
             PROVE  AllBelong(good') /\ \A q \in Procs : AllBelong(proc'[q].mem)
  BY DEF Backed, AllBelong, Belongs, Accepts
<1>1. OneTarget
  <2>1. CASE flags' = flags BY <2>1 DEF OneTarget
  <2>2. ASSUME NEW a \in Aliases, Choose(a) PROVE OneTarget
    BY <2>2 DEF SessionIInv, Named, Explicit, Choose, OneTarget
  <2>3. ASSUME NEW k \in Tokens, Prompt(k) PROVE OneTarget
    BY <2>3 DEF SessionIInv, TargetTypeOK, Flags, Prompt, OneTarget
  <2> QED
    BY <2>1, <2>2, <2>3 DEF Next, TuiStep, vars, targetVars, NoPicker, OpenPicker,
       Unreadable, Edit, Quit, Killed, Exit, Dial, DialFails, Verify, Rejected,
       PromptEmpty, Reverify, ReverifyFails, Decline, Saved, Reconnect, OfferSave, Other, Save
<1>2. ASSUME NEW p \in Procs, ProcStep(p)
      PROVE  AllBelong(good') /\ \A q \in Procs : AllBelong(proc'[q].mem)
  BY <1>1, <1>2, ProcBacked
<1>3. ASSUME NEW a \in Aliases, OfferSave(a)
      PROVE  AllBelong(good') /\ \A q \in Procs : AllBelong(proc'[q].mem)
  <2> DEFINE e == [host |-> SaveHost, token |-> flags.token]
  <2>1. Belongs(e) BY <1>1, <1>3, OfferBelongs DEF OfferSave, Belongs
  <2> HIDE DEF e
  <2>2. StartSave(Tui, a, e) BY <1>3 DEF OfferSave, e
  <2> QED BY <1>1, <2>1, <2>2, LoadBacked, TargetAssumption
<1>4. CASE UNCHANGED bookVars BY <1>1, <1>4 DEF Backed, bookVars
<1>5. CASE OpenPicker \/ Edit \/ Quit \/ Killed
  BY <1>2, <1>5, TargetAssumption DEF OpenPicker, Edit, Quit, Killed, ProcStep
<1>6. ASSUME NEW a \in Aliases, Choose(a)
      PROVE  AllBelong(good') /\ \A q \in Procs : AllBelong(proc'[q].mem)
  BY <1>2, <1>6, TargetAssumption DEF Choose, ProcStep
<1>7. ASSUME NEW p \in Procs, Other(p) \/ Save(p)
      PROVE  AllBelong(good') /\ \A q \in Procs : AllBelong(proc'[q].mem)
  BY <1>2, <1>7 DEF Other, Save, ProcStep
<1>8. CASE \/ NoPicker \/ Unreadable \/ Dial \/ DialFails \/ Verify \/ Rejected
           \/ PromptEmpty \/ Reverify \/ ReverifyFails \/ Decline \/ Saved \/ Reconnect
           \/ \E k \in Tokens : Prompt(k)
  BY <1>4, <1>8 DEF NoPicker, Unreadable, Dial, DialFails, Verify, Rejected, PromptEmpty,
     Reverify, ReverifyFails, Decline, Saved, Reconnect, Prompt
<1> QED
  BY <1>3, <1>4, <1>5, <1>6, <1>7, <1>8 DEF Next, TuiStep, vars

-----------------------------------------------------------------------------
IInv == BookIInv /\ SessionIInv /\ Backed

LEMMA InitIInv == Init => IInv
<1> SUFFICES ASSUME Init PROVE IInv OBVIOUS
<1>1. BookIInv BY BookInitInv DEF Init
<1>2. Backed BY BlankBelongs DEF Init, BookInit, Backed
<1> QED BY <1>1, <1>2, InitSession DEF IInv

LEMMA TypesMeet == BookIInv /\ SessionIInv => TypeOK
  BY DEF BookIInv, SessionIInv, TargetTypeOK, TypeOK

LEMMA NextIInv == IInv /\ [Next]_vars => IInv'
<1> SUFFICES ASSUME IInv, [Next]_vars PROVE IInv' OBVIOUS
<1>1. TypeOK /\ BookTypeOK BY TypesMeet DEF IInv, BookIInv
<1>2. BookIInv' BY <1>1, NextBook DEF IInv
<1>3. SessionIInv' BY <1>1, NextSession DEF IInv
<1>4. Backed' BY NextBacked DEF IInv
<1> QED BY <1>2, <1>3, <1>4 DEF IInv

\* The inductive invariant of the composition.
THEOREM Invariance == Spec => []IInv
BY InitIInv, NextIInv, PTL DEF Spec

\* Every variable keeps its type.
THEOREM TypeCorrect == Spec => []TypeOK
<1>1. IInv => TypeOK BY TypesMeet DEF IInv
<1> QED BY <1>1, Invariance, PTL

\* An open picker lists what the file last held, but for aliases whose save was
\* reported as failed and for the changes of other processes.
THEOREM PickerShowsTheFile == Spec => []ListedIsSaved
<1>1. IInv => ListedIsSaved
  BY DEF IInv, BookIInv, Holds, Agrees, Touched, Saving, ListedIsSaved
<1> QED BY <1>1, Invariance, PTL

\* A save that no other process interferes with, reported as failed or not,
\* changes only the alias that was meant, and never drops the devices of a book it could not read.
THEOREM SavesWhatWasMeant == Spec => OnlyMeant
<1>1. IInv /\ [Next]_vars =>
        [\A p \in Procs :
           SaveStep(p) /\ good' # good /\ ~proc[p].foreign
           => \A a \in Aliases \ (proc[p].lost \cup {proc[p].meant}) :
                  good'[a] = good[a]]_bookVars
  BY NextOnlyMeant DEF IInv
<1> QED BY <1>1, Invariance, PTL DEF Spec, OnlyMeant

\* A token is saved with a host only when it was typed with it or the host
\* accepted it.
THEOREM SavedTokensBelong == Spec => []TokensBelong
<1>1. IInv => TokensBelong BY DEF IInv, Backed, AllBelong, Belongs, TokensBelong
<1> QED BY <1>1, Invariance, PTL

\* A UI started on an authorised session stays authorised on that device.
THEOREM SessionStaysAuthorised == Spec => []RunsAuthorized
<1>1. IInv => RunsAuthorized BY DEF IInv, SessionIInv, Accepted, RunsAuthorized
<1> QED BY <1>1, Invariance, PTL

\* Reconnects return to the device the UI was started on, unless its serial
\* port was auto-detected.
THEOREM ReconnectsReturn == Spec => []ReconnectsHome
<1>1. IInv => ReconnectsHome
  BY DEF IInv, SessionIInv, Dialed, ReconnectsHome, DialTarget, RedialTarget, Selected
<1> QED BY <1>1, Invariance, PTL
=============================================================================
