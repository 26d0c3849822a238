----------------------------- MODULE DeviceBook -----------------------------
(***************************************************************************)
(* The address book of saved devices: one JSON file that every bramble     *)
(* process of the user reads whole and writes whole.                       *)
(*   internal/devices/devices.go   Load, Save, Add, Remove                 *)
(*   internal/commands/devices.go  `devices add`, `devices rm`             *)
(*   internal/tui/picker.go        the picker: it loads the book once and  *)
(*                                 edits its own copy for as long as it is *)
(*                                 open                                    *)
(* No lock is taken and no temporary file is renamed: Save opens the file  *)
(* with truncation and then writes it, so between those two system calls   *)
(* another process may load, truncate or write, and a process that dies or *)
(* fails there leaves a file no Load accepts.                              *)
(*                                                                         *)
(* An entry's host is a normalised URL: Add stores NormalizeHost of what   *)
(* the user typed, and Entries holds values of that function's range.  The *)
(* label and the informational port of an entry are left out.              *)
(***************************************************************************)
CONSTANTS Procs,     \* the bramble processes of this user
          Aliases,   \* the aliases that pass ValidateAlias
          Entries,   \* what a device is saved as
          Typed,     \* the entries users type
          None,      \* no entry, no alias
          Empty,     \* contents of the file: truncated, nothing written yet
          Torn       \* contents of the file: not a JSON document

Books == [Aliases -> Entries \cup {None}]
Blank == [a \in Aliases |-> None]
Broken == {Empty, Torn}

ASSUME BookAssumption ==
    /\ Typed \subseteq Entries
    /\ None \notin Aliases \cup Entries
    /\ Empty # Torn
    /\ Broken \cap Books = {}

VARIABLES
    file,      \* what a reader of the file finds
    proc,      \* each process: where it stands and the copy it holds
    good       \* history: the last book that stood complete in the file

bookVars == <<file, proc, good>>

(***************************************************************************)
(* A process is "off" (not holding a book), in the picker at its "list" or *)
(* at its "confirm" question, or inside Save: about to "open" the file or  *)
(* about to "write" it.  foreign and lost are history: whether another     *)
(* process has touched the file since this one read or wrote it, and the   *)
(* aliases a save of which was reported as failed, in which the picker's   *)
(* copy may therefore differ from the file.                                *)
(***************************************************************************)
Proc == [at : {"off", "list", "confirm", "open", "write"},
         task : {"none", "command", "pickAdd", "pickRm"},
         mem : Books,
         meant : Aliases \cup {None},
         foreign : BOOLEAN,
         lost : SUBSET Aliases]

Idle == [at |-> "off", task |-> "none", mem |-> Blank, meant |-> None,
         foreign |-> FALSE, lost |-> {}]

BookTypeOK ==
    /\ file \in Books \cup Broken
    /\ good \in Books
    /\ proc \in [Procs -> Proc]

BookInit == file = Blank /\ good = Blank /\ proc = [p \in Procs |-> Idle]

Become(p, state) == proc' = [proc EXCEPT ![p] = state]

\* The same for a step that touches the file under the others.
BecomeTouching(p, state) ==
    proc' = [q \in Procs |->
               IF q = p THEN state
               ELSE [proc[q] EXCEPT !.foreign = proc[q].at # "off"]]

\* A fault: a book that cannot be read counts as an empty one.
FaultStartSave(p, a, e) ==
    LET book == IF file \in Broken THEN Blank ELSE file IN
    /\ proc[p].at = "off"
    /\ Become(p, [Idle EXCEPT !.at = "open", !.task = "command", !.meant = a,
                              !.mem = [book EXCEPT ![a] = e]])
    /\ UNCHANGED <<file, good>>

\* Load, the one change, and the call of Save: nothing waits between them.
StartSave(p, a, e) ==
    /\ proc[p].at = "off"
    /\ file \notin Broken
    /\ Become(p, [Idle EXCEPT !.at = "open", !.task = "command", !.meant = a,
                              !.mem = [file EXCEPT ![a] = e]])
    /\ UNCHANGED <<file, good>>

CmdAdd(p, a) == \E e \in Typed : StartSave(p, a, e)

CmdRm(p, a) ==
    /\ file \notin Broken
    /\ file[a] # None
    /\ StartSave(p, a, None)

-----------------------------------------------------------------------------
(* The picker. *)

PickerOpen(p) ==
    /\ proc[p].at = "off"
    /\ file \notin Broken \cup {Blank}
    /\ Become(p, [Idle EXCEPT !.at = "list", !.mem = file])
    /\ UNCHANGED <<file, good>>

PickerDelete(p, a) ==
    /\ proc[p].at = "list"
    /\ proc[p].mem[a] # None
    /\ Become(p, [proc[p] EXCEPT !.at = "confirm", !.meant = a])
    /\ UNCHANGED <<file, good>>

PickerCancel(p) ==
    /\ proc[p].at = "confirm"
    /\ Become(p, [proc[p] EXCEPT !.at = "list", !.meant = None])
    /\ UNCHANGED <<file, good>>

PickerConfirm(p) ==
    /\ proc[p].at = "confirm"
    /\ Become(p, [proc[p] EXCEPT !.at = "open", !.task = "pickRm",
                                 !.mem = [@ EXCEPT ![proc[p].meant] = None]])
    /\ UNCHANGED <<file, good>>

\* The submitted form: an alias the picker's copy already has is refused.
PickerAdd(p, a) ==
    /\ proc[p].at = "list"
    /\ proc[p].mem[a] = None
    /\ \E e \in Typed :
         Become(p, [proc[p] EXCEPT !.at = "open", !.task = "pickAdd",
                                   !.meant = a, !.mem = [@ EXCEPT ![a] = e]])
    /\ UNCHANGED <<file, good>>

\* Leaving the picker, with a choice or without one.
PickerClose(p) ==
    /\ proc[p].at = "list"
    /\ Become(p, Idle)
    /\ UNCHANGED <<file, good>>

-----------------------------------------------------------------------------
(* Save. *)

\* Where a process is once Save has returned: a command ends, the picker
\* shows its list again.
Back(p, book, lost, foreign) ==
    IF proc[p].task = "command" THEN Idle
    ELSE [at |-> "list", task |-> "none", mem |-> book, meant |-> None,
          foreign |-> foreign, lost |-> lost]

SaveOpens(p) ==
    /\ proc[p].at = "open"
    /\ file' = Empty
    /\ BecomeTouching(p, [proc[p] EXCEPT !.at = "write"])
    /\ UNCHANGED good

\* The write lands alone, or over what another process wrote after this one
\* truncated: a longer document then keeps its tail behind the shorter one.
SaveWrites(p) ==
    LET book == proc[p].mem IN
    /\ proc[p].at = "write"
    /\ \/ /\ file' = book
          /\ good' = book
          /\ BecomeTouching(p, Back(p, book, {}, FALSE))
       \/ /\ file # Empty
          /\ file' = Torn
          /\ BecomeTouching(p, Back(p, book, proc[p].lost, proc[p].foreign))
          /\ UNCHANGED good

\* A fault: an addition that was not saved stays in memory.
FaultKept(p) == proc[p].mem

\* What the picker keeps in memory when its save failed: an addition is taken
\* back, a deletion is not.
Kept(p) == IF proc[p].task = "pickAdd"
           THEN [proc[p].mem EXCEPT ![proc[p].meant] = None]
           ELSE proc[p].mem

\* A failed deletion leaves the alias in the file; an addition reported as failed
\* may be there all the same.
Unsaved(p) == IF proc[p].task = "pickRm" THEN proc[p].lost \cup {proc[p].meant}
              ELSE proc[p].lost
TakenBack(p) == IF proc[p].task = "pickAdd" THEN {proc[p].meant} ELSE {}

\* An error of os.WriteFile: the open fails; the write fails, with nothing or a
\* part of the document written; or the document is complete, and closing the
\* file fails.
SaveFails(p) ==
    LET state == Back(p, Kept(p), Unsaved(p), proc[p].foreign) IN
    \/ /\ proc[p].at = "open"
       /\ Become(p, state)
       /\ UNCHANGED <<file, good>>
    \/ /\ proc[p].at = "write"
       /\ file' \in {file, Torn}
       /\ BecomeTouching(p, state)
       /\ UNCHANGED good
    \/ /\ proc[p].at = "write"
       /\ file' = proc[p].mem
       /\ good' = proc[p].mem
       /\ BecomeTouching(p, Back(p, Kept(p), TakenBack(p), FALSE))

\* The process is killed.
Die(p) ==
    /\ \/ proc[p].at \notin {"off", "write"} /\ UNCHANGED file /\ Become(p, Idle)
       \/ /\ proc[p].at = "write"
          /\ file' \in {file, Torn}
          /\ BecomeTouching(p, Idle)
    /\ UNCHANGED good

-----------------------------------------------------------------------------
PickerStep(p) ==
    \/ PickerCancel(p) \/ PickerConfirm(p)
    \/ \E a \in Aliases : PickerDelete(p, a) \/ PickerAdd(p, a)

SaveStep(p) == SaveOpens(p) \/ SaveWrites(p) \/ SaveFails(p)

CommandStep(p) == \E a \in Aliases : CmdAdd(p, a) \/ CmdRm(p, a)

ProcStep(p) ==
    \/ CommandStep(p) \/ PickerOpen(p) \/ PickerStep(p) \/ PickerClose(p)
    \/ SaveStep(p) \/ Die(p)

BookNext == \E p \in Procs : ProcStep(p)

BookSpec == BookInit /\ [][BookNext]_bookVars

-----------------------------------------------------------------------------
(* Properties. *)

\* What the picker lists is what the file last held, entry for entry, however
\* many saves failed before: it differs only in aliases a save of which was
\* reported as failed (a deletion, or an addition that failed after it was
\* written), unless another process has touched the file since.
\* (picker.go: submitAdd takes a failed addition back, "keep memory and disk
\* consistent".)
ListedIsSaved ==
    \A p \in Procs :
        proc[p].at \in {"list", "confirm"} /\ ~proc[p].foreign
        => \A a \in Aliases \ proc[p].lost : proc[p].mem[a] = good[a]

\* A save changes the alias the user meant and no other.  The exceptions are
\* the lost update (another process saved between this one's read and its
\* write) and an alias an earlier save of which was reported as failed; in
\* particular a book that could not be read is never replaced by one without its
\* devices, by no command and not by the TUI's offer to save a token.
OnlyMeant ==
    [][\A p \in Procs :
         SaveStep(p) /\ good' # good /\ ~proc[p].foreign
         => \A a \in Aliases \ (proc[p].lost \cup {proc[p].meant}) :
                good'[a] = good[a]]_bookVars

=============================================================================
