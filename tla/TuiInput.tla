------------------------------ MODULE TuiInput ------------------------------
(***************************************************************************)
(* The input line, the airtime lockout and the dispatch of what is typed:  *)
(* src/internal/tui/input.go, the key, input and airtime handlers of       *)
(* src/internal/tui/tui.go and the command table of                        *)
(* src/internal/tui/commands.go.                                           *)
(*                                                                         *)
(* Enter does not send.  It clears the line and posts an InputMsg that the *)
(* event loop gets later, in any order, after keys, buffer switches and    *)
(* airtime reports it did not know about; the lockout is checked at Enter, *)
(* as it was last drawn, and again by the handler of the message.          *)
(*                                                                         *)
(* A text is a model value with a kind, the branch of Execute it takes;    *)
(* every command that only prints, and every usage error, is "print".      *)
(* Printed lines are Conversations.tla.  A refill time is not kept: the    *)
(* lockout is decided by the remaining budget of the last report alone.    *)
(***************************************************************************)
EXTENDS Naturals, Sequences, FiniteSets

CONSTANTS
    Home,        \* the buffer "broadcast"
    Channels,    \* buffers "ch:N"
    Direct,      \* buffers "dm:ADDR"
    Texts,       \* what the user may type
    Empty,       \* the empty line
    Kind,        \* per text: the branch it takes
    To,          \* per "goto" and "msg" text: the buffer; per "number": a number
    Scarce,      \* tiers whose budget may run out
    HistoryMax,  \* inputHistoryMax
    MaxEnters,   \* bound: texts entered
    MaxTicks     \* bound: lock ticks in flight

Buffers == {Home} \cup Channels \cup Direct
Tiers == {"broadcast", "normal", "critical"}
Sendable == {"say", "act", "critical", "msg"}
Kinds == Sendable \cup {"long", "goto", "number", "close", "mouse", "reboot", "confirm",
                        "quit", "print"}

ASSUME TuiInputAssumption ==
    /\ Home \notin Channels \cup Direct /\ Channels \cap Direct = {}
    /\ Empty \notin Texts
    /\ Kind \in [Texts -> Kinds]
    /\ \A t \in Texts : /\ Kind[t] = "goto" => To[t] \in Buffers
                        /\ Kind[t] = "msg" => To[t] \in Direct
                        /\ Kind[t] = "number" => To[t] \in Nat
    /\ Scarce \subseteq Tiers
    /\ HistoryMax \in Nat \ {0} /\ MaxEnters \in Nat /\ MaxTicks \in Nat

VARIABLES
    running,     \* the program has not quit
    open,        \* store.ConvOrder
    active,      \* m.activeConv
    text,        \* the text in the line
    history,     \* il.history, oldest first
    idx,         \* il.historyIdx + 1: 0 when not browsing
    draft,       \* il.draft
    shown,       \* il.lockout: the tier shown as depleted, or "none"
    ticking,     \* m.airtimeLockTicking
    ticks,       \* airtimeLockTick commands in flight
    known,       \* tiers without budget in store.Airtime
    node,        \* tiers without budget on the node
    pending,     \* m.pendingConfirm
    mouse,       \* m.mouseEnabled
    reboots,     \* history variable: reboots requested of the node
    entries      \* history variable: every text entered and what became of it

line == <<text, history, idx, draft>>
lock == <<shown, ticking, ticks>>
vars == <<running, open, active, line, lock, known, node, pending, mouse, reboots, entries>>

Fates == {"posted", "sent", "refused", "done"}

TypeOK ==
    /\ running \in BOOLEAN
    /\ open \in Seq(Buffers) /\ active \in Buffers
    /\ text \in Texts \cup {Empty} /\ draft \in Texts \cup {Empty}
    /\ history \in Seq(Texts) /\ Len(history) <= HistoryMax
    /\ idx \in 0..Len(history)
    /\ shown \in Tiers \cup {"none"} /\ ticking \in BOOLEAN /\ ticks \in Nat
    /\ known \subseteq Tiers /\ node \subseteq Tiers
    /\ pending \in BOOLEAN /\ mouse \in BOOLEAN /\ reboots \in Nat
    /\ entries \in Seq([text : Texts, fate : Fates])

-----------------------------------------------------------------------------
(* The lockout *)

\* airtimeTierForText: the tier a text typed into buffer b is held to.
Tier(t, b) ==
    IF t # Empty /\ Kind[t] = "critical" THEN "critical"
    ELSE IF b \in Direct THEN "normal" ELSE "broadcast"

\* currentAirtimeLockout: the tier, if the last report left it nothing.
Lockout(t, b, depleted) == IF Tier(t, b) \in depleted THEN Tier(t, b) ELSE "none"

\* refreshInputLockout: a lockout that begins starts a chain of ticks, if the
\* caller returns the command (armed).
Refresh(armed) ==
    /\ shown' = Lockout(text', active', known')
    /\ ticking' = (shown' # "none")
    /\ ticks' = IF ticking' /\ ~ticking /\ armed THEN ticks + 1 ELSE ticks
    /\ ticks' <= MaxTicks

\* A fault: the lockout of the buffer left behind stays.
FaultSwitch(b) ==
    /\ active' = b
    /\ open' = IF \E i \in 1..Len(open) : open[i] = b THEN open ELSE Append(open, b)
    /\ UNCHANGED <<running, line, lock, known, node>>

\* switchBuffer: the note it prints opens the buffer; the tick is dropped.
Switch(b) ==
    /\ active' = b
    /\ open' = IF \E i \in 1..Len(open) : open[i] = b THEN open ELSE Append(open, b)
    /\ UNCHANGED <<running, line, known, node>>
    /\ Refresh(FALSE)

-----------------------------------------------------------------------------
(* Keys and clicks *)

Init ==
    /\ running = TRUE
    /\ open = <<Home>> /\ active = Home
    /\ text = Empty /\ history = <<>> /\ idx = 0 /\ draft = Empty
    /\ shown = "none" /\ ticking = FALSE /\ ticks = 0
    /\ known = {} /\ node = {}
    /\ pending = FALSE /\ mouse = TRUE
    /\ reboots = 0 /\ entries = <<>>

\* What every key that goes to the input line leaves alone.
Key ==
    /\ running
    /\ UNCHANGED <<running, open, active, known, node, pending, mouse, reboots>>
    /\ Refresh(TRUE)

\* Typing, deleting, and completing a command with Tab.
Type(t) ==
    /\ text' = t
    /\ UNCHANGED <<history, idx, draft, entries>>
    /\ Key

Escape ==
    /\ text' = Empty /\ idx' = 0 /\ draft' = Empty
    /\ UNCHANGED <<history, entries>>
    /\ Key

\* handleHistoryUp: the first one keeps the text as the draft.
HistoryUp ==
    /\ history # <<>>
    /\ idx' = IF idx = 0 THEN Len(history) ELSE IF idx > 1 THEN idx - 1 ELSE idx
    /\ draft' = IF idx = 0 THEN text ELSE draft
    /\ text' = history[idx']
    /\ UNCHANGED <<history, entries>>
    /\ Key

\* handleHistoryDown: past the newest entry the draft is back.
HistoryDown ==
    /\ idx # 0
    /\ IF idx < Len(history)
       THEN idx' = idx + 1 /\ text' = history[idx'] /\ UNCHANGED draft
       ELSE idx' = 0 /\ text' = draft /\ draft' = Empty
    /\ UNCHANGED <<history, entries>>
    /\ Key

\* A fault: a full history is cut at the wrong end.
FaultRemember(t) ==
    IF history # <<>> /\ history[Len(history)] = t THEN history
    ELSE IF Len(history) = HistoryMax THEN history ELSE Append(history, t)

\* addHistory: a repeated text once, the oldest dropped.
Remember(t) ==
    IF history # <<>> /\ history[Len(history)] = t THEN history
    ELSE IF Len(history) = HistoryMax THEN Append(Tail(history), t)
    ELSE Append(history, t)

\* Enter on an unlocked line.  On a locked one the text stays where it is and a
\* note is printed, also if it is a command.
Enter ==
    /\ text # Empty /\ shown = "none"
    /\ Len(entries) < MaxEnters
    /\ history' = Remember(text)
    /\ entries' = Append(entries, [text |-> text, fate |-> "posted"])
    /\ text' = Empty /\ idx' = 0 /\ draft' = Empty
    /\ Key

\* Alt+1 to Alt+9, Ctrl+N, Ctrl+P.
Goto ==
    /\ running
    /\ \E i \in 1..Len(open) :
         /\ \/ i <= 9
            \/ \E j \in 1..Len(open) :
                 /\ open[j] = active
                 /\ i = (j % Len(open)) + 1 \/ j = (i % Len(open)) + 1
         /\ Switch(open[i])
    /\ UNCHANGED <<pending, mouse, reboots, entries>>

\* A click on a tab of the status bar, or on the name of a sender.
Click(b) ==
    /\ running /\ mouse /\ b # active
    /\ b \in Direct \/ \E i \in 1..Len(open) : open[i] = b
    /\ Switch(b)
    /\ UNCHANGED <<pending, mouse, reboots, entries>>

-----------------------------------------------------------------------------
(* What was entered reaches the event loop *)

\* A fault: the check at Enter is taken for the last one.
FaultGate(n) == "none"

\* The lockout a message is held to as it is sent: /msg and /me go by the active
\* buffer, also where the message goes elsewhere.
Gate(n) ==
    Lockout(IF Kind[entries[n].text] = "critical" THEN entries[n].text ELSE Empty, active, known)

Fate(n, f) == entries' = [entries EXCEPT ![n].fate = f]
Still == UNCHANGED <<running, open, active, line, known, node>>

\* Takes message n, of a kind in ks.
Takes(n, ks) == running /\ entries[n].fate = "posted" /\ Kind[entries[n].text] \in ks

\* Text that is sent: over the limit it is refused before the lockout is looked at.
HandleSay(n) ==
    LET excess == Kind[entries[n].text] = "long"
        locked == ~excess /\ Gate(n) # "none"
    IN /\ Takes(n, Sendable \cup {"long"})
       /\ Fate(n, IF excess \/ locked THEN "refused" ELSE "sent")
       /\ Still
       /\ IF locked THEN Refresh(TRUE) ELSE UNCHANGED lock
       /\ UNCHANGED <<pending, mouse, reboots>>

\* /b, /dm, /ch mesh:N, /ch N and /close; the last two may have nowhere to go.
HandleGoto(n) ==
    LET t == entries[n].text
        dest == CASE Kind[t] = "goto" -> {To[t]}
                  [] Kind[t] = "number" -> {open[i] : i \in {To[t]} \cap 1..Len(open)}
                  [] OTHER -> {Home} \ {active}
    IN /\ Takes(n, {"goto", "number", "close"})
       /\ Fate(n, "done")
       /\ IF dest = {} THEN Still /\ UNCHANGED lock ELSE \E b \in dest : Switch(b)
       /\ UNCHANGED <<pending, mouse, reboots>>

\* A fault: one confirmation is good for any number of reboots.
FaultConfirmed == pending

\* What is left of the question after /reboot-confirm.
Confirmed == FALSE

\* /reboot asks, /reboot-confirm reboots if it was asked; DoReboot calls the node
\* from inside the handler.
HandleReboot(n) ==
    /\ Takes(n, {"reboot", "confirm"})
    /\ Fate(n, "done")
    /\ IF Kind[entries[n].text] = "reboot"
       THEN pending' = TRUE /\ UNCHANGED reboots
       ELSE /\ reboots' = IF pending THEN reboots + 1 ELSE reboots
            /\ pending' = Confirmed
    /\ Still /\ UNCHANGED <<lock, mouse>>

\* /mouse, /quit and the commands that only print.
HandleOther(n) ==
    /\ Takes(n, {"mouse", "quit", "print"})
    /\ Fate(n, "done")
    /\ mouse' = IF Kind[entries[n].text] = "mouse" THEN ~mouse ELSE mouse
    /\ running' = (Kind[entries[n].text] # "quit")
    /\ UNCHANGED <<open, active, line, lock, known, node, pending, reboots>>

Handle(n) == HandleSay(n) \/ HandleGoto(n) \/ HandleReboot(n) \/ HandleOther(n)

-----------------------------------------------------------------------------
(* The node and the clock *)

\* A message for a buffer that is not open yet.
Arrive(b) ==
    /\ running
    /\ ~\E i \in 1..Len(open) : open[i] = b
    /\ open' = Append(open, b)
    /\ UNCHANGED <<running, active, line, lock, known, node, pending, mouse, reboots, entries>>

\* The node's budgets run out and refill.
Budget ==
    /\ \E tier \in Scarce : node' = IF tier \in node THEN node \ {tier} ELSE node \cup {tier}
    /\ UNCHANGED <<running, open, active, line, lock, known, pending, mouse, reboots, entries>>

\* A fault: the report is stored and the line left as it is.
FaultReport ==
    /\ running
    /\ known' = node
    /\ UNCHANGED <<running, open, active, line, lock, node, pending, mouse, reboots, entries>>

\* fetchAirtimeResult; one that failed changes nothing.
Report ==
    /\ running
    /\ known' = node
    /\ UNCHANGED <<running, open, active, line, node, pending, mouse, reboots, entries>>
    /\ Refresh(TRUE)

\* A fault: the chain goes on whatever it finds.
FaultLockTick ==
    /\ running /\ ticks > 0
    /\ shown' = Lockout(text, active, known)
    /\ ticking' = (shown' # "none")
    /\ UNCHANGED <<running, open, active, line, ticks, known, node, pending, mouse, reboots, entries>>

\* airtimeLockTickMsg: goes on while there is a lockout.
LockTick ==
    /\ running /\ ticks > 0
    /\ shown' = Lockout(text, active, known)
    /\ ticking' = (shown' # "none")
    /\ ticks' = IF ticking' THEN ticks ELSE ticks - 1
    /\ UNCHANGED <<running, open, active, line, known, node, pending, mouse, reboots, entries>>

Next ==
    \/ \E t \in Texts \cup {Empty} : Type(t)
    \/ Escape \/ HistoryUp \/ HistoryDown \/ Enter
    \/ Goto
    \/ \E b \in Buffers : Click(b) \/ Arrive(b)
    \/ \E n \in 1..Len(entries) : Handle(n)
    \/ Budget \/ Report \/ LockTick

\* A tick is delivered, and the airtime poll runs as long as the node answers.
\* Nobody has to type and no budget has to refill.
Fairness ==
    /\ WF_vars(Report)
    /\ WF_vars(LockTick)

Spec == Init /\ [][Next]_vars /\ Fairness

-----------------------------------------------------------------------------
(* Properties *)

\* The lockout drawn is that of the text in the line, the active buffer and the
\* last report, after any mix of keys, switches, recalls, reports and ticks.
LockoutIsCurrent == shown = Lockout(text, active, known) /\ ticking = (shown # "none")

\* A text that Enter took out of the line and the handler then refused can be
\* recalled, until inputHistoryMax other texts were entered after it.
RefusedIsRecallable ==
    \A n \in 1..Len(entries) : entries[n].fate = "refused" =>
        \/ \E i \in 1..Len(history) : history[i] = entries[n].text
        \/ Len(entries) >= n + HistoryMax

\* Every reboot has a /reboot of its own before it, however the confirmations
\* and the questions overtake one another.
RebootsWereAsked ==
    reboots + (IF pending THEN 1 ELSE 0) <=
        Cardinality({n \in 1..Len(entries) :
                       Kind[entries[n].text] = "reboot" /\ entries[n].fate = "done"})

\* Nothing typed for the active buffer leaves on a tier the last report says is
\* depleted, also if the report came after Enter.
NoDepletedSend ==
    [][\A n \in 1..Len(entries) :
         entries[n].fate = "posted" /\ entries'[n].fate = "sent"
           => Tier(entries[n].text, active) \notin known]_vars

\* Once the node has budget for good, the line is unlocked for good.
LockoutLifts == (<>[](node = {} /\ running)) => <>[](shown = "none")

\* Chains of lock ticks, however many were started, come to an end with it.
ChainsDieOut == (<>[](node = {} /\ running)) => <>[](ticks = 0)
=============================================================================
