--------------------------- MODULE Conversations ---------------------------
(***************************************************************************)
(* Conversations, the transcript on screen and delivery receipts: the      *)
(* store (src/internal/tui/store.go) and the handlers of the event loop    *)
(* that send, receive, switch and clear (src/internal/tui/tui.go).         *)
(*                                                                         *)
(* The screen is redrawn from the store on a switch and on a receipt, and  *)
(* appended to in between; a send posts its result when the node answered, *)
(* after any number of switches, receipts and arrivals.                    *)
(*                                                                         *)
(* Lines keep their identity and lose their wording and their order (a     *)
(* redraw sorts by time stamps of one second, so order is not kept).       *)
(* System lines and command output are left out: like the note and failure *)
(* lines here they go to the store and the screen of the active            *)
(* conversation together.                                                  *)
(***************************************************************************)
EXTENDS Naturals, FiniteSets

CONSTANTS
    Broadcast,     \* the conversation "broadcast"
    Channels,      \* conversations "ch:N"
    DMs,           \* conversations "dm:ADDR"
    OwnDM,         \* the one whose ADDR is the node's own
    IdentityKnown, \* runTUI's Identity call succeeded, so store.Identity is set
    Sends,         \* messages typed by the user (a bound on their number)
    Arrivals,      \* messages the node pushes (a bound on their number)
    History,       \* messages PreloadFromDB finds
    Recipients     \* nodes that confirm a broadcast

Groups == {Broadcast} \cup Channels
Convs == Groups \cup DMs

ASSUME ConversationsAssumption ==
    /\ Broadcast \notin Channels
    /\ DMs \cap Groups = {}
    /\ OwnDM \in DMs
    /\ IdentityKnown \in BOOLEAN
    /\ Sends \cap (Arrivals \cup History) = {}
    /\ Arrivals \cap History = {}
    /\ IsFiniteSet(Sends) /\ IsFiniteSet(Arrivals) /\ IsFiniteSet(History)

VARIABLES
    active,        \* m.activeConv and store.ActiveConvID, always set together
    log,           \* per conversation: Messages and Events
    unread,        \* per conversation: Unread
    screen,        \* lines in m.scroll
    shown,         \* per send: the receipt drawn beneath its message
    sends,         \* per send: how far it is, and what its result will carry
    inbox,         \* arrivals not pushed yet
    deliveries,    \* store.deliveries, per send
    correlated,    \* sends in store.msgCorrelation
    seen,          \* history variable: lines that have been on the screen
    cleared        \* history variable: lines a /clear removed

receipts == <<deliveries, correlated>>
vars == <<active, log, unread, screen, shown, sends, inbox, receipts, seen, cleared>>

Chat(x) == [kind |-> "chat", of |-> x]
Note(s) == [kind |-> "note", of |-> s]
Failure(s) == [kind |-> "failure", of |-> s]

Messages == Sends \cup Arrivals \cup History
Lines == [kind : {"chat"}, of : Messages] \cup [kind : {"note", "failure"}, of : Sends]
ReceiptLines == [Recipients -> {"none", "delivered", "failed"}]
NoReceipt == [r \in Recipients |-> "none"]

\* An inline send goes to a peer.
SendRecords ==
    {r \in [stage : {"idle", "flying", "sent", "failed"}, inline : BOOLEAN,
            origin : Convs, dest : Convs] : r.inline => r.dest \in DMs}

TypeOK ==
    /\ active \in Convs
    /\ log \in [Convs -> SUBSET Lines]
    /\ unread \in [Convs -> Nat]
    /\ screen \subseteq Lines
    /\ shown \in [Sends -> ReceiptLines]
    /\ sends \in [Sends -> SendRecords]
    /\ inbox \subseteq Arrivals
    /\ deliveries \in [Sends -> ReceiptLines]
    /\ correlated \subseteq Sends
    /\ seen \subseteq Lines
    /\ cleared \subseteq Lines

-----------------------------------------------------------------------------
(* The store *)

\* DeliveryForMessage: the receipt of a message, if its anchor is registered.
Receipt(s) == IF s \in correlated THEN deliveries[s] ELSE NoReceipt

\* A fault: a message of ours is filed under its sender.
FaultFiledOwn(c) == IF c \in DMs THEN OwnDM ELSE c

\* convIDForMessage for a message of ours to conversation c: without an identity
\* the store takes it for a message from a peer with our address.
FiledOwn(c) == IF c \in DMs /\ ~IdentityKnown THEN OwnDM ELSE c

\* A fault: a message that is read as it arrives takes one off the count.
FaultUnreadAfter(c) == [unread EXCEPT ![c] = IF c # active THEN @ + 1 ELSE @ - 1]

\* AddMessage's count for a message filed in c.
UnreadAfter(c) == IF c # active THEN [unread EXCEPT ![c] = @ + 1] ELSE unread

-----------------------------------------------------------------------------
(* The screen *)

\* reloadScrollback: clear, replay the active conversation, and draw each
\* receipt beneath the message it confirms.
Reload ==
    /\ screen' = log'[active']
    /\ shown' = [s \in Sends |-> IF Chat(s) \in log'[active'] THEN Receipt(s)' ELSE NoReceipt]
    /\ seen' = seen \cup screen'

\* A line appended to the screen.
Append(lines) ==
    /\ screen' = screen \cup lines
    /\ seen' = seen \cup lines
    /\ UNCHANGED shown

\* New and PreloadFromDB: old messages are unread in all conversations but
\* broadcast, which is active and drawn.  Without an identity nothing is found.
Init ==
    /\ active = Broadcast
    /\ \E place \in [History -> IF IdentityKnown THEN Convs ELSE {}] :
         /\ log = [c \in Convs |-> {Chat(h) : h \in {h \in History : place[h] = c}}]
         /\ unread = [c \in Convs |-> IF c = Broadcast THEN 0
                                      ELSE Cardinality({h \in History : place[h] = c})]
    /\ screen = log[Broadcast]
    /\ shown = [s \in Sends |-> NoReceipt]
    /\ sends = [s \in Sends |-> [stage |-> "idle", inline |-> FALSE,
                                 origin |-> Broadcast, dest |-> Broadcast]]
    /\ inbox = Arrivals
    /\ deliveries = [s \in Sends |-> NoReceipt]
    /\ correlated = {}
    /\ seen = screen
    /\ cleared = {}

-----------------------------------------------------------------------------
(* Commands *)

\* A fault: the new buffer's lines are added to those on the screen.
FaultSwitchBuffer(c) ==
    /\ active' = c
    /\ unread' = [unread EXCEPT ![c] = 0]
    /\ Append(log[c])
    /\ UNCHANGED <<log, sends, inbox, receipts, cleared>>

\* switchBuffer, from /b, /dm, /ch, /close, a click, a buffer key or cycleBuffer.
SwitchBuffer(c) ==
    /\ active' = c
    /\ unread' = [unread EXCEPT ![c] = 0]
    /\ UNCHANGED <<log, sends, inbox, receipts, cleared>>
    /\ Reload

\* A fault: only the screen is cleared.
FaultClear ==
    /\ screen' = {}
    /\ shown' = [s \in Sends |-> NoReceipt]
    /\ cleared' = cleared \cup log[active]
    /\ UNCHANGED <<active, log, unread, sends, inbox, receipts, seen>>

\* /clear: ClearConversation and an empty screen.
Clear ==
    /\ log' = [log EXCEPT ![active] = {}]
    /\ unread' = [unread EXCEPT ![active] = 0]
    /\ screen' = {}
    /\ shown' = [s \in Sends |-> NoReceipt]
    /\ cleared' = cleared \cup log[active]
    /\ UNCHANGED <<active, sends, inbox, receipts, seen>>

\* sendMessage: text or /critical, to the active conversation.
SendMessage(s) ==
    /\ sends[s].stage = "idle"
    /\ sends' = [sends EXCEPT ![s] = [stage |-> "flying", inline |-> FALSE,
                                      origin |-> active, dest |-> active]]
    /\ UNCHANGED <<active, log, unread, screen, shown, inbox, receipts, seen, cleared>>

\* sendDirectMessage: /msg to a peer, typed in any conversation.
SendDirectMessage(s, d) ==
    /\ sends[s].stage = "idle"
    /\ sends' = [sends EXCEPT ![s] = [stage |-> "flying", inline |-> TRUE,
                                      origin |-> active, dest |-> d]]
    /\ UNCHANGED <<active, log, unread, screen, shown, inbox, receipts, seen, cleared>>

-----------------------------------------------------------------------------
(* Results and pushes *)

\* A fault: a receipt that arrived before the result waits for the next redraw.
FaultSent(s) ==
    /\ sends[s].stage = "flying" /\ ~sends[s].inline
    /\ sends' = [sends EXCEPT ![s].stage = "sent"]
    /\ log' = [log EXCEPT ![FiledOwn(active)] = @ \cup {Chat(s)}]
    /\ unread' = UnreadAfter(FiledOwn(active))
    /\ correlated' = IF sends[s].dest \in Groups THEN correlated \cup {s} ELSE correlated
    /\ Append({Chat(s)})
    /\ UNCHANGED <<active, inbox, deliveries, cleared>>

\* sendResultMsg of sendMessage.  The line is drawn and filed in whatever
\* conversation is active NOW; only a broadcast has an id receipts refer to; and
\* a receipt that came before the result is drawn by a redraw.
Sent(s) ==
    /\ sends[s].stage = "flying" /\ ~sends[s].inline
    /\ sends' = [sends EXCEPT ![s].stage = "sent"]
    /\ log' = [log EXCEPT ![FiledOwn(active)] = @ \cup {Chat(s)}]
    /\ unread' = UnreadAfter(FiledOwn(active))
    /\ correlated' = IF sends[s].dest \in Groups THEN correlated \cup {s} ELSE correlated
    /\ UNCHANGED <<active, inbox, deliveries, cleared>>
    /\ IF Receipt(s)' # NoReceipt THEN Reload ELSE Append({Chat(s)})

\* sendResultMsg of sendDirectMessage: a note where it was typed, the message in the
\* peer's conversation; the message itself is not drawn, whatever is active.
SentInline(s) ==
    LET note == sends[s].origin
        dm == FiledOwn(sends[s].dest)
    IN  /\ sends[s].stage = "flying" /\ sends[s].inline
        /\ sends' = [sends EXCEPT ![s].stage = "sent"]
        /\ log' = [c \in Convs |-> log[c] \cup (IF c = note THEN {Note(s)} ELSE {})
                                          \cup (IF c = dm THEN {Chat(s)} ELSE {})]
        /\ unread' = UnreadAfter(dm)
        /\ Append(IF note = active THEN {Note(s)} ELSE {})
        /\ UNCHANGED <<active, inbox, receipts, cleared>>

\* A fault: the failure is reported on whatever conversation is active.
FaultSendFailed(s) ==
    /\ sends[s].stage = "flying"
    /\ sends' = [sends EXCEPT ![s].stage = "failed"]
    /\ log' = [log EXCEPT ![active] = @ \cup {Failure(s)}]
    /\ Append({Failure(s)})
    /\ UNCHANGED <<active, unread, inbox, receipts, cleared>>

\* sendResultMsg with an error, also of a message that left before the timeout.
SendFailed(s) ==
    /\ sends[s].stage = "flying"
    /\ sends' = [sends EXCEPT ![s].stage = "failed"]
    /\ log' = [log EXCEPT ![sends[s].origin] = @ \cup {Failure(s)}]
    /\ Append(IF sends[s].origin = active THEN {Failure(s)} ELSE {})
    /\ UNCHANGED <<active, unread, inbox, receipts, cleared>>

\* MsgReceived: a peer's message to conversation c (c is never our own address's).
MsgReceived(a, c) ==
    /\ a \in inbox /\ c # OwnDM
    /\ inbox' = inbox \ {a}
    /\ log' = [log EXCEPT ![c] = @ \cup {Chat(a)}]
    /\ unread' = UnreadAfter(c)
    /\ Append(IF c = active THEN {Chat(a)} ELSE {})
    /\ UNCHANGED <<active, sends, receipts, cleared>>

\* BroadcastDeliveryReceived: a recipient confirms a broadcast that is on its way,
\* sent, or given up by the client after 15 s.
BroadcastDelivery(s, r, status) ==
    /\ sends[s].stage # "idle" /\ ~sends[s].inline /\ sends[s].dest \in Groups
    /\ deliveries' = [deliveries EXCEPT ![s][r] = status]
    /\ UNCHANGED <<active, log, unread, sends, inbox, correlated, cleared>>
    /\ IF active \in Groups THEN Reload ELSE UNCHANGED <<screen, shown, seen>>

-----------------------------------------------------------------------------

Next ==
    \/ \E c \in Convs : SwitchBuffer(c)
    \/ Clear
    \/ \E s \in Sends : SendMessage(s)
    \/ \E s \in Sends, d \in DMs : SendDirectMessage(s, d)
    \/ \E s \in Sends : Sent(s)
    \/ \E s \in Sends : SentInline(s)
    \/ \E s \in Sends : SendFailed(s)
    \/ \E a \in Arrivals, c \in Convs : MsgReceived(a, c)
    \/ \E s \in Sends, r \in Recipients, status \in {"delivered", "failed"} :
         BroadcastDelivery(s, r, status)

Spec == Init /\ [][Next]_vars

-----------------------------------------------------------------------------
(* Correctness *)

\* The chat line of a /msg to the peer whose conversation is open: the one kind of
\* line the loop files without drawing it.
Undrawn == {Chat(s) : s \in {s \in Sends : sends[s].inline}}

\* Drawing line by line and redrawing from the store give the same screen, whatever
\* arrives in between: nothing of another conversation is on the screen and nothing
\* of this one is missing from it (handlers of MsgReceived, sendResultMsg and
\* switchBuffer against reloadScrollback).
ScreenIsTranscript ==
    IdentityKnown =>
        /\ screen \subseteq log[active]
        /\ log[active] \ screen \subseteq Undrawn
        /\ active \in Groups => screen = log[active]

\* A receipt is drawn beneath the message it confirms and nowhere else, and in a
\* broadcast or channel conversation it is up to date, also when it overtook the
\* result of the send (RegisterSentBroadcast, RecordBroadcastDelivery and the
\* repaint in the sendResultMsg and BroadcastDeliveryReceived handlers).
ReceiptsAnchored ==
    \A s \in Sends :
        /\ Chat(s) \notin screen => shown[s] = NoReceipt
        /\ active \in Groups /\ Chat(s) \in screen => shown[s] = Receipt(s)

\* Messages of conversation c that were never on the screen.
Unseen(c) == {x \in Messages : Chat(x) \in log[c] \ seen}

\* The unread count of a background conversation is the number of its messages the
\* user has not seen, and the open one has none: AddMessage counts against
\* store.ActiveConvID and the loop draws against m.activeConv.
UnreadIsUnseen ==
    IdentityKnown =>
        /\ unread[active] = 0
        /\ \A c \in Convs : unread[c] <= Cardinality(Unseen(c))
        /\ \A c \in Groups : unread[c] = Cardinality(Unseen(c))

\* What /clear removed never comes back, whatever is redrawn afterwards
\* (store.go:286: "survives every later transcript rebuild").
ClearSurvives ==
    \A x \in cleared : x \notin screen /\ \A c \in Convs : x \notin log[c]

\* The end of every send is on record: a failure, or the note of an inline message,
\* in the conversation where it was typed; and a sent message is filed once, an
\* inline one with the peer it went to.
OutcomeOnRecord ==
    \A s \in Sends :
        LET rec == sends[s]
            filed == {c \in Convs : Chat(s) \in log[c]}
        IN  /\ rec.stage = "failed" => Failure(s) \in log[rec.origin] \cup cleared
            /\ rec.stage = "sent" /\ rec.inline => Note(s) \in log[rec.origin] \cup cleared
            /\ rec.stage = "sent" /\ Chat(s) \notin cleared =>
                 \E c \in Convs : filed = {c} /\ (rec.inline => c = FiledOwn(rec.dest))

\* A line leaves the screen only when the user switches or clears: no result, push
\* or receipt takes away what the user is reading.
NothingVanishes ==
    [][IdentityKnown /\ active' = active /\ log'[active] # {} => screen \subseteq screen']_vars

-----------------------------------------------------------------------------
(* What the repository's documents say and the program does not do *)

\* README.md:99 has a buffer per conversation: a sent message is filed in the one it
\* was sent to.
SentWhereTyped ==
    \A s \in Sends, c \in Convs : Chat(s) \in log[c] => c = sends[s].dest
=============================================================================
