------------------------ MODULE ConversationsProofs ------------------------
(***************************************************************************)
(* For any conversations, sends, arrivals and recipients: the screen is    *)
(* the transcript of the active conversation, receipts stay beneath their  *)
(* messages and cleared lines stay away.  The inductive invariant adds     *)
(* that a line has one home and that what is still to come is nowhere yet. *)
(*                                                                         *)
(* On top of it: the end of every send stays on record (Recorded), and     *)
(* unread counts follow what was never on the screen (SeenOnRecord).  At   *)
(* the end: a user who waits for results finds texts where they were sent. *)
(***************************************************************************)
EXTENDS Conversations, FiniteSetTheorems, TLAPS

\* A line is filed in one conversation only.
OneHome == \A c, d \in Convs : c # d => log[c] \cap log[d] = {}

\* What may still be filed has left no line: not in the store, on the screen or
\* among the cleared lines.
Absent(x) == x \notin screen /\ x \notin cleared /\ \A c \in Convs : x \notin log[c]

StillToCome ==
    /\ \A s \in Sends : sends[s].stage \in {"idle", "flying"} =>
         Absent(Chat(s)) /\ Absent(Note(s)) /\ Absent(Failure(s))
    /\ \A a \in inbox : Absent(Chat(a))

IInv ==
    /\ TypeOK
    /\ OneHome
    /\ StillToCome
    /\ ScreenIsTranscript
    /\ ReceiptsAnchored
    /\ ClearSurvives

-----------------------------------------------------------------------------
(* Lines and redraws *)

\* Lines of different kinds, or of different messages, are different.
LEMMA LinesDiffer ==
    ASSUME NEW x, NEW y
    PROVE  /\ Chat(x) = Chat(y) => x = y
           /\ Note(x) = Note(y) => x = y
           /\ Failure(x) = Failure(y) => x = y
           /\ Chat(x) # Note(y) /\ Chat(x) # Failure(y) /\ Note(x) # Failure(y)
  BY DEF Chat, Note, Failure

\* The lines of sends and arrivals are lines.
LEMMA LinesTyped ==
    /\ \A x \in Messages : Chat(x) \in Lines
    /\ \A s \in Sends : Chat(s) \in Lines /\ Note(s) \in Lines /\ Failure(s) \in Lines
    /\ \A a \in Arrivals : Chat(a) \in Lines
  BY DEF Chat, Note, Failure, Lines, Messages

LEMMA NoReceiptTyped == NoReceipt \in ReceiptLines
  BY DEF NoReceipt, ReceiptLines

\* A message of ours is filed in a conversation.
LEMMA FiledOwnTyped ==
    \A c \in Convs : FiledOwn(c) \in Convs /\ (IdentityKnown => FiledOwn(c) = c)
  BY ConversationsAssumption DEF FiledOwn, Convs

\* The unread counts stay numbers.
LEMMA UnreadAfterTyped ==
    ASSUME TypeOK, NEW c \in Convs
    PROVE  UnreadAfter(c) \in [Convs -> Nat]
  BY DEF TypeOK, UnreadAfter

\* A redraw shows the transcript of the active conversation, with its receipts.
LEMMA ReloadShows ==
    ASSUME TypeOK, Reload,
           active' \in Convs, log' \in [Convs -> SUBSET Lines],
           deliveries' \in [Sends -> ReceiptLines]
    PROVE  /\ screen' \subseteq Lines /\ seen' \subseteq Lines
           /\ shown' \in [Sends -> ReceiptLines]
           /\ ScreenIsTranscript'
           /\ ReceiptsAnchored'
<1>1. screen' = log'[active'] BY DEF Reload
<1>2. screen' \subseteq Lines /\ seen' \subseteq Lines BY <1>1 DEF Reload, TypeOK
<1>3. \A s \in Sends : Receipt(s)' \in ReceiptLines BY NoReceiptTyped DEF Receipt
<1>4. shown' = [s \in Sends |-> IF Chat(s) \in log'[active'] THEN Receipt(s)' ELSE NoReceipt]
  BY DEF Reload
<1>5. shown' \in [Sends -> ReceiptLines] BY <1>3, <1>4, NoReceiptTyped
<1>6. ScreenIsTranscript' BY <1>1 DEF ScreenIsTranscript
<1>7. ReceiptsAnchored' BY <1>1, <1>4 DEF ReceiptsAnchored
<1> QED BY <1>2, <1>5, <1>6, <1>7

\* Appending lines keeps the screen a set of lines.
LEMMA AppendTyped ==
    ASSUME TypeOK, NEW L \in SUBSET Lines, Append(L)
    PROVE  /\ screen' \subseteq Lines /\ seen' \subseteq Lines
           /\ shown' \in [Sends -> ReceiptLines]
  BY DEF TypeOK, Append

\* Filing a new line x with h leaves every other line where it was.
LEMMA Filing ==
    ASSUME IInv, NEW x \in Lines, NEW h \in Convs, Absent(x),
           log' = [log EXCEPT ![h] = @ \cup {x}]
    PROVE  /\ log' \in [Convs -> SUBSET Lines]
           /\ OneHome'
           /\ \A c \in Convs : log[c] \subseteq log'[c] /\ log'[c] \subseteq log[c] \cup {x}
           /\ \A c \in Convs : x \in log'[c] => c = h
<1>1. log \in [Convs -> SUBSET Lines] BY DEF IInv, TypeOK
<1>2. \A c \in Convs : log'[c] = IF c = h THEN log[c] \cup {x} ELSE log[c] BY <1>1
<1>3. log' \in [Convs -> SUBSET Lines] BY <1>1
<1>4. \A c \in Convs : x \notin log[c] BY DEF Absent
<1>5. OneHome' BY <1>2, <1>4 DEF IInv, OneHome
<1> QED BY <1>2, <1>3, <1>4, <1>5

-----------------------------------------------------------------------------
(* The initial state and the steps *)

LEMMA InitIInv == Init => IInv
<1> SUFFICES ASSUME Init PROVE IInv OBVIOUS
<1> PICK place \in [History -> IF IdentityKnown THEN Convs ELSE {}] :
      /\ log = [c \in Convs |-> {Chat(h) : h \in {h \in History : place[h] = c}}]
      /\ unread = [c \in Convs |-> IF c = Broadcast THEN 0
                                   ELSE Cardinality({h \in History : place[h] = c})]
  BY DEF Init
<1>1. Broadcast \in Convs BY DEF Convs, Groups
<1>2. \A c \in Convs : log[c] \subseteq {Chat(h) : h \in History} OBVIOUS
<1>3. {Chat(h) : h \in History} \subseteq Lines BY LinesTyped DEF Messages
<1>4. \A c \in Convs : Cardinality({h \in History : place[h] = c}) \in Nat
  <2> TAKE c \in Convs
  <2>1. IsFiniteSet({h \in History : place[h] = c})
    BY ConversationsAssumption, FS_Subset
  <2> QED BY <2>1, FS_CardinalityType
<1>5. unread \in [Convs -> Nat] BY <1>4
<1>6. sends \in [Sends -> SendRecords]
  BY <1>1 DEF Init, SendRecords
<1>7. TypeOK
  BY <1>1, <1>2, <1>3, <1>5, <1>6, NoReceiptTyped DEF Init, TypeOK
<1>8. OneHome
  <2> SUFFICES ASSUME NEW c \in Convs, NEW d \in Convs, NEW x, x \in log[c], x \in log[d]
               PROVE  c = d
    BY DEF OneHome
  <2>1. PICK h \in History : x = Chat(h) /\ place[h] = c OBVIOUS
  <2>2. PICK g \in History : x = Chat(g) /\ place[g] = d OBVIOUS
  <2> QED BY <2>1, <2>2, LinesDiffer
<1>9. \A x : x \notin {Chat(h) : h \in History} => Absent(x)
  BY <1>1, <1>2 DEF Init, Absent
<1>10. StillToCome
  <2>1. \A s \in Sends : /\ Chat(s) \notin {Chat(h) : h \in History}
                         /\ Note(s) \notin {Chat(h) : h \in History}
                         /\ Failure(s) \notin {Chat(h) : h \in History}
    BY LinesDiffer, ConversationsAssumption
  <2>2. \A a \in inbox : Chat(a) \notin {Chat(h) : h \in History}
    BY LinesDiffer, ConversationsAssumption DEF Init
  <2> QED BY <1>9, <2>1, <2>2 DEF StillToCome
<1>11. ScreenIsTranscript BY DEF Init, ScreenIsTranscript
<1>12. ReceiptsAnchored BY DEF Init, ReceiptsAnchored, Receipt
<1>13. ClearSurvives BY DEF Init, ClearSurvives
<1> QED BY <1>7, <1>8, <1>10, <1>11, <1>12, <1>13 DEF IInv

\* A switch redraws; the store keeps its lines.
LEMMA SwitchBufferStep ==
    ASSUME IInv, NEW c \in Convs, SwitchBuffer(c)
    PROVE  IInv'
<1>1. TypeOK /\ active' = c /\ log' = log /\ sends' = sends /\ inbox' = inbox
      /\ deliveries' = deliveries /\ correlated' = correlated /\ cleared' = cleared /\ Reload
  BY DEF IInv, SwitchBuffer, receipts
<1>2. unread' \in [Convs -> Nat] BY DEF IInv, TypeOK, SwitchBuffer
<1>3. /\ screen' \subseteq Lines /\ seen' \subseteq Lines
      /\ shown' \in [Sends -> ReceiptLines]
      /\ ScreenIsTranscript' /\ ReceiptsAnchored'
  BY <1>1, ReloadShows DEF TypeOK
<1>4. TypeOK' BY <1>1, <1>2, <1>3 DEF TypeOK
<1>5. OneHome' BY <1>1 DEF IInv, OneHome
<1>6. screen' = log[c] BY <1>1 DEF Reload
<1>7. \A x : Absent(x) => Absent(x)' BY <1>1, <1>6 DEF Absent
<1>8. StillToCome' BY <1>1, <1>7 DEF IInv, StillToCome
<1>9. ClearSurvives' BY <1>1, <1>6 DEF IInv, ClearSurvives
<1> QED BY <1>3, <1>4, <1>5, <1>8, <1>9 DEF IInv

\* A clear takes lines with one home out of it.
LEMMA ClearStep ==
    ASSUME IInv, Clear
    PROVE  IInv'
<1>1. TypeOK /\ active' = active /\ sends' = sends /\ inbox' = inbox
      /\ deliveries' = deliveries /\ correlated' = correlated /\ seen' = seen
      /\ screen' = {} /\ shown' = [s \in Sends |-> NoReceipt]
      /\ log' = [log EXCEPT ![active] = {}] /\ cleared' = cleared \cup log[active]
  BY DEF IInv, Clear, receipts
<1>2. active \in Convs /\ log \in [Convs -> SUBSET Lines] BY <1>1 DEF TypeOK
<1>3. \A d \in Convs : log'[d] = IF d = active THEN {} ELSE log[d] BY <1>1, <1>2
<1>4. TypeOK' BY <1>1, <1>2, NoReceiptTyped DEF TypeOK, Clear
<1>5. OneHome' BY <1>3 DEF IInv, OneHome
<1>6. \A x : Absent(x) => Absent(x)' BY <1>1, <1>2, <1>3 DEF Absent
<1>7. StillToCome' BY <1>1, <1>6 DEF IInv, StillToCome
<1>8. ScreenIsTranscript' BY <1>1, <1>2, <1>3 DEF ScreenIsTranscript
<1>9. ReceiptsAnchored' BY <1>1 DEF ReceiptsAnchored
<1>10. ClearSurvives' BY <1>1, <1>2, <1>3 DEF IInv, ClearSurvives, OneHome
<1> QED BY <1>4, <1>5, <1>7, <1>8, <1>9, <1>10 DEF IInv

\* A send that starts changes nothing the invariant relates.
LEMMA SendStarted ==
    ASSUME IInv, NEW s \in Sends, NEW rec \in SendRecords,
           sends[s].stage = "idle", rec.stage = "flying",
           sends' = [sends EXCEPT ![s] = rec],
           UNCHANGED <<active, log, unread, screen, shown, inbox, receipts, seen, cleared>>
    PROVE  IInv'
<1>1. /\ active' = active /\ log' = log /\ unread' = unread /\ screen' = screen
      /\ shown' = shown /\ inbox' = inbox /\ deliveries' = deliveries
      /\ correlated' = correlated /\ seen' = seen /\ cleared' = cleared
  BY DEF receipts
<1>2. TypeOK /\ TypeOK' BY <1>1 DEF IInv, TypeOK
<1>3. \A t \in Sends : sends'[t] = IF t = s THEN rec ELSE sends[t] BY <1>2 DEF TypeOK
<1>4. OneHome' BY <1>1 DEF IInv, OneHome
<1>5. \A x : Absent(x) => Absent(x)' BY <1>1 DEF Absent
<1>6. StillToCome' BY <1>1, <1>3, <1>5 DEF IInv, StillToCome
<1>7. \A c \in Convs : Chat(s) \notin log[c] BY DEF IInv, StillToCome, Absent
<1>8. ScreenIsTranscript'
  <2> SUFFICES ASSUME IdentityKnown, NEW x \in log[active] \ screen PROVE x \in Undrawn'
    BY <1>1 DEF IInv, ScreenIsTranscript
  <2>1. active \in Convs BY <1>2 DEF TypeOK
  <2>2. PICK t \in Sends : x = Chat(t) /\ sends[t].inline
    BY DEF IInv, ScreenIsTranscript, Undrawn
  <2>3. t # s BY <1>7, <2>1, <2>2
  <2> QED BY <1>3, <2>2, <2>3 DEF Undrawn
<1>9. ReceiptsAnchored' BY <1>1 DEF IInv, ReceiptsAnchored, Receipt
<1>10. ClearSurvives' BY <1>1 DEF IInv, ClearSurvives
<1> QED BY <1>2, <1>4, <1>6, <1>8, <1>9, <1>10 DEF IInv

LEMMA SendMessageStep ==
    ASSUME IInv, NEW s \in Sends, SendMessage(s)
    PROVE  IInv'
<1> DEFINE rec == [stage |-> "flying", inline |-> FALSE, origin |-> active, dest |-> active]
<1>1. rec \in SendRecords /\ rec.stage = "flying" BY DEF IInv, TypeOK, SendRecords
<1>2. /\ sends[s].stage = "idle" /\ sends' = [sends EXCEPT ![s] = rec]
      /\ UNCHANGED <<active, log, unread, screen, shown, inbox, receipts, seen, cleared>>
  BY DEF SendMessage
<1> HIDE DEF rec
<1> QED BY <1>1, <1>2, SendStarted

LEMMA SendDirectMessageStep ==
    ASSUME IInv, NEW s \in Sends, NEW d \in DMs, SendDirectMessage(s, d)
    PROVE  IInv'
<1> DEFINE rec == [stage |-> "flying", inline |-> TRUE, origin |-> active, dest |-> d]
<1>1. rec \in SendRecords /\ rec.stage = "flying" BY DEF IInv, TypeOK, SendRecords, Convs
<1>2. /\ sends[s].stage = "idle" /\ sends' = [sends EXCEPT ![s] = rec]
      /\ UNCHANGED <<active, log, unread, screen, shown, inbox, receipts, seen, cleared>>
  BY DEF SendDirectMessage
<1> HIDE DEF rec
<1> QED BY <1>1, <1>2, SendStarted

\* Filing a new line and appending it to the screen when its conversation is open.
LEMMA FileAndAppend ==
    ASSUME IInv, NEW x \in Lines, NEW h \in Convs, NEW L \in {{}, {x}}, Absent(x),
           log' = [log EXCEPT ![h] = @ \cup {x}], Append(L),
           active' = active, cleared' = cleared, Undrawn' = Undrawn,
           IdentityKnown => (L = {x} <=> h = active)
    PROVE  /\ OneHome' /\ ClearSurvives' /\ ScreenIsTranscript'
           /\ \A y : y # x /\ Absent(y) => Absent(y)'
<1>1. /\ OneHome'
      /\ \A c \in Convs : log[c] \subseteq log'[c] /\ log'[c] \subseteq log[c] \cup {x}
      /\ \A c \in Convs : x \in log'[c] => c = h
  BY Filing
<1>2. screen' = screen \cup L BY DEF Append
<1>3. \A y : y # x /\ Absent(y) => Absent(y)' BY <1>1, <1>2 DEF Absent
<1>4. ClearSurvives' BY <1>1, <1>2 DEF IInv, ClearSurvives, Absent
<1>5. x \in log'[h] BY DEF IInv, TypeOK
<1>6. active \in Convs BY DEF IInv, TypeOK
<1>7. ScreenIsTranscript'
  <2> SUFFICES ASSUME IdentityKnown
               PROVE  /\ screen' \subseteq log'[active]
                      /\ log'[active] \ screen' \subseteq Undrawn
                      /\ active \in Groups => screen' = log'[active]
    BY DEF ScreenIsTranscript
  <2>1. /\ screen \subseteq log[active]
        /\ log[active] \ screen \subseteq Undrawn
        /\ active \in Groups => screen = log[active]
    BY DEF IInv, ScreenIsTranscript
  <2>2. CASE h = active BY <1>1, <1>2, <1>5, <1>6, <2>1, <2>2
  <2>3. CASE h # active
    <3>1. L = {} BY <2>3
    <3>2. log'[active] = log[active] BY <1>1, <1>6, <2>3
    <3> QED BY <1>2, <2>1, <3>1, <3>2
  <2> QED BY <2>2, <2>3
<1> QED BY <1>1, <1>3, <1>4, <1>7

\* The end of a send changes its stage and nothing else about the sends.
LEMMA SendEnds ==
    ASSUME TypeOK, NEW s \in Sends, NEW st \in {"sent", "failed"},
           sends' = [sends EXCEPT ![s].stage = st]
    PROVE  /\ sends' \in [Sends -> SendRecords]
           /\ sends'[s].stage = st
           /\ \A t \in Sends : t # s => sends'[t] = sends[t]
           /\ Undrawn' = Undrawn
<1>1. sends \in [Sends -> SendRecords] BY DEF TypeOK
<1>2. \A t \in Sends : t # s => sends'[t] = sends[t] BY <1>1
<1>3. sends'[s] = [sends[s] EXCEPT !.stage = st] BY <1>1
<1>4. sends'[s] \in SendRecords /\ sends'[s].stage = st /\ sends'[s].inline = sends[s].inline
  BY <1>1, <1>3 DEF SendRecords
<1>5. sends' \in [Sends -> SendRecords] BY <1>1, <1>2, <1>4
<1>6. \A t \in Sends : sends'[t].inline = sends[t].inline BY <1>2, <1>4
<1>7. Undrawn' = Undrawn BY <1>6 DEF Undrawn
<1> QED BY <1>2, <1>4, <1>5, <1>7

\* When send s ends with line x of its own, the others' lines are still absent.
LEMMA OthersStillToCome ==
    ASSUME IInv, NEW s \in Sends, NEW x \in {Chat(s), Failure(s)},
           sends'[s].stage \in {"sent", "failed"},
           \A t \in Sends : t # s => sends'[t] = sends[t],
           inbox' = inbox,
           \A y : y # x /\ Absent(y) => Absent(y)'
    PROVE  StillToCome'
<1>1. \A t \in Sends : t # s => Chat(t) # x /\ Note(t) # x /\ Failure(t) # x
  BY LinesDiffer
<1>2. \A a \in inbox : Chat(a) # x
  BY LinesDiffer, ConversationsAssumption DEF IInv, TypeOK
<1> QED BY <1>1, <1>2 DEF IInv, StillToCome

\* A plain send that succeeded: appended, or redrawn with the receipts that came first.
LEMMA SentStep ==
    ASSUME IInv, NEW s \in Sends, Sent(s)
    PROVE  IInv'
<1> DEFINE x == Chat(s)
           h == FiledOwn(active)
<1>1. /\ TypeOK /\ active \in Convs /\ h \in Convs /\ (IdentityKnown => h = active)
      /\ x \in Lines /\ {x} \subseteq Lines
  BY FiledOwnTyped, LinesTyped DEF IInv, TypeOK
<1>2. Absent(x) BY DEF IInv, StillToCome, Sent
<1>3. /\ sends' = [sends EXCEPT ![s].stage = "sent"]
      /\ log' = [log EXCEPT ![h] = @ \cup {x}]
      /\ unread' = UnreadAfter(h)
      /\ correlated' \in {correlated, correlated \cup {s}}
      /\ active' = active /\ inbox' = inbox /\ deliveries' = deliveries
      /\ cleared' = cleared
      /\ (Reload /\ Receipt(s)' # NoReceipt) \/ (Append({x}) /\ Receipt(s)' = NoReceipt)
  BY DEF Sent
<1> HIDE DEF x, h
<1>4. /\ log' \in [Convs -> SUBSET Lines] /\ OneHome'
      /\ \A c \in Convs : log[c] \subseteq log'[c] /\ log'[c] \subseteq log[c] \cup {x}
  BY <1>1, <1>2, <1>3, Filing
<1>5. /\ sends' \in [Sends -> SendRecords] /\ sends'[s].stage = "sent"
      /\ \A t \in Sends : t # s => sends'[t] = sends[t]
      /\ Undrawn' = Undrawn
  BY <1>1, <1>3, SendEnds
<1>6. unread' \in [Convs -> Nat] BY <1>1, <1>3, UnreadAfterTyped
<1>7. correlated' \subseteq Sends /\ \A t \in Sends : t # s => Receipt(t)' = Receipt(t)
  BY <1>1, <1>3 DEF TypeOK, Receipt
<1>8. CASE Reload /\ Receipt(s)' # NoReceipt
  <2>1. /\ screen' \subseteq Lines /\ seen' \subseteq Lines
        /\ shown' \in [Sends -> ReceiptLines]
        /\ ScreenIsTranscript' /\ ReceiptsAnchored'
    BY <1>1, <1>3, <1>4, <1>8, ReloadShows DEF TypeOK
  <2>2. TypeOK' BY <1>1, <1>3, <1>4, <1>5, <1>6, <1>7, <2>1 DEF TypeOK
  <2>3. screen' = log'[active] BY <1>3, <1>8 DEF Reload
  <2>4. \A y : y # x /\ Absent(y) => Absent(y)' BY <1>1, <1>3, <1>4, <2>3 DEF Absent
  <2>5. StillToCome' BY <1>3, <1>5, <2>4, OthersStillToCome DEF x
  <2>6. ClearSurvives' BY <1>1, <1>2, <1>3, <1>4, <2>3 DEF IInv, ClearSurvives, Absent
  <2> QED BY <1>4, <2>1, <2>2, <2>5, <2>6 DEF IInv
<1>9. CASE Append({x}) /\ Receipt(s)' = NoReceipt
  <2>1. /\ screen' \subseteq Lines /\ seen' \subseteq Lines
        /\ shown' \in [Sends -> ReceiptLines]
    BY <1>1, <1>9, AppendTyped
  <2>2. TypeOK' BY <1>1, <1>3, <1>4, <1>5, <1>6, <1>7, <2>1 DEF TypeOK
  <2>3. /\ OneHome' /\ ClearSurvives' /\ ScreenIsTranscript'
        /\ \A y : y # x /\ Absent(y) => Absent(y)'
    BY <1>1, <1>2, <1>3, <1>5, <1>9, FileAndAppend
  <2>4. StillToCome' BY <1>3, <1>5, <2>3, OthersStillToCome DEF x
  <2>5. ReceiptsAnchored'
    <3>1. screen' = screen \cup {x} /\ shown' = shown BY <1>9 DEF Append
    <3>2. shown[s] = NoReceipt BY <1>2 DEF IInv, ReceiptsAnchored, Absent, x
    <3>3. \A t \in Sends : t # s => Chat(t) # x BY LinesDiffer DEF x
    <3> QED BY <1>3, <1>7, <1>9, <3>1, <3>2, <3>3 DEF IInv, ReceiptsAnchored, x
  <2> QED BY <2>2, <2>3, <2>4, <2>5 DEF IInv
<1> QED BY <1>3, <1>8, <1>9

\* A failure is filed and shown where the send was typed.
LEMMA SendFailedStep ==
    ASSUME IInv, NEW s \in Sends, SendFailed(s)
    PROVE  IInv'
<1> DEFINE x == Failure(s)
           h == sends[s].origin
           L == IF h = active THEN {x} ELSE {}
<1>1. /\ TypeOK /\ active \in Convs /\ h \in Convs /\ x \in Lines
      /\ L \in SUBSET Lines /\ L \in {{}, {x}} /\ (L = {x} <=> h = active)
  BY LinesTyped DEF IInv, TypeOK, SendRecords
<1>2. Absent(x) BY DEF IInv, StillToCome, SendFailed
<1>3. /\ sends' = [sends EXCEPT ![s].stage = "failed"]
      /\ log' = [log EXCEPT ![h] = @ \cup {x}]
      /\ Append(L)
      /\ active' = active /\ unread' = unread /\ inbox' = inbox
      /\ deliveries' = deliveries /\ correlated' = correlated /\ cleared' = cleared
  BY DEF SendFailed, receipts
<1> HIDE DEF x, h, L
<1>4. log' \in [Convs -> SUBSET Lines] BY <1>1, <1>2, <1>3, Filing
<1>5. /\ sends' \in [Sends -> SendRecords] /\ sends'[s].stage = "failed"
      /\ \A t \in Sends : t # s => sends'[t] = sends[t]
      /\ Undrawn' = Undrawn
  BY <1>1, <1>3, SendEnds
<1>6. /\ screen' \subseteq Lines /\ seen' \subseteq Lines
      /\ shown' \in [Sends -> ReceiptLines]
  BY <1>1, <1>3, AppendTyped
<1>7. TypeOK' BY <1>1, <1>3, <1>4, <1>5, <1>6 DEF TypeOK
<1>8. /\ OneHome' /\ ClearSurvives' /\ ScreenIsTranscript'
      /\ \A y : y # x /\ Absent(y) => Absent(y)'
  BY <1>1, <1>2, <1>3, <1>5, FileAndAppend
<1>9. StillToCome' BY <1>3, <1>5, <1>8, OthersStillToCome DEF x
<1>10. ReceiptsAnchored'
  <2>1. \A t \in Sends : Chat(t) # x BY LinesDiffer DEF x
  <2>2. screen' = screen \cup L /\ shown' = shown BY <1>3 DEF Append
  <2> QED BY <1>1, <1>3, <2>1, <2>2 DEF IInv, ReceiptsAnchored, Receipt
<1> QED BY <1>7, <1>8, <1>9, <1>10 DEF IInv

\* An inline send files two new lines, and shows the note where it was typed.
LEMMA SentInlineStep ==
    ASSUME IInv, NEW s \in Sends, SentInline(s)
    PROVE  IInv'
<1> DEFINE x == Chat(s)
           n == Note(s)
           note == sends[s].origin
           dm == FiledOwn(sends[s].dest)
           L == IF note = active THEN {n} ELSE {}
<1>1. /\ TypeOK /\ active \in Convs /\ note \in Convs /\ dm \in Convs
      /\ log \in [Convs -> SUBSET Lines]
      /\ x \in Lines /\ n \in Lines /\ x # n /\ L \in SUBSET Lines
      /\ (note = active => L = {n}) /\ (note # active => L = {})
  BY FiledOwnTyped, LinesTyped, LinesDiffer DEF IInv, TypeOK, SendRecords
<1>2. Absent(x) /\ Absent(n) BY DEF IInv, StillToCome, SentInline
<1>3. /\ sends' = [sends EXCEPT ![s].stage = "sent"] /\ sends[s].inline
      /\ log' = [c \in Convs |-> log[c] \cup (IF c = note THEN {n} ELSE {})
                                        \cup (IF c = dm THEN {x} ELSE {})]
      /\ unread' = UnreadAfter(dm)
      /\ Append(L)
      /\ active' = active /\ inbox' = inbox
      /\ deliveries' = deliveries /\ correlated' = correlated /\ cleared' = cleared
  BY DEF SentInline, receipts
<1>4. x \in Undrawn BY <1>3 DEF Undrawn
<1>5. \A t \in Sends : Chat(t) # n BY LinesDiffer
<1> HIDE DEF x, n, note, dm, L
<1>6. /\ log' \in [Convs -> SUBSET Lines]
      /\ \A c \in Convs : log[c] \subseteq log'[c] /\ log'[c] \subseteq log[c] \cup {x, n}
      /\ \A c \in Convs : (x \in log'[c] => c = dm) /\ (n \in log'[c] <=> c = note)
  BY <1>1, <1>2, <1>3 DEF Absent
<1>7. /\ sends' \in [Sends -> SendRecords] /\ sends'[s].stage = "sent"
      /\ \A t \in Sends : t # s => sends'[t] = sends[t]
      /\ Undrawn' = Undrawn
  BY <1>1, <1>3, SendEnds
<1>8. screen' = screen \cup L /\ shown' = shown BY <1>3 DEF Append
<1>9. /\ screen' \subseteq Lines /\ seen' \subseteq Lines
      /\ shown' \in [Sends -> ReceiptLines]
  BY <1>1, <1>3, AppendTyped
<1>10. unread' \in [Convs -> Nat] BY <1>1, <1>3, UnreadAfterTyped
<1>11. TypeOK' BY <1>1, <1>3, <1>6, <1>7, <1>9, <1>10 DEF TypeOK
<1>12. OneHome'
  <2> SUFFICES ASSUME NEW c \in Convs, NEW d \in Convs, c # d, NEW y,
                      y \in log'[c], y \in log'[d]
               PROVE  FALSE
    BY DEF OneHome
  <2>1. y # x /\ y # n BY <1>6
  <2>2. y \in log[c] /\ y \in log[d] BY <1>6, <2>1
  <2> QED BY <2>2 DEF IInv, OneHome
<1>13. \A y : y # x /\ y # n /\ Absent(y) => Absent(y)' BY <1>1, <1>3, <1>6, <1>8 DEF Absent
<1>14. StillToCome'
  <2>1. \A t \in Sends : t # s => /\ Chat(t) \notin {x, n} /\ Note(t) \notin {x, n}
                                  /\ Failure(t) \notin {x, n}
    BY LinesDiffer DEF x, n
  <2>2. \A a \in inbox : Chat(a) \notin {x, n}
    BY LinesDiffer, ConversationsAssumption DEF IInv, TypeOK, x, n
  <2> QED BY <1>3, <1>7, <1>13, <2>1, <2>2 DEF IInv, StillToCome
<1>15. ScreenIsTranscript'
  <2> SUFFICES ASSUME IdentityKnown
               PROVE  /\ screen' \subseteq log'[active]
                      /\ log'[active] \ screen' \subseteq Undrawn
                      /\ active \in Groups => screen' = log'[active]
    BY <1>3, <1>7 DEF ScreenIsTranscript
  <2>1. /\ screen \subseteq log[active]
        /\ log[active] \ screen \subseteq Undrawn
        /\ active \in Groups => screen = log[active]
    BY DEF IInv, ScreenIsTranscript
  <2>2. L \subseteq log'[active] BY <1>1, <1>6
  <2>3. n \in log'[active] => n \in L BY <1>1, <1>6
  <2>4. screen' \subseteq log'[active] BY <1>1, <1>6, <1>8, <2>1, <2>2
  <2>5. log'[active] \ screen' \subseteq Undrawn BY <1>1, <1>4, <1>6, <1>8, <2>1, <2>3
  <2>6. ASSUME active \in Groups PROVE screen' = log'[active]
    <3>1. dm \in DMs
      BY <1>3, ConversationsAssumption DEF IInv, TypeOK, SendRecords, FiledOwn, dm
    <3>2. x \notin log'[active] BY <1>1, <1>6, <2>6, <3>1, ConversationsAssumption
    <3> QED BY <1>1, <1>6, <1>8, <2>1, <2>2, <2>3, <2>6, <3>2
  <2> QED BY <2>4, <2>5, <2>6
<1>16. ReceiptsAnchored' BY <1>1, <1>3, <1>5, <1>8 DEF IInv, ReceiptsAnchored, Receipt
<1>17. ClearSurvives' BY <1>1, <1>2, <1>3, <1>6, <1>8 DEF IInv, ClearSurvives, Absent
<1> QED BY <1>11, <1>12, <1>14, <1>15, <1>16, <1>17 DEF IInv

\* A push is filed, and shown when its conversation is open.
LEMMA MsgReceivedStep ==
    ASSUME IInv, NEW a \in Arrivals, NEW h \in Convs, MsgReceived(a, h)
    PROVE  IInv'
<1> DEFINE x == Chat(a)
           L == IF h = active THEN {x} ELSE {}
<1>1. /\ TypeOK /\ active \in Convs /\ x \in Lines
      /\ L \in SUBSET Lines /\ L \in {{}, {x}} /\ (L = {x} <=> h = active)
  BY LinesTyped DEF IInv, TypeOK
<1>2. Absent(x) BY DEF IInv, StillToCome, MsgReceived
<1>3. /\ log' = [log EXCEPT ![h] = @ \cup {x}]
      /\ unread' = UnreadAfter(h)
      /\ Append(L)
      /\ inbox' = inbox \ {a}
      /\ active' = active /\ sends' = sends
      /\ deliveries' = deliveries /\ correlated' = correlated /\ cleared' = cleared
  BY DEF MsgReceived, receipts
<1>4. Undrawn' = Undrawn BY <1>3 DEF Undrawn
<1>5. \A s \in Sends : Chat(s) # x /\ Note(s) # x /\ Failure(s) # x
  BY LinesDiffer, ConversationsAssumption
<1>6. \A b \in inbox' : Chat(b) # x BY <1>3, LinesDiffer
<1> HIDE DEF x, L
<1>7. log' \in [Convs -> SUBSET Lines] BY <1>1, <1>2, <1>3, Filing
<1>8. unread' \in [Convs -> Nat] BY <1>1, <1>3, UnreadAfterTyped
<1>9. /\ screen' \subseteq Lines /\ seen' \subseteq Lines
      /\ shown' \in [Sends -> ReceiptLines]
  BY <1>1, <1>3, AppendTyped
<1>10. TypeOK' BY <1>1, <1>3, <1>7, <1>8, <1>9 DEF TypeOK
<1>11. /\ OneHome' /\ ClearSurvives' /\ ScreenIsTranscript'
       /\ \A y : y # x /\ Absent(y) => Absent(y)'
  BY <1>1, <1>2, <1>3, <1>4, FileAndAppend
<1>12. StillToCome' BY <1>3, <1>5, <1>6, <1>11 DEF IInv, StillToCome
<1>13. ReceiptsAnchored'
  <2>1. screen' = screen \cup L /\ shown' = shown BY <1>3 DEF Append
  <2> QED BY <1>1, <1>3, <1>5, <2>1 DEF IInv, ReceiptsAnchored, Receipt
<1> QED BY <1>10, <1>11, <1>12, <1>13 DEF IInv

\* A receipt redraws the broadcast and channel conversations, and files nothing.
LEMMA BroadcastDeliveryStep ==
    ASSUME IInv, NEW s \in Sends, NEW r \in Recipients,
           NEW status \in {"delivered", "failed"}, BroadcastDelivery(s, r, status)
    PROVE  IInv'
<1>1. /\ TypeOK /\ active \in Convs
      /\ active' = active /\ log' = log /\ unread' = unread /\ sends' = sends
      /\ inbox' = inbox /\ correlated' = correlated /\ cleared' = cleared
      /\ deliveries' = [deliveries EXCEPT ![s][r] = status]
  BY DEF IInv, TypeOK, BroadcastDelivery
<1>2. deliveries' \in [Sends -> ReceiptLines]
  <2>1. deliveries[s] \in ReceiptLines BY <1>1 DEF TypeOK
  <2>2. [deliveries[s] EXCEPT ![r] = status] \in ReceiptLines BY <2>1 DEF ReceiptLines
  <2> QED BY <1>1, <2>2 DEF TypeOK
<1>3. OneHome' BY <1>1 DEF IInv, OneHome
<1>4. CASE active \in Groups /\ Reload
  <2>1. /\ screen' \subseteq Lines /\ seen' \subseteq Lines
        /\ shown' \in [Sends -> ReceiptLines]
        /\ ScreenIsTranscript' /\ ReceiptsAnchored'
    BY <1>1, <1>2, <1>4, ReloadShows DEF TypeOK
  <2>2. TypeOK' BY <1>1, <1>2, <2>1 DEF TypeOK
  <2>3. screen' = log[active] BY <1>1, <1>4 DEF Reload
  <2>4. \A y : Absent(y) => Absent(y)' BY <1>1, <2>3 DEF Absent
  <2>5. StillToCome' BY <1>1, <2>4 DEF IInv, StillToCome
  <2>6. ClearSurvives' BY <1>1, <2>3 DEF IInv, ClearSurvives
  <2> QED BY <1>3, <2>1, <2>2, <2>5, <2>6 DEF IInv
<1>5. CASE active \notin Groups /\ UNCHANGED <<screen, shown, seen>>
  <2>1. TypeOK' BY <1>1, <1>2, <1>5 DEF TypeOK
  <2>2. \A y : Absent(y) => Absent(y)' BY <1>1, <1>5 DEF Absent
  <2>3. StillToCome' BY <1>1, <2>2 DEF IInv, StillToCome
  <2>4. ClearSurvives' BY <1>1, <1>5 DEF IInv, ClearSurvives
  <2>5. ScreenIsTranscript' BY <1>1, <1>5 DEF IInv, ScreenIsTranscript, Undrawn
  <2>6. ReceiptsAnchored' BY <1>1, <1>5 DEF IInv, ReceiptsAnchored
  <2> QED BY <1>3, <2>1, <2>3, <2>4, <2>5, <2>6 DEF IInv
<1> QED BY <1>4, <1>5 DEF BroadcastDelivery

LEMMA StutterIInv ==
    ASSUME IInv, UNCHANGED vars
    PROVE  IInv'
<1>1. /\ active' = active /\ log' = log /\ unread' = unread /\ screen' = screen
      /\ shown' = shown /\ sends' = sends /\ inbox' = inbox
      /\ deliveries' = deliveries /\ correlated' = correlated
      /\ seen' = seen /\ cleared' = cleared
  BY DEF vars, receipts
<1>2. TypeOK' BY <1>1 DEF IInv, TypeOK
<1>3. OneHome' BY <1>1 DEF IInv, OneHome
<1>4. StillToCome' BY <1>1 DEF IInv, StillToCome, Absent
<1>5. ScreenIsTranscript' BY <1>1 DEF IInv, ScreenIsTranscript, Undrawn
<1>6. ReceiptsAnchored' BY <1>1 DEF IInv, ReceiptsAnchored, Receipt
<1>7. ClearSurvives' BY <1>1 DEF IInv, ClearSurvives
<1> QED BY <1>2, <1>3, <1>4, <1>5, <1>6, <1>7 DEF IInv

LEMMA NextIInv == IInv /\ [Next]_vars => IInv'
<1> SUFFICES ASSUME IInv, [Next]_vars PROVE IInv' OBVIOUS
<1>1. CASE \E c \in Convs : SwitchBuffer(c) BY <1>1, SwitchBufferStep
<1>2. CASE Clear BY <1>2, ClearStep
<1>3. CASE \E s \in Sends : SendMessage(s) BY <1>3, SendMessageStep
<1>4. CASE \E s \in Sends, d \in DMs : SendDirectMessage(s, d) BY <1>4, SendDirectMessageStep
<1>5. CASE \E s \in Sends : Sent(s) BY <1>5, SentStep
<1>6. CASE \E s \in Sends : SentInline(s) BY <1>6, SentInlineStep
<1>7. CASE \E s \in Sends : SendFailed(s) BY <1>7, SendFailedStep
<1>8. CASE \E a \in Arrivals, c \in Convs : MsgReceived(a, c) BY <1>8, MsgReceivedStep
<1>9. CASE \E s \in Sends, r \in Recipients, status \in {"delivered", "failed"} :
             BroadcastDelivery(s, r, status)
  BY <1>9, BroadcastDeliveryStep
<1>10. CASE UNCHANGED vars BY <1>10, StutterIInv
<1> QED BY <1>1, <1>2, <1>3, <1>4, <1>5, <1>6, <1>7, <1>8, <1>9, <1>10 DEF Next

-----------------------------------------------------------------------------
(* The theorems *)

\* The inductive invariant holds in every reachable state.
THEOREM Invariance == Spec => []IInv
BY InitIInv, NextIInv, PTL DEF Spec

\* Every variable keeps its type, whatever the store files and the loop draws.
THEOREM TypeCorrect == Spec => []TypeOK
<1>1. IInv => TypeOK BY DEF IInv
<1> QED BY <1>1, Invariance, PTL

\* With an identity, the screen is the transcript of the active conversation: the
\* line-by-line drawing of the handlers agrees with reloadScrollback.
THEOREM TranscriptOnScreen == Spec => []ScreenIsTranscript
<1>1. IInv => ScreenIsTranscript BY DEF IInv
<1> QED BY <1>1, Invariance, PTL

\* Receipts are drawn beneath the message they confirm, and are up to date in the
\* conversations whose messages have receipts.
THEOREM ReceiptsStayAnchored == Spec => []ReceiptsAnchored
<1>1. IInv => ReceiptsAnchored BY DEF IInv
<1> QED BY <1>1, Invariance, PTL

\* What /clear removed stays away.
THEOREM ClearIsForGood == Spec => []ClearSurvives
<1>1. IInv => ClearSurvives BY DEF IInv
<1> QED BY <1>1, Invariance, PTL

\* Every step files lines or keeps them; only a clear removes some.
LEMMA LogGrows ==
    ASSUME TypeOK, [Next]_vars, NEW c \in Convs, c = active, log'[active] # {}
    PROVE  log[c] \subseteq log'[c]
<1>1. log \in [Convs -> SUBSET Lines] BY DEF TypeOK
<1>2. CASE Clear BY <1>1, <1>2 DEF Clear
<1>3. CASE \E d \in Convs : SwitchBuffer(d) BY <1>3 DEF SwitchBuffer
<1>4. CASE \E s \in Sends : SendMessage(s) BY <1>4 DEF SendMessage
<1>5. CASE \E s \in Sends, d \in DMs : SendDirectMessage(s, d) BY <1>5 DEF SendDirectMessage
<1>6. CASE \E s \in Sends : Sent(s) BY <1>1, <1>6 DEF Sent
<1>7. CASE \E s \in Sends : SentInline(s) BY <1>1, <1>7 DEF SentInline
<1>8. CASE \E s \in Sends : SendFailed(s) BY <1>1, <1>8 DEF SendFailed
<1>9. CASE \E a \in Arrivals, d \in Convs : MsgReceived(a, d) BY <1>1, <1>9 DEF MsgReceived
<1>10. CASE \E s \in Sends, r \in Recipients, status \in {"delivered", "failed"} :
              BroadcastDelivery(s, r, status)
  BY <1>10 DEF BroadcastDelivery
<1>11. CASE UNCHANGED vars BY <1>11 DEF vars
<1> QED BY <1>2, <1>3, <1>4, <1>5, <1>6, <1>7, <1>8, <1>9, <1>10, <1>11 DEF Next

\* Every step keeps the lines on the screen, redraws it, or is a clear.
LEMMA ScreenSteps ==
    ASSUME [Next]_vars
    PROVE  screen \subseteq screen' \/ screen' = log'[active'] \/ Clear
<1>1. CASE Clear BY <1>1
<1>2. CASE \E d \in Convs : SwitchBuffer(d) BY <1>2 DEF SwitchBuffer, Reload
<1>3. CASE \E s \in Sends : SendMessage(s) BY <1>3 DEF SendMessage
<1>4. CASE \E s \in Sends, d \in DMs : SendDirectMessage(s, d) BY <1>4 DEF SendDirectMessage
<1>5. CASE \E s \in Sends : Sent(s) BY <1>5 DEF Sent, Reload, Append
<1>6. CASE \E s \in Sends : SentInline(s) BY <1>6 DEF SentInline, Append
<1>7. CASE \E s \in Sends : SendFailed(s) BY <1>7 DEF SendFailed, Append
<1>8. CASE \E a \in Arrivals, d \in Convs : MsgReceived(a, d) BY <1>8 DEF MsgReceived, Append
<1>9. CASE \E s \in Sends, r \in Recipients, status \in {"delivered", "failed"} :
             BroadcastDelivery(s, r, status)
  BY <1>9 DEF BroadcastDelivery, Reload
<1>10. CASE UNCHANGED vars BY <1>10 DEF vars
<1> QED BY <1>1, <1>2, <1>3, <1>4, <1>5, <1>6, <1>7, <1>8, <1>9, <1>10 DEF Next

\* While the user neither switches nor clears, no line leaves the screen.
THEOREM LinesStay == Spec => NothingVanishes
<1>1. ASSUME IInv, [Next]_vars
      PROVE  [IdentityKnown /\ active' = active /\ log'[active] # {} => screen \subseteq screen']_vars
  <2> SUFFICES ASSUME IdentityKnown, active' = active, log'[active] # {}
               PROVE  screen \subseteq screen'
    OBVIOUS
  <2>1. TypeOK /\ active \in Convs /\ screen \subseteq log[active]
    BY <1>1 DEF IInv, TypeOK, ScreenIsTranscript
  <2>2. log[active] \subseteq log'[active] BY <1>1, <2>1, LogGrows
  <2>3. ~Clear BY <2>1 DEF Clear, TypeOK
  <2> QED BY <1>1, <2>1, <2>2, <2>3, ScreenSteps
<1> QED BY <1>1, Invariance, PTL DEF Spec, NothingVanishes

-----------------------------------------------------------------------------
(* Outcomes *)

\* Every step keeps a filed line in its conversation or moves it to the cleared
\* ones.
LEMMA LinesKept ==
    ASSUME TypeOK, [Next]_vars
    PROVE  /\ cleared \subseteq cleared'
           /\ \A c \in Convs : log[c] \subseteq log'[c] \cup cleared'
<1>1. log \in [Convs -> SUBSET Lines] BY DEF TypeOK
<1>2. CASE Clear BY <1>1, <1>2 DEF Clear
<1>3. CASE \E d \in Convs : SwitchBuffer(d) BY <1>3 DEF SwitchBuffer
<1>4. CASE \E s \in Sends : SendMessage(s) BY <1>4 DEF SendMessage
<1>5. CASE \E s \in Sends, d \in DMs : SendDirectMessage(s, d) BY <1>5 DEF SendDirectMessage
<1>6. CASE \E s \in Sends : Sent(s) BY <1>1, <1>6 DEF Sent
<1>7. CASE \E s \in Sends : SentInline(s) BY <1>1, <1>7 DEF SentInline
<1>8. CASE \E s \in Sends : SendFailed(s) BY <1>1, <1>8 DEF SendFailed
<1>9. CASE \E a \in Arrivals, d \in Convs : MsgReceived(a, d) BY <1>1, <1>9 DEF MsgReceived
<1>10. CASE \E s \in Sends, r \in Recipients, status \in {"delivered", "failed"} :
              BroadcastDelivery(s, r, status)
  BY <1>10 DEF BroadcastDelivery
<1>11. CASE UNCHANGED vars BY <1>11 DEF vars
<1> QED BY <1>2, <1>3, <1>4, <1>5, <1>6, <1>7, <1>8, <1>9, <1>10, <1>11 DEF Next

\* A send is as it was, has just left, or has just ended.
LEMMA SendMoves ==
    ASSUME TypeOK, [Next]_vars, NEW s \in Sends
    PROVE  \/ sends'[s] = sends[s]
           \/ sends'[s].stage = "flying"
           \/ Sent(s) \/ SentInline(s) \/ SendFailed(s)
<1>1. sends \in [Sends -> SendRecords] BY DEF TypeOK
<1>2. CASE Clear BY <1>2 DEF Clear
<1>3. CASE \E d \in Convs : SwitchBuffer(d) BY <1>3 DEF SwitchBuffer
<1>4. CASE \E t \in Sends : SendMessage(t) BY <1>1, <1>4 DEF SendMessage
<1>5. CASE \E t \in Sends, d \in DMs : SendDirectMessage(t, d)
  BY <1>1, <1>5 DEF SendDirectMessage
<1>6. CASE \E t \in Sends : Sent(t) BY <1>1, <1>6 DEF Sent
<1>7. CASE \E t \in Sends : SentInline(t)
  <2>1. PICK t \in Sends : SentInline(t) BY <1>7
  <2>2. sends' = [sends EXCEPT ![t].stage = "sent"] BY <2>1 DEF SentInline
  <2>3. t # s => sends'[s] = sends[s] BY <1>1, <2>2
  <2> QED BY <2>1, <2>3
<1>8. CASE \E t \in Sends : SendFailed(t) BY <1>1, <1>8 DEF SendFailed
<1>9. CASE \E a \in Arrivals, d \in Convs : MsgReceived(a, d) BY <1>9 DEF MsgReceived
<1>10. CASE \E t \in Sends, r \in Recipients, status \in {"delivered", "failed"} :
              BroadcastDelivery(t, r, status)
  BY <1>10 DEF BroadcastDelivery
<1>11. CASE UNCHANGED vars BY <1>11 DEF vars
<1> QED BY <1>2, <1>3, <1>4, <1>5, <1>6, <1>7, <1>8, <1>9, <1>10, <1>11 DEF Next

\* A failure or a note stands where its send was typed.
Reported(s) ==
    /\ sends[s].stage = "failed" => Failure(s) \in log[sends[s].origin] \cup cleared
    /\ sends[s].stage = "sent" /\ sends[s].inline =>
         Note(s) \in log[sends[s].origin] \cup cleared

\* A message that was sent is filed, unless it was cleared.
Filed(s) ==
    sends[s].stage = "sent" /\ Chat(s) \notin cleared =>
        \E c \in Convs : Chat(s) \in log[c] /\ (sends[s].inline => c = FiledOwn(sends[s].dest))

Recorded == \A s \in Sends : Reported(s) /\ Filed(s)

\* What stands on record stays there.
LEMMA RecordStays ==
    ASSUME TypeOK, [Next]_vars, NEW s \in Sends, sends'[s] = sends[s],
           Reported(s), Filed(s)
    PROVE  Reported(s)' /\ Filed(s)'
<1>1. /\ cleared \subseteq cleared'
      /\ \A c \in Convs : log[c] \subseteq log'[c] \cup cleared'
  BY LinesKept
<1>2. sends[s].origin \in Convs BY DEF TypeOK, SendRecords
<1>3. Reported(s)' BY <1>1, <1>2 DEF Reported
<1>4. Filed(s)'
  <2> SUFFICES ASSUME sends[s].stage = "sent", Chat(s) \notin cleared'
               PROVE  \E c \in Convs : /\ Chat(s) \in log'[c]
                                       /\ sends[s].inline => c = FiledOwn(sends[s].dest)
    BY DEF Filed, FiledOwn
  <2>1. PICK c \in Convs : /\ Chat(s) \in log[c]
                           /\ sends[s].inline => c = FiledOwn(sends[s].dest)
    BY <1>1 DEF Filed
  <2> QED BY <1>1, <2>1
<1> QED BY <1>3, <1>4

\* Its end puts a send on record.
LEMMA EndRecorded ==
    ASSUME TypeOK, NEW s \in Sends, Sent(s) \/ SentInline(s) \/ SendFailed(s)
    PROVE  Reported(s)' /\ Filed(s)'
<1>1. /\ sends \in [Sends -> SendRecords] /\ log \in [Convs -> SUBSET Lines]
      /\ active \in Convs
  BY DEF TypeOK
<1>2. sends[s].origin \in Convs /\ sends[s].dest \in Convs BY <1>1 DEF SendRecords
<1>3. FiledOwn(active) \in Convs /\ FiledOwn(sends[s].dest) \in Convs
  BY <1>1, <1>2, FiledOwnTyped
<1>4. ASSUME NEW st, sends' = [sends EXCEPT ![s].stage = st]
      PROVE  /\ sends'[s].stage = st /\ sends'[s].origin = sends[s].origin
             /\ sends'[s].dest = sends[s].dest /\ sends'[s].inline = sends[s].inline
  BY <1>1, <1>4 DEF SendRecords
<1>5. CASE Sent(s)
  <2>1. sends'[s].stage = "sent" /\ ~sends'[s].inline BY <1>4, <1>5 DEF Sent
  <2>2. Chat(s) \in log'[FiledOwn(active)] BY <1>1, <1>3, <1>5 DEF Sent
  <2> QED BY <1>3, <2>1, <2>2 DEF Reported, Filed
<1>6. CASE SentInline(s)
  <2>1. /\ sends'[s].stage = "sent" /\ sends'[s].origin = sends[s].origin
        /\ sends'[s].dest = sends[s].dest
    BY <1>4, <1>6 DEF SentInline
  <2>2. /\ Chat(s) \in log'[FiledOwn(sends[s].dest)]
        /\ Note(s) \in log'[sends[s].origin]
    BY <1>2, <1>3, <1>6 DEF SentInline
  <2> QED BY <1>3, <2>1, <2>2 DEF Reported, Filed, FiledOwn
<1>7. CASE SendFailed(s)
  <2>1. sends'[s].stage = "failed" /\ sends'[s].origin = sends[s].origin
    BY <1>4, <1>7 DEF SendFailed
  <2>2. Failure(s) \in log'[sends[s].origin] BY <1>1, <1>2, <1>7 DEF SendFailed
  <2> QED BY <2>1, <2>2 DEF Reported, Filed
<1> QED BY <1>5, <1>6, <1>7

\* The end of every send is on record where the user typed it, and a message that
\* was sent has one home, with the peer it went to if it was inline.
THEOREM OutcomesRecorded == Spec => []OutcomeOnRecord
<1>1. Init => Recorded BY DEF Init, Recorded, Reported, Filed
<1>2. IInv /\ Recorded /\ [Next]_vars => Recorded'
  <2> SUFFICES ASSUME IInv, Recorded, [Next]_vars, NEW s \in Sends
               PROVE  Reported(s)' /\ Filed(s)'
    BY DEF Recorded
  <2>1. TypeOK BY DEF IInv
  <2>2. CASE sends'[s] = sends[s] BY <2>1, <2>2, RecordStays DEF Recorded
  <2>3. CASE sends'[s].stage = "flying" BY <2>3 DEF Reported, Filed
  <2>4. CASE Sent(s) \/ SentInline(s) \/ SendFailed(s) BY <2>1, <2>4, EndRecorded
  <2> QED BY <2>1, <2>2, <2>3, <2>4, SendMoves
<1>3. IInv /\ Recorded => OutcomeOnRecord
  <2> SUFFICES ASSUME OneHome, NEW s \in Sends, Reported(s), Filed(s),
                      sends[s].stage = "sent", Chat(s) \notin cleared
               PROVE  \E c \in Convs : /\ {d \in Convs : Chat(s) \in log[d]} = {c}
                                       /\ sends[s].inline => c = FiledOwn(sends[s].dest)
    BY DEF IInv, Recorded, Reported, OutcomeOnRecord
  <2>1. PICK c \in Convs : /\ Chat(s) \in log[c]
                           /\ sends[s].inline => c = FiledOwn(sends[s].dest)
    BY DEF Filed
  <2>2. \A d \in Convs : Chat(s) \in log[d] => d = c BY <2>1 DEF OneHome
  <2> QED BY <2>1, <2>2
<1> QED BY <1>1, <1>2, <1>3, Invariance, PTL DEF Spec

-----------------------------------------------------------------------------
(* Unread counts *)

\* With an identity, what was on the screen is filed or was cleared, and what is
\* on it was on it: a message that is filed nowhere was never seen.
SeenOnRecord ==
    /\ screen \subseteq seen
    /\ IdentityKnown => \A x \in seen : x \in cleared \/ \E c \in Convs : x \in log[c]

\* Every step adds to what was seen what is then on the screen.
LEMMA SeenSteps ==
    ASSUME [Next]_vars, screen \subseteq seen
    PROVE  seen \subseteq seen' /\ screen' \subseteq seen' /\ seen' \subseteq seen \cup screen'
<1>1. CASE Clear BY <1>1 DEF Clear
<1>2. CASE \E d \in Convs : SwitchBuffer(d) BY <1>2 DEF SwitchBuffer, Reload
<1>3. CASE \E s \in Sends : SendMessage(s) BY <1>3 DEF SendMessage
<1>4. CASE \E s \in Sends, d \in DMs : SendDirectMessage(s, d) BY <1>4 DEF SendDirectMessage
<1>5. CASE \E s \in Sends : Sent(s) BY <1>5 DEF Sent, Reload, Append
<1>6. CASE \E s \in Sends : SentInline(s) BY <1>6 DEF SentInline, Append
<1>7. CASE \E s \in Sends : SendFailed(s) BY <1>7 DEF SendFailed, Append
<1>8. CASE \E a \in Arrivals, d \in Convs : MsgReceived(a, d) BY <1>8 DEF MsgReceived, Append
<1>9. CASE \E s \in Sends, r \in Recipients, status \in {"delivered", "failed"} :
             BroadcastDelivery(s, r, status)
  BY <1>9 DEF BroadcastDelivery, Reload
<1>10. CASE UNCHANGED vars BY <1>10 DEF vars
<1> QED BY <1>1, <1>2, <1>3, <1>4, <1>5, <1>6, <1>7, <1>8, <1>9, <1>10 DEF Next

\* Conversation d is as it was, in its messages and in its count.
Same(d) ==
    /\ unread'[d] = unread[d]
    /\ \A x \in Messages : Chat(x) \in log'[d] <=> Chat(x) \in log[d]

\* Message m came to conversation d and was counted.
Counts(d, m) ==
    /\ unread'[d] = unread[d] + 1
    /\ \A x \in Messages : Chat(x) \in log'[d] <=> (x = m \/ Chat(x) \in log[d])

\* AddMessage counts where it files unless the conversation is open.
LEMMA CountedWhereFiled ==
    ASSUME TypeOK, NEW m \in Messages, NEW h \in Convs, NEW d \in Convs, d # active,
           unread' = UnreadAfter(h),
           \A x \in Messages : Chat(x) \in log'[d] <=>
                                 ((x = m /\ d = h) \/ Chat(x) \in log[d])
    PROVE  Same(d) \/ Counts(d, m)
<1>1. CASE d = h
  <2>1. unread'[d] = unread[d] + 1 BY <1>1 DEF TypeOK, UnreadAfter
  <2> QED BY <1>1, <2>1 DEF Counts
<1>2. CASE d # h
  <2>1. unread'[d] = unread[d] BY <1>2 DEF TypeOK, UnreadAfter
  <2> QED BY <1>2, <2>1 DEF Same
<1> QED BY <1>1, <1>2

\* In a step, a conversation that is not open then is as it was or counts one
\* message that was filed nowhere; and the open one has nothing unread.
LEMMA Books ==
    ASSUME IInv, IdentityKnown, unread[active] = 0, [Next]_vars
    PROVE  /\ unread'[active'] = 0
           /\ \A d \in Convs : d # active' =>
                Same(d) \/ \E m \in Messages : Absent(Chat(m)) /\ Counts(d, m)
<1>1. /\ TypeOK /\ active \in Convs /\ log \in [Convs -> SUBSET Lines]
      /\ unread \in [Convs -> Nat] /\ sends \in [Sends -> SendRecords]
  BY DEF IInv, TypeOK
<1>2. \A c \in Convs : FiledOwn(c) = c BY FiledOwnTyped
<1>3. CASE Clear
  <2>1. /\ active' = active /\ log' = [log EXCEPT ![active] = {}]
        /\ unread' = [unread EXCEPT ![active] = 0]
    BY <1>3 DEF Clear
  <2> QED BY <1>1, <2>1 DEF Same
<1>4. CASE \E d \in Convs : SwitchBuffer(d)
  <2>1. PICK c \in Convs : SwitchBuffer(c) BY <1>4
  <2>2. active' = c /\ log' = log /\ unread' = [unread EXCEPT ![c] = 0]
    BY <2>1 DEF SwitchBuffer
  <2> QED BY <1>1, <2>2 DEF Same
<1>5. CASE \E s \in Sends : SendMessage(s) BY <1>5 DEF SendMessage, Same
<1>6. CASE \E s \in Sends, d \in DMs : SendDirectMessage(s, d)
  BY <1>6 DEF SendDirectMessage, Same
<1>7. CASE \E s \in Sends : Sent(s)
  <2>1. PICK s \in Sends : Sent(s) BY <1>7
  <2>2. /\ active' = active /\ log' = [log EXCEPT ![active] = @ \cup {Chat(s)}]
        /\ unread' = unread
    BY <1>1, <1>2, <2>1 DEF Sent, UnreadAfter
  <2> QED BY <1>1, <2>2 DEF Same
<1>8. CASE \E s \in Sends : SentInline(s)
  <2>1. PICK s \in Sends : SentInline(s) BY <1>8
  <2> DEFINE h == sends[s].dest
             note == sends[s].origin
  <2>2. h \in Convs /\ note \in Convs /\ s \in Messages BY <1>1 DEF SendRecords, Messages
  <2>3. /\ active' = active /\ unread' = UnreadAfter(h)
        /\ log' = [c \in Convs |-> log[c] \cup (IF c = note THEN {Note(s)} ELSE {})
                                          \cup (IF c = h THEN {Chat(s)} ELSE {})]
    BY <1>2, <2>1, <2>2 DEF SentInline
  <2>4. Absent(Chat(s)) BY <2>1 DEF IInv, StillToCome, SentInline
  <2> HIDE DEF h, note
  <2>5. \A d \in Convs, x \in Messages :
          Chat(x) \in log'[d] <=> ((x = s /\ d = h) \/ Chat(x) \in log[d])
    BY <2>3, LinesDiffer
  <2>6. unread'[active] = 0 BY <1>1, <2>3 DEF UnreadAfter
  <2>7. \A d \in Convs : d # active => Same(d) \/ Counts(d, s)
    BY <1>1, <2>2, <2>3, <2>5, CountedWhereFiled
  <2> QED BY <2>2, <2>3, <2>4, <2>6, <2>7
<1>9. CASE \E s \in Sends : SendFailed(s)
  <2>1. PICK s \in Sends : SendFailed(s) BY <1>9
  <2>2. /\ active' = active /\ unread' = unread
        /\ log' = [log EXCEPT ![sends[s].origin] = @ \cup {Failure(s)}]
    BY <2>1 DEF SendFailed
  <2>3. \A d \in Convs, x \in Messages : Chat(x) \in log'[d] <=> Chat(x) \in log[d]
    BY <1>1, <2>2, LinesDiffer
  <2> QED BY <2>2, <2>3 DEF Same
<1>10. CASE \E a \in Arrivals, d \in Convs : MsgReceived(a, d)
  <2>1. PICK a \in Arrivals, h \in Convs : MsgReceived(a, h) BY <1>10
  <2>2. /\ active' = active /\ unread' = UnreadAfter(h)
        /\ log' = [log EXCEPT ![h] = @ \cup {Chat(a)}]
    BY <2>1 DEF MsgReceived
  <2>3. a \in Messages /\ Absent(Chat(a))
    BY <2>1 DEF Messages, IInv, StillToCome, MsgReceived
  <2>4. \A d \in Convs, x \in Messages :
          Chat(x) \in log'[d] <=> ((x = a /\ d = h) \/ Chat(x) \in log[d])
    BY <1>1, <2>2, LinesDiffer
  <2>5. unread'[active] = 0 BY <1>1, <2>2 DEF UnreadAfter
  <2>6. \A d \in Convs : d # active => Same(d) \/ Counts(d, a)
    BY <1>1, <2>2, <2>3, <2>4, CountedWhereFiled
  <2> QED BY <2>2, <2>3, <2>5, <2>6
<1>11. CASE \E s \in Sends, r \in Recipients, status \in {"delivered", "failed"} :
              BroadcastDelivery(s, r, status)
  BY <1>11 DEF BroadcastDelivery, Same
<1>12. CASE UNCHANGED vars BY <1>12 DEF vars, Same
<1> QED BY <1>3, <1>4, <1>5, <1>6, <1>7, <1>8, <1>9, <1>10, <1>11, <1>12 DEF Next

\* Messages are finitely many, so those of a conversation can be counted.
LEMMA MessagesCounted ==
    ASSUME NEW S, S \subseteq Messages
    PROVE  IsFiniteSet(S) /\ Cardinality(S) \in Nat
<1>1. IsFiniteSet(Messages)
  <2>1. IsFiniteSet(Sends \cup Arrivals) BY ConversationsAssumption, FS_Union
  <2> QED BY <2>1, ConversationsAssumption, FS_Union DEF Messages
<1> QED BY <1>1, FS_Subset, FS_CardinalityType

\* A line that is filed nowhere was never seen.
LEMMA AbsentUnseen ==
    ASSUME IdentityKnown, SeenOnRecord, NEW x, Absent(x)
    PROVE  x \notin seen
BY DEF SeenOnRecord, Absent

LEMMA SeenOnRecordStep ==
    ASSUME IInv, IInv', SeenOnRecord, [Next]_vars
    PROVE  SeenOnRecord'
<1>1. screen' \subseteq seen' /\ seen' \subseteq seen \cup screen'
  BY SeenSteps DEF SeenOnRecord
<1>2. /\ cleared \subseteq cleared'
      /\ \A c \in Convs : log[c] \subseteq log'[c] \cup cleared'
  BY LinesKept DEF IInv
<1>3. IdentityKnown => active' \in Convs /\ screen' \subseteq log'[active']
  BY DEF IInv, TypeOK, ScreenIsTranscript
<1> QED BY <1>1, <1>2, <1>3 DEF SeenOnRecord

\* The count of a conversation that is not open follows its unseen messages.
LEMMA CountFollows ==
    ASSUME IInv, IInv', IdentityKnown, SeenOnRecord, UnreadIsUnseen, [Next]_vars,
           NEW d \in Convs, d # active'
    PROVE  /\ unread'[d] <= Cardinality(Unseen(d)')
           /\ d \in Groups => unread'[d] = Cardinality(Unseen(d)')
<1>1. /\ unread[active] = 0 /\ unread[d] <= Cardinality(Unseen(d))
      /\ d \in Groups => unread[d] = Cardinality(Unseen(d))
  BY DEF UnreadIsUnseen
<1>2. seen \subseteq seen' /\ seen' \subseteq seen \cup screen'
  BY SeenSteps DEF SeenOnRecord
<1>3. \A x \in log'[d] : x \notin screen'
  BY DEF IInv, TypeOK, OneHome, ScreenIsTranscript
<1>4. \A x : x \in Unseen(d)' <=> x \in Messages /\ Chat(x) \in log'[d] /\ Chat(x) \notin seen
  BY <1>2, <1>3 DEF Unseen
<1>5. IsFiniteSet(Unseen(d)) /\ Cardinality(Unseen(d)) \in Nat
  BY MessagesCounted DEF Unseen
<1>6. unread[d] \in Nat BY DEF IInv, TypeOK
<1>7. CASE Same(d)
  <2>1. Unseen(d)' = Unseen(d) BY <1>4, <1>7 DEF Same, Unseen
  <2> QED BY <1>1, <1>7, <2>1 DEF Same
<1>8. CASE \E m \in Messages : Absent(Chat(m)) /\ Counts(d, m)
  <2>1. PICK m \in Messages : Absent(Chat(m)) /\ Counts(d, m) BY <1>8
  <2>2. Chat(m) \notin seen BY <2>1, AbsentUnseen
  <2>3. m \notin Unseen(d) BY <2>1 DEF Unseen, Absent
  <2>4. Unseen(d)' = Unseen(d) \cup {m} BY <1>4, <2>1, <2>2 DEF Counts, Unseen
  <2>5. Cardinality(Unseen(d)') = Cardinality(Unseen(d)) + 1
    BY <1>5, <2>3, <2>4, FS_AddElement
  <2>6. unread'[d] = unread[d] + 1 BY <2>1 DEF Counts
  <2> QED BY <1>1, <1>5, <1>6, <2>5, <2>6
<1> QED BY <1>1, <1>7, <1>8, Books

\* The open conversation has nothing unread, and in a broadcast or channel one
\* everything was seen.
LEMMA OpenIsRead ==
    ASSUME IInv, IInv', IdentityKnown, SeenOnRecord, UnreadIsUnseen, [Next]_vars,
           NEW d \in Convs, d = active'
    PROVE  /\ unread'[d] = 0
           /\ unread'[d] <= Cardinality(Unseen(d)')
           /\ d \in Groups => unread'[d] = Cardinality(Unseen(d)')
<1>1. unread'[d] = 0 BY Books DEF UnreadIsUnseen
<1>2. Cardinality(Unseen(d)') \in Nat BY MessagesCounted DEF Unseen
<1>3. ASSUME d \in Groups PROVE Cardinality(Unseen(d)') = 0
  <2>1. screen' = log'[d] /\ screen' \subseteq seen'
    BY <1>3, SeenSteps DEF IInv, ScreenIsTranscript, SeenOnRecord
  <2>2. Unseen(d)' = {} BY <2>1 DEF Unseen
  <2> QED BY <2>2, FS_EmptySet
<1> QED BY <1>1, <1>2, <1>3

LEMMA UnreadInit == Init => SeenOnRecord /\ UnreadIsUnseen
<1> SUFFICES ASSUME Init PROVE SeenOnRecord /\ UnreadIsUnseen OBVIOUS
<1>1. Broadcast \in Convs BY DEF Convs, Groups
<1>2. SeenOnRecord BY <1>1 DEF Init, SeenOnRecord
<1>3. PICK place \in [History -> IF IdentityKnown THEN Convs ELSE {}] :
        /\ log = [c \in Convs |-> {Chat(h) : h \in {h \in History : place[h] = c}}]
        /\ unread = [c \in Convs |-> IF c = Broadcast THEN 0
                                     ELSE Cardinality({h \in History : place[h] = c})]
  BY DEF Init
<1>4. \A c \in Convs : \A x : Chat(x) \in log[c] <=> x \in History /\ place[x] = c
  BY <1>3, LinesDiffer
<1>5. seen = log[Broadcast] BY DEF Init
<1>6. Unseen(Broadcast) = {} BY <1>5 DEF Unseen
<1>7. ASSUME NEW c \in Convs, c # Broadcast
      PROVE  Unseen(c) = {h \in History : place[h] = c}
  BY <1>1, <1>4, <1>5, <1>7 DEF Unseen, Messages
<1>8. \A c \in Convs : unread[c] = Cardinality(Unseen(c))
  BY <1>3, <1>6, <1>7, FS_EmptySet
<1>9. \A c \in Convs : Cardinality(Unseen(c)) \in Nat BY MessagesCounted DEF Unseen
<1>10. unread[active] = 0 BY <1>1, <1>3 DEF Init
<1> QED BY <1>2, <1>8, <1>9, <1>10 DEF UnreadIsUnseen, Convs

\* With an identity, the badge of a conversation in the background counts messages
\* the user has not seen, all of them for a broadcast or channel conversation.
THEOREM UnreadCorrect == Spec => []UnreadIsUnseen
<1>1. IInv /\ IInv' /\ SeenOnRecord /\ UnreadIsUnseen /\ [Next]_vars
        => SeenOnRecord' /\ UnreadIsUnseen'
  <2> SUFFICES ASSUME IInv, IInv', SeenOnRecord, UnreadIsUnseen, [Next]_vars
               PROVE  SeenOnRecord' /\ UnreadIsUnseen'
    OBVIOUS
  <2>1. SeenOnRecord' BY SeenOnRecordStep
  <2>2. UnreadIsUnseen'
    <3> SUFFICES ASSUME IdentityKnown
                 PROVE  /\ unread'[active'] = 0
                        /\ \A c \in Convs : /\ unread'[c] <= Cardinality(Unseen(c)')
                                            /\ c \in Groups =>
                                                 unread'[c] = Cardinality(Unseen(c)')
      BY DEF UnreadIsUnseen, Convs
    <3>1. active' \in Convs BY DEF IInv, TypeOK
    <3>2. unread'[active'] = 0 BY Books DEF UnreadIsUnseen
    <3>3. ASSUME NEW c \in Convs
          PROVE  /\ unread'[c] <= Cardinality(Unseen(c)')
                 /\ c \in Groups => unread'[c] = Cardinality(Unseen(c)')
      BY <3>1, CountFollows, OpenIsRead
    <3> QED BY <3>2, <3>3
  <2> QED BY <2>1, <2>2
<1> QED BY <1>1, UnreadInit, Invariance, PTL DEF Spec

-----------------------------------------------------------------------------
(* A text is filed where it was sent, for a user who waits for its result *)

\* Nobody switches while a text is on its way; a /msg may be.
Waits == active' # active => \A s \in Sends : sends[s].stage = "flying" => sends[s].inline

\* A text on its way goes to the conversation that is open.
OnItsWay == \A s \in Sends : sends[s].stage = "flying" /\ ~sends[s].inline => sends[s].dest = active

\* A step that files a message of ours files it where it was sent.
LEMMA WaitingStep ==
    ASSUME IdentityKnown, IInv, OnItsWay, SentWhereTyped, [Next /\ Waits]_vars
    PROVE  OnItsWay' /\ SentWhereTyped'
<1> USE DEF IInv, TypeOK, OnItsWay, SentWhereTyped
<1>1. CASE UNCHANGED <<active, log, sends>>
  BY <1>1
<1>2. ASSUME NEW c \in Convs, SwitchBuffer(c), Waits PROVE OnItsWay' /\ SentWhereTyped'
  BY <1>2 DEF SwitchBuffer, Waits
<1>3. CASE Clear
  BY <1>3 DEF Clear
<1>4. ASSUME NEW s \in Sends, SendMessage(s) PROVE OnItsWay' /\ SentWhereTyped'
  <2>1. Absent(Chat(s)) BY <1>4 DEF StillToCome, SendMessage
  <2> QED BY <1>4, <2>1 DEF SendMessage, Absent
<1>5. ASSUME NEW s \in Sends, NEW d \in DMs, SendDirectMessage(s, d)
      PROVE  OnItsWay' /\ SentWhereTyped'
  <2>1. Absent(Chat(s)) BY <1>5 DEF StillToCome, SendDirectMessage
  <2> QED BY <1>5, <2>1 DEF SendDirectMessage, Absent
<1>6. ASSUME NEW s \in Sends, Sent(s) PROVE OnItsWay' /\ SentWhereTyped'
  <2>1. sends[s].dest = active /\ FiledOwn(active) = active BY <1>6 DEF Sent, FiledOwn
  <2>2. \A x \in Sends, c \in Convs : Chat(x) \in log'[c] =>
          Chat(x) \in log[c] \/ (x = s /\ c = active)
    BY <1>6, <2>1, LinesDiffer DEF Sent
  <2>3. \A x \in Sends : sends'[x].dest = sends[x].dest /\ sends'[x].inline = sends[x].inline
          /\ (sends'[x].stage = "flying" => sends[x].stage = "flying")
    BY <1>6 DEF Sent, SendRecords
  <2>4. active' = active BY <1>6 DEF Sent
  <2> QED BY <2>1, <2>2, <2>3, <2>4
<1>7. ASSUME NEW s \in Sends, SentInline(s) PROVE OnItsWay' /\ SentWhereTyped'
  <2>1. FiledOwn(sends[s].dest) = sends[s].dest BY DEF FiledOwn
  <2>2. \A x \in Sends, c \in Convs : Chat(x) \in log'[c] =>
          Chat(x) \in log[c] \/ (x = s /\ c = sends[s].dest)
    BY <1>7, <2>1, LinesDiffer DEF SentInline
  <2>3. \A x \in Sends : sends'[x].dest = sends[x].dest /\ sends'[x].inline = sends[x].inline
          /\ (sends'[x].stage = "flying" => sends[x].stage = "flying")
    BY <1>7 DEF SentInline, SendRecords
  <2>4. active' = active BY <1>7 DEF SentInline
  <2> QED BY <2>2, <2>3, <2>4
<1>8. ASSUME NEW s \in Sends, SendFailed(s) PROVE OnItsWay' /\ SentWhereTyped'
  <2>2. \A x \in Sends, c \in Convs : Chat(x) \in log'[c] => Chat(x) \in log[c]
    BY <1>8, LinesDiffer DEF SendFailed
  <2>3. \A x \in Sends : sends'[x].dest = sends[x].dest /\ sends'[x].inline = sends[x].inline
          /\ (sends'[x].stage = "flying" => sends[x].stage = "flying")
    BY <1>8 DEF SendFailed, SendRecords
  <2>4. active' = active BY <1>8 DEF SendFailed
  <2> QED BY <2>2, <2>3, <2>4
<1>9. ASSUME NEW a \in Arrivals, NEW c \in Convs, MsgReceived(a, c)
      PROVE  OnItsWay' /\ SentWhereTyped'
  <2>1. a \notin Sends BY ConversationsAssumption
  <2>2. \A x \in Sends, d \in Convs : Chat(x) \in log'[d] => Chat(x) \in log[d]
    BY <1>9, <2>1, LinesDiffer DEF MsgReceived
  <2> QED BY <1>9, <2>2 DEF MsgReceived
<1> QED
  BY <1>1, <1>2, <1>3, <1>4, <1>5, <1>6, <1>7, <1>8, <1>9 DEF Next, BroadcastDelivery, vars

\* README.md:99 holds for a user who waits: while nobody switches with a text on its
\* way, every message is filed in the conversation it was sent to, a /msg also when
\* the user does switch.  The switch is the only cause of the disagreement.
THEOREM FiledWhereSent ==
    ASSUME IdentityKnown
    PROVE  Init /\ [][Next /\ Waits]_vars => []SentWhereTyped
<1>1. Init => IInv /\ OnItsWay /\ SentWhereTyped
  <2> SUFFICES ASSUME Init PROVE OnItsWay /\ SentWhereTyped
    BY InitIInv
  <2>1. OnItsWay BY DEF Init, OnItsWay
  <2>2. ASSUME NEW s \in Sends, NEW c \in Convs PROVE Chat(s) \notin log[c]
    <3>1. StillToCome BY InitIInv DEF IInv
    <3> QED BY <3>1 DEF Init, StillToCome, Absent
  <2> QED BY <2>1, <2>2 DEF SentWhereTyped
<1>2. IInv /\ OnItsWay /\ SentWhereTyped /\ [Next /\ Waits]_vars
        => IInv' /\ OnItsWay' /\ SentWhereTyped'
  BY NextIInv, WaitingStep
<1> QED BY <1>1, <1>2, PTL

=============================================================================
