--------------------------- MODULE TuiInputProofs ---------------------------
(***************************************************************************)
(* For any buffers, texts, tiers and history length: the lockout drawn is  *)
(* current, a refused text can be recalled, every reboot was asked for and *)
(* nothing is sent on a tier known to be depleted.  The inductive          *)
(* invariant says how far back in the history an entered text lies,        *)
(* whatever became of it since.                                            *)
(***************************************************************************)
EXTENDS TuiInput, FiniteSetTheorems, SequenceTheorems, TLAPS

\* A text entered k texts ago is among the last k + 1 of the history, or k is
\* at least HistoryMax.
Recallable(n) ==
    \/ \E i \in 1..Len(history) :
         history[i] = entries[n].text /\ Len(history) - i <= Len(entries) - n
    \/ Len(entries) >= n + HistoryMax

AllRecallable == \A n \in 1..Len(entries) : Recallable(n)

IInv ==
    /\ TypeOK
    /\ LockoutIsCurrent
    /\ AllRecallable
    /\ RebootsWereAsked

Entries == [text : Texts, fate : Fates]
Asked == {n \in 1..Len(entries) : Kind[entries[n].text] = "reboot" /\ entries[n].fate = "done"}

-----------------------------------------------------------------------------
(* Lemmas about the operators *)

\* A lockout names a tier, never the absence of one.
LEMMA TierProperties ==
    ASSUME NEW t, NEW b, NEW depleted
    PROVE  /\ Tier(t, b) \in Tiers
           /\ Lockout(t, b, depleted) \in Tiers \cup {"none"}
           /\ Lockout(t, b, depleted) = "none" <=> Tier(t, b) \notin depleted
  BY DEF Tier, Tiers, Lockout

\* A refresh leaves the lockout current, whatever it was before.
LEMMA RefreshIsCurrent ==
    ASSUME NEW armed \in BOOLEAN, Refresh(armed), ticks \in Nat
    PROVE  /\ LockoutIsCurrent'
           /\ shown' \in Tiers \cup {"none"} /\ ticking' \in BOOLEAN /\ ticks' \in Nat
<1>1. LockoutIsCurrent' BY DEF Refresh, LockoutIsCurrent
<1>2. shown' \in Tiers \cup {"none"} /\ ticking' \in BOOLEAN BY TierProperties DEF Refresh
<1>3. ticks' \in Nat BY DEF Refresh
<1> QED BY <1>1, <1>2, <1>3

\* A step that changes nothing the lockout is made of keeps it current.
LEMMA LockKept ==
    ASSUME LockoutIsCurrent, UNCHANGED <<text, active, known, lock>>
    PROVE  LockoutIsCurrent'
  BY DEF LockoutIsCurrent, Lockout, Tier, lock

\* addHistory: the text is the newest of the history, every other moves back by
\* at most one, and only the oldest of a full history is lost.
LEMMA RememberProperties ==
    ASSUME history \in Seq(Texts), Len(history) <= HistoryMax, NEW t \in Texts
    PROVE  /\ Remember(t) \in Seq(Texts)
           /\ Len(Remember(t)) \in 1..HistoryMax
           /\ Remember(t)[Len(Remember(t))] = t
           /\ \A i \in 1..Len(history) :
                \/ \E j \in 1..Len(Remember(t)) :
                     /\ Remember(t)[j] = history[i]
                     /\ Len(Remember(t)) - j <= Len(history) - i + 1
                \/ i = 1 /\ Len(history) = HistoryMax
<1>0. Len(history) \in Nat /\ HistoryMax \in Nat \ {0} /\ (history # <<>> <=> Len(history) # 0)
  BY LenProperties, EmptySeq, TuiInputAssumption
<1>1. CASE history # <<>> /\ history[Len(history)] = t
  <2>1. Remember(t) = history BY <1>1 DEF Remember
  <2>2. \A i \in 1..Len(history) : Len(history) - i <= Len(history) - i + 1 BY <1>0
  <2> QED BY <1>0, <1>1, <2>1, <2>2
<1>2. CASE ~(history # <<>> /\ history[Len(history)] = t) /\ Len(history) = HistoryMax
  <2>1. history # <<>> BY <1>0, <1>2
  <2>2. /\ Tail(history) \in Seq(Texts) /\ Len(Tail(history)) = Len(history) - 1
        /\ \A i \in 1..Len(Tail(history)) : Tail(history)[i] = history[i + 1]
    BY <2>1, HeadTailProperties
  <2>3. Remember(t) = Append(Tail(history), t) BY <1>2, <2>1 DEF Remember
  <2>4. /\ Remember(t) \in Seq(Texts) /\ Len(Remember(t)) = Len(history)
        /\ \A i \in 1..Len(history) - 1 : Remember(t)[i] = history[i + 1]
        /\ Remember(t)[Len(history)] = t
    BY <1>0, <2>2, <2>3, AppendProperties
  <2>5. ASSUME NEW i \in 1..Len(history), i # 1
        PROVE  \E j \in 1..Len(Remember(t)) :
                 /\ Remember(t)[j] = history[i]
                 /\ Len(Remember(t)) - j <= Len(history) - i + 1
    <3>1. i - 1 \in 1..Len(history) - 1 /\ (i - 1) + 1 = i BY <1>0, <2>5
    <3>2. Remember(t)[i - 1] = history[i] BY <2>4, <3>1
    <3>3. Len(Remember(t)) - (i - 1) <= Len(history) - i + 1 BY <1>0, <2>4
    <3>4. i - 1 \in 1..Len(Remember(t)) BY <1>0, <2>4, <3>1
    <3> QED BY <3>2, <3>3, <3>4
  <2> QED BY <1>0, <1>2, <2>4, <2>5
<1>3. CASE ~(history # <<>> /\ history[Len(history)] = t) /\ Len(history) # HistoryMax
  <2>1. Remember(t) = Append(history, t) BY <1>3 DEF Remember
  <2>2. /\ Remember(t) \in Seq(Texts) /\ Len(Remember(t)) = Len(history) + 1
        /\ \A i \in 1..Len(history) : Remember(t)[i] = history[i]
        /\ Remember(t)[Len(history) + 1] = t
    BY <2>1, AppendProperties
  <2>3. \A i \in 1..Len(history) :
           i \in 1..Len(Remember(t)) /\ Len(Remember(t)) - i <= Len(history) - i + 1
    BY <1>0, <2>2
  <2> QED BY <1>0, <1>3, <2>2, <2>3
<1> QED BY <1>1, <1>2, <1>3

\* What became of one text says nothing of the others, and changes none.
LEMMA FateProperties ==
    ASSUME entries \in Seq(Entries), NEW n \in 1..Len(entries), NEW f \in Fates, Fate(n, f)
    PROVE  /\ entries' \in Seq(Entries) /\ Len(entries') = Len(entries)
           /\ \A m \in 1..Len(entries) :
                /\ entries'[m].text = entries[m].text
                /\ entries'[m].fate = IF m = n THEN f ELSE entries[m].fate
<1>1. entries' = [entries EXCEPT ![n] = [entries[n] EXCEPT !.fate = f]] BY DEF Fate
<1>2. entries[n] \in Entries BY ElementOfSeq
<1>3. [entries[n] EXCEPT !.fate = f] \in Entries BY <1>2 DEF Entries
<1>4. /\ entries' \in Seq(Entries) /\ Len(entries') = Len(entries)
      /\ \A m \in 1..Len(entries) :
           entries'[m] = IF m = n THEN [entries[n] EXCEPT !.fate = f] ELSE entries[m]
  BY <1>1, <1>3, ExceptSeq
<1>5. [entries[n] EXCEPT !.fate = f].text = entries[n].text
      /\ [entries[n] EXCEPT !.fate = f].fate = f
  BY <1>2 DEF Entries
<1> QED BY <1>4, <1>5

\* The texts that were asked for are finitely many.
LEMMA AskedFinite ==
    ASSUME entries \in Seq(Entries)
    PROVE  IsFiniteSet(Asked) /\ Cardinality(Asked) \in Nat
<1>1. Len(entries) \in Nat BY LenProperties
<1>2. IsFiniteSet(1..Len(entries)) BY <1>1, FS_Interval
<1> QED BY <1>2, FS_Subset, FS_CardinalityType DEF Asked

-----------------------------------------------------------------------------
(* Lemmas about parts of a step *)

\* Opening a buffer keeps the list of buffers well formed.
LEMMA SwitchKeeps ==
    ASSUME TypeOK, NEW b \in Buffers, Switch(b)
    PROVE  /\ open' \in Seq(Buffers) /\ active' \in Buffers
           /\ LockoutIsCurrent'
           /\ shown' \in Tiers \cup {"none"} /\ ticking' \in BOOLEAN /\ ticks' \in Nat
<1>1. open' \in Seq(Buffers) /\ active' \in Buffers
  BY AppendProperties DEF TypeOK, Switch
<1>2. Refresh(FALSE) /\ ticks \in Nat BY DEF TypeOK, Switch
<1> QED BY <1>1, <1>2, RefreshIsCurrent

\* A step that enters nothing keeps what can be recalled.
LEMMA RecallKept ==
    ASSUME AllRecallable, UNCHANGED history, Len(entries') = Len(entries),
           \A n \in 1..Len(entries) : entries'[n].text = entries[n].text
    PROVE  AllRecallable'
  BY DEF AllRecallable, Recallable

\* A step that neither asks nor confirms keeps the balance of the reboots.
LEMMA RebootsKept ==
    ASSUME RebootsWereAsked, UNCHANGED <<pending, reboots>>, Asked' = Asked
    PROVE  RebootsWereAsked'
  BY DEF RebootsWereAsked, Asked

\* A text that is no /reboot, or is not yet done with, is not counted as one.
LEMMA FateKeepsAsked ==
    ASSUME entries \in Seq(Entries), NEW n \in 1..Len(entries), NEW f \in Fates, Fate(n, f),
           entries[n].fate = "posted", f # "done" \/ Kind[entries[n].text] # "reboot"
    PROVE  Asked' = Asked
  BY FateProperties DEF Asked

\* What a handler that took a text leaves of the invariant to be shown.
LEMMA HandledKeeps ==
    ASSUME IInv, NEW n \in 1..Len(entries), NEW f \in Fates, Fate(n, f), UNCHANGED line
    PROVE  /\ entries' \in Seq(Entries) /\ AllRecallable'
           /\ text' \in Texts \cup {Empty} /\ draft' \in Texts \cup {Empty}
           /\ history' \in Seq(Texts) /\ Len(history') <= HistoryMax /\ idx' \in 0..Len(history')
<1>1. entries \in Seq(Entries) /\ AllRecallable BY DEF IInv, TypeOK, Entries
<1>2. UNCHANGED <<text, history, idx, draft>> BY DEF line
<1>3. entries' \in Seq(Entries) BY <1>1, FateProperties
<1>4. AllRecallable' BY <1>1, <1>2, FateProperties, RecallKept
<1> QED BY <1>2, <1>3, <1>4 DEF IInv, TypeOK

-----------------------------------------------------------------------------
(* Induction *)

LEMMA InitIInv == Init => IInv
<1> SUFFICES ASSUME Init PROVE IInv OBVIOUS
<1>1. /\ open \in Seq(Buffers) /\ history \in Seq(Texts) /\ entries \in Seq(Entries)
      /\ Len(history) = 0 /\ Len(entries) = 0
  <2>1. Home \in Buffers BY DEF Buffers
  <2>2. <<Home>> \in Seq(Buffers) BY <2>1
  <2> QED BY <2>2, EmptySeq DEF Init
<1>2. TypeOK
  <2>1. Len(history) <= HistoryMax /\ idx \in 0..Len(history) BY <1>1, TuiInputAssumption DEF Init
  <2>2. active \in Buffers BY DEF Init, Buffers
  <2>3. entries \in Seq([text : Texts, fate : Fates]) BY <1>1 DEF Entries
  <2> QED BY <1>1, <2>1, <2>2, <2>3 DEF Init, TypeOK
<1>3. LockoutIsCurrent BY DEF Init, LockoutIsCurrent, Lockout
<1>4. AllRecallable BY <1>1 DEF AllRecallable
<1>5. {n \in 1..Len(entries) : Kind[entries[n].text] = "reboot" /\ entries[n].fate = "done"} = {}
  BY <1>1
<1>6. RebootsWereAsked BY <1>5, FS_EmptySet DEF Init, RebootsWereAsked
<1> QED BY <1>2, <1>3, <1>4, <1>6 DEF IInv

\* Keys that enter nothing: typing, deleting, and walking through the history.
LEMMA EditKeeps ==
    ASSUME IInv, (\E t \in Texts \cup {Empty} : Type(t)) \/ Escape \/ HistoryUp \/ HistoryDown
    PROVE  IInv'
<1>0. TypeOK /\ LockoutIsCurrent /\ AllRecallable /\ RebootsWereAsked BY DEF IInv
<1>1. Key /\ UNCHANGED <<history, entries>> BY DEF Type, Escape, HistoryUp, HistoryDown
<1>2. /\ UNCHANGED <<running, open, active, known, node, pending, mouse, reboots>>
      /\ Refresh(TRUE)
  BY <1>1 DEF Key
<1>3. Len(history) \in Nat /\ (history # <<>> => Len(history) # 0)
  BY <1>0, LenProperties, EmptySeq DEF TypeOK
<1>4. \A i \in 1..Len(history) : history[i] \in Texts BY <1>0, ElementOfSeq DEF TypeOK
<1>5. /\ text' \in Texts \cup {Empty} /\ draft' \in Texts \cup {Empty}
      /\ idx' \in 0..Len(history)
  <2>1. CASE \E t \in Texts \cup {Empty} : Type(t) BY <1>0, <2>1 DEF Type, TypeOK
  <2>2. CASE Escape BY <1>3, <2>2 DEF Escape
  <2>3. CASE HistoryUp
    <3>1. idx' \in 1..Len(history) BY <1>0, <1>3, <2>3 DEF HistoryUp, TypeOK
    <3> QED BY <1>0, <1>4, <2>3, <3>1 DEF HistoryUp, TypeOK
  <2>4. CASE HistoryDown
    <3>1. CASE idx < Len(history)
      <4>1. idx' \in 1..Len(history) BY <1>0, <1>3, <2>4, <3>1 DEF HistoryDown, TypeOK
      <4> QED BY <1>0, <1>4, <2>4, <3>1, <4>1 DEF HistoryDown, TypeOK
    <3>2. CASE ~(idx < Len(history)) BY <1>0, <1>3, <2>4, <3>2 DEF HistoryDown, TypeOK
    <3> QED BY <3>1, <3>2
  <2> QED BY <2>1, <2>2, <2>3, <2>4
<1>6. /\ LockoutIsCurrent'
      /\ shown' \in Tiers \cup {"none"} /\ ticking' \in BOOLEAN /\ ticks' \in Nat
  BY <1>0, <1>2, RefreshIsCurrent DEF TypeOK
<1>7. TypeOK' BY <1>0, <1>1, <1>2, <1>5, <1>6 DEF TypeOK
<1>8. AllRecallable' BY <1>0, <1>1, RecallKept
<1>9. RebootsWereAsked' BY <1>0, <1>1, <1>2, RebootsKept DEF Asked
<1> QED BY <1>6, <1>7, <1>8, <1>9 DEF IInv

\* The entered text is the newest of the history; every other moves back.
LEMMA EnterRecallable ==
    ASSUME IInv, Enter
    PROVE  /\ entries' \in Seq(Entries) /\ Len(entries') = Len(entries) + 1
           /\ \A n \in 1..Len(entries) : entries'[n] = entries[n]
           /\ entries'[Len(entries) + 1] = [text |-> text, fate |-> "posted"]
           /\ history' \in Seq(Texts) /\ Len(history') \in 1..HistoryMax
           /\ AllRecallable'
<1>0. /\ history \in Seq(Texts) /\ Len(history) <= HistoryMax /\ Len(history) \in Nat
      /\ entries \in Seq(Entries) /\ Len(entries) \in Nat /\ text \in Texts
      /\ HistoryMax \in Nat \ {0} /\ AllRecallable
  BY LenProperties, TuiInputAssumption DEF IInv, TypeOK, Entries, Enter
<1>1. [text |-> text, fate |-> "posted"] \in Entries BY <1>0 DEF Entries, Fates
<1>2. /\ entries' \in Seq(Entries) /\ Len(entries') = Len(entries) + 1
      /\ \A n \in 1..Len(entries) : entries'[n] = entries[n]
      /\ entries'[Len(entries) + 1] = [text |-> text, fate |-> "posted"]
  BY <1>0, <1>1, AppendProperties DEF Enter
<1>3. history' = Remember(text) BY DEF Enter
<1>4. /\ history' \in Seq(Texts) /\ Len(history') \in 1..HistoryMax
      /\ history'[Len(history')] = text
      /\ \A i \in 1..Len(history) :
           \/ \E j \in 1..Len(history') :
                history'[j] = history[i] /\ Len(history') - j <= Len(history) - i + 1
           \/ i = 1 /\ Len(history) = HistoryMax
  BY <1>0, <1>3, RememberProperties
<1>5. ASSUME NEW n \in 1..Len(entries'), n = Len(entries) + 1 PROVE Recallable(n)'
  <2>1. entries'[n].text = text BY <1>2, <1>5
  <2>2. Len(history') \in 1..Len(history') /\ Len(history') - Len(history') <= Len(entries') - n
    BY <1>0, <1>2, <1>4, <1>5
  <2> QED BY <1>4, <2>1, <2>2 DEF Recallable
<1>6. ASSUME NEW n \in 1..Len(entries), NEW i \in 1..Len(history),
             history[i] = entries[n].text, Len(history) - i <= Len(entries) - n
      PROVE  Recallable(n)'
  <2>1. CASE i = 1 /\ Len(history) = HistoryMax
    <3>1. Len(entries') >= n + HistoryMax BY <1>0, <1>2, <1>6, <2>1
    <3> QED BY <3>1 DEF Recallable
  <2>2. ASSUME NEW j \in 1..Len(history'), history'[j] = history[i],
               Len(history') - j <= Len(history) - i + 1
        PROVE  Recallable(n)'
    <3>1. Len(history') - j <= Len(entries') - n BY <1>0, <1>2, <1>4, <1>6, <2>2
    <3>2. history'[j] = entries'[n].text BY <1>2, <1>6, <2>2
    <3> QED BY <3>1, <3>2 DEF Recallable
  <2> QED BY <1>4, <2>1, <2>2
<1>7. ASSUME NEW n \in 1..Len(entries), Len(entries) >= n + HistoryMax PROVE Recallable(n)'
  <2>1. Len(entries') >= n + HistoryMax BY <1>0, <1>2, <1>7
  <2> QED BY <2>1 DEF Recallable
<1>8. AllRecallable'
  <2>1. \A n \in 1..Len(entries) : Recallable(n) BY <1>0 DEF AllRecallable
  <2>2. \A n \in 1..Len(entries) : Recallable(n)' BY <1>6, <1>7, <2>1 DEF Recallable
  <2>3. \A n \in 1..Len(entries') : n \in 1..Len(entries) \/ n = Len(entries) + 1 BY <1>0, <1>2
  <2> QED BY <1>5, <2>2, <2>3 DEF AllRecallable
<1> QED BY <1>2, <1>4, <1>8

LEMMA EnterKeeps == ASSUME IInv, Enter PROVE IInv'
<1>0. TypeOK /\ RebootsWereAsked /\ entries \in Seq(Entries) BY DEF IInv, TypeOK, Entries
<1>1. /\ entries' \in Seq(Entries) /\ Len(entries') = Len(entries) + 1
      /\ \A n \in 1..Len(entries) : entries'[n] = entries[n]
      /\ entries'[Len(entries) + 1] = [text |-> text, fate |-> "posted"]
      /\ history' \in Seq(Texts) /\ Len(history') \in 1..HistoryMax
      /\ AllRecallable'
  BY EnterRecallable
<1>2. /\ UNCHANGED <<running, open, active, known, node, pending, mouse, reboots>>
      /\ Refresh(TRUE) /\ text' = Empty /\ idx' = 0 /\ draft' = Empty
  BY DEF Enter, Key
<1>3. /\ LockoutIsCurrent'
      /\ shown' \in Tiers \cup {"none"} /\ ticking' \in BOOLEAN /\ ticks' \in Nat
  BY <1>0, <1>2, RefreshIsCurrent DEF TypeOK
<1>4. Len(history') <= HistoryMax /\ 0 \in 0..Len(history') BY <1>1, TuiInputAssumption
<1>5. TypeOK' BY <1>0, <1>1, <1>2, <1>3, <1>4 DEF TypeOK, Entries
<1>6. Asked' = Asked
  <2>1. Len(entries) \in Nat BY <1>0, LenProperties
  <2>2. \A n : n \in 1..Len(entries') <=> n \in 1..Len(entries) \/ n = Len(entries) + 1
    BY <1>1, <2>1
  <2>3. entries'[Len(entries) + 1].fate = "posted" BY <1>1
  <2> QED BY <1>1, <2>2, <2>3 DEF Asked
<1>7. RebootsWereAsked' BY <1>0, <1>2, <1>6, RebootsKept
<1> QED BY <1>1, <1>3, <1>5, <1>7 DEF IInv

LEMMA GotoKeeps ==
    ASSUME IInv, NEW b \in Buffers, Switch(b), UNCHANGED <<pending, mouse, reboots, entries>>
    PROVE  IInv'
<1>0. TypeOK /\ AllRecallable /\ RebootsWereAsked BY DEF IInv
<1>1. /\ open' \in Seq(Buffers) /\ active' \in Buffers /\ LockoutIsCurrent'
      /\ shown' \in Tiers \cup {"none"} /\ ticking' \in BOOLEAN /\ ticks' \in Nat
  BY <1>0, SwitchKeeps
<1>2. UNCHANGED <<running, text, history, idx, draft, known, node>> BY DEF Switch, line
<1>3. TypeOK' BY <1>0, <1>1, <1>2 DEF TypeOK
<1>4. AllRecallable' BY <1>0, <1>2, RecallKept
<1>5. RebootsWereAsked' BY <1>0, RebootsKept DEF Asked
<1> QED BY <1>1, <1>3, <1>4, <1>5 DEF IInv

LEMMA HandleSayKeeps == ASSUME IInv, NEW n \in 1..Len(entries), HandleSay(n) PROVE IInv'
<1>0. /\ TypeOK /\ LockoutIsCurrent /\ RebootsWereAsked /\ ticks \in Nat
      /\ entries \in Seq(Entries)
  BY DEF IInv, TypeOK, Entries
<1> DEFINE excess == Kind[entries[n].text] = "long"
           locked == ~excess /\ Gate(n) # "none"
           f == IF excess \/ locked THEN "refused" ELSE "sent"
<1>1. /\ Fate(n, f) /\ Still /\ UNCHANGED <<pending, mouse, reboots>>
      /\ IF locked THEN Refresh(TRUE) ELSE UNCHANGED lock
      /\ entries[n].fate = "posted"
  BY DEF HandleSay, Takes
<1>2. f \in Fates /\ f # "done" BY DEF Fates
<1>3. UNCHANGED <<running, open, active, line, known, node>> BY <1>1 DEF Still
<1>4. UNCHANGED <<text, history, idx, draft>> BY <1>3 DEF line
<1>5. /\ entries' \in Seq(Entries) /\ AllRecallable'
      /\ text' \in Texts \cup {Empty} /\ draft' \in Texts \cup {Empty}
      /\ history' \in Seq(Texts) /\ Len(history') <= HistoryMax /\ idx' \in 0..Len(history')
  BY <1>1, <1>2, <1>3, HandledKeeps
<1>6. /\ LockoutIsCurrent'
      /\ shown' \in Tiers \cup {"none"} /\ ticking' \in BOOLEAN /\ ticks' \in Nat
  <2>1. CASE locked BY <1>0, <1>1, <2>1, RefreshIsCurrent
  <2>2. CASE ~locked
    <3>1. UNCHANGED lock BY <1>1, <2>2
    <3> QED BY <1>0, <1>3, <1>4, <3>1, LockKept DEF TypeOK, lock
  <2> QED BY <2>1, <2>2
<1>7. TypeOK' BY <1>0, <1>1, <1>3, <1>5, <1>6 DEF TypeOK, Entries
<1>8. Asked' = Asked BY <1>0, <1>1, <1>2, FateKeepsAsked
<1>9. RebootsWereAsked' BY <1>0, <1>1, <1>8, RebootsKept
<1> QED BY <1>5, <1>6, <1>7, <1>9 DEF IInv

LEMMA HandleGotoKeeps == ASSUME IInv, NEW n \in 1..Len(entries), HandleGoto(n) PROVE IInv'
<1>0. /\ TypeOK /\ LockoutIsCurrent /\ RebootsWereAsked /\ open \in Seq(Buffers)
      /\ entries \in Seq(Entries)
  BY DEF IInv, TypeOK, Entries
<1> DEFINE t == entries[n].text
           dest == CASE Kind[t] = "goto" -> {To[t]}
                     [] Kind[t] = "number" -> {open[i] : i \in {To[t]} \cap 1..Len(open)}
                     [] OTHER -> {Home} \ {active}
<1>1. /\ Fate(n, "done") /\ UNCHANGED <<pending, mouse, reboots>>
      /\ IF dest = {} THEN Still /\ UNCHANGED lock ELSE \E b \in dest : Switch(b)
      /\ entries[n].fate = "posted" /\ Kind[t] \in {"goto", "number", "close"}
  BY DEF HandleGoto, Takes
<1>2. dest \subseteq Buffers
  <2>1. t \in Texts
    <3>1. entries[n] \in Entries BY <1>0, ElementOfSeq
    <3> QED BY <3>1 DEF Entries
  <2>2. Kind[t] = "goto" => To[t] \in Buffers BY <2>1, TuiInputAssumption
  <2>3. \A i \in 1..Len(open) : open[i] \in Buffers BY <1>0, ElementOfSeq
  <2>4. Home \in Buffers BY DEF Buffers
  <2> QED BY <2>2, <2>3, <2>4
<1>3. /\ UNCHANGED <<running, line, known, node>> /\ LockoutIsCurrent'
      /\ open' \in Seq(Buffers) /\ active' \in Buffers
      /\ shown' \in Tiers \cup {"none"} /\ ticking' \in BOOLEAN /\ ticks' \in Nat
  <2>1. CASE dest = {}
    <3>1. Still /\ UNCHANGED lock BY <1>1, <2>1
    <3> QED BY <1>0, <3>1, LockKept DEF TypeOK, Still, lock, line
  <2>2. CASE dest # {}
    <3>1. PICK b \in dest : Switch(b) BY <1>1, <2>2
    <3>2. b \in Buffers BY <1>2
    <3> QED BY <1>0, <3>1, <3>2, SwitchKeeps DEF Switch
  <2> QED BY <2>1, <2>2
<1>4. /\ entries' \in Seq(Entries) /\ AllRecallable'
      /\ text' \in Texts \cup {Empty} /\ draft' \in Texts \cup {Empty}
      /\ history' \in Seq(Texts) /\ Len(history') <= HistoryMax /\ idx' \in 0..Len(history')
  BY <1>1, <1>3, HandledKeeps DEF Fates
<1>5. TypeOK' BY <1>0, <1>1, <1>3, <1>4 DEF TypeOK, Entries
<1>6. Asked' = Asked BY <1>0, <1>1, FateKeepsAsked DEF Fates
<1>7. RebootsWereAsked' BY <1>0, <1>1, <1>6, RebootsKept
<1> QED BY <1>3, <1>4, <1>5, <1>7 DEF IInv

\* A /reboot that is done with adds one to what was asked for, a confirmation takes
\* the open question for one reboot.
LEMMA HandleRebootKeeps == ASSUME IInv, NEW n \in 1..Len(entries), HandleReboot(n) PROVE IInv'
<1>0. /\ TypeOK /\ LockoutIsCurrent /\ RebootsWereAsked
      /\ entries \in Seq(Entries) /\ reboots \in Nat /\ pending \in BOOLEAN
  BY DEF IInv, TypeOK, Entries
<1>1. /\ Fate(n, "done") /\ Still /\ UNCHANGED <<lock, mouse>>
      /\ entries[n].fate = "posted"
  BY DEF HandleReboot, Takes
<1>2. UNCHANGED <<running, open, active, line, known, node>> BY <1>1 DEF Still
<1>3. /\ entries' \in Seq(Entries) /\ AllRecallable'
      /\ text' \in Texts \cup {Empty} /\ draft' \in Texts \cup {Empty}
      /\ history' \in Seq(Texts) /\ Len(history') <= HistoryMax /\ idx' \in 0..Len(history')
  BY <1>1, <1>2, HandledKeeps DEF Fates
<1>4. LockoutIsCurrent' BY <1>0, <1>1, <1>2, LockKept DEF line
<1>5. IsFiniteSet(Asked) /\ Cardinality(Asked) \in Nat BY <1>0, AskedFinite
<1>6. reboots + (IF pending THEN 1 ELSE 0) <= Cardinality(Asked)
  BY <1>0 DEF RebootsWereAsked, Asked
<1>7. /\ reboots' \in Nat /\ pending' \in BOOLEAN
      /\ reboots' + (IF pending' THEN 1 ELSE 0) <= Cardinality(Asked')
  <2>1. CASE Kind[entries[n].text] = "reboot"
    <3>1. pending' = TRUE /\ reboots' = reboots BY <2>1 DEF HandleReboot
    <3>2. n \notin Asked BY <1>1 DEF Asked
    <3>3. Asked' = Asked \cup {n} BY <1>0, <1>1, <2>1, FateProperties DEF Asked, Fates
    <3>4. Cardinality(Asked') = Cardinality(Asked) + 1 BY <1>5, <3>2, <3>3, FS_AddElement
    <3>5. reboots <= Cardinality(Asked) BY <1>0, <1>5, <1>6
    <3> QED BY <1>0, <1>5, <3>1, <3>4, <3>5
  <2>2. CASE Kind[entries[n].text] # "reboot"
    <3>1. reboots' = IF pending THEN reboots + 1 ELSE reboots
      BY <2>2 DEF HandleReboot
    <3>2. pending' = FALSE BY <2>2 DEF HandleReboot, Confirmed
    <3>3. Asked' = Asked BY <1>0, <1>1, <2>2, FateKeepsAsked DEF Fates
    <3>4. CASE pending
      <4>1. reboots + 1 <= Cardinality(Asked) BY <1>6, <3>4
      <4>2. reboots' = reboots + 1 BY <3>1, <3>4
      <4>3. reboots' \in Nat /\ reboots' + 0 <= Cardinality(Asked)
        BY <1>0, <1>5, <4>1, <4>2
      <4>4. reboots' + (IF pending' THEN 1 ELSE 0) = reboots' + 0 BY <3>2
      <4> QED BY <3>2, <3>3, <4>3, <4>4
    <3>5. CASE ~pending BY <1>0, <1>5, <1>6, <3>1, <3>2, <3>3, <3>5
    <3> QED BY <3>4, <3>5
  <2> QED BY <2>1, <2>2
<1>8. RebootsWereAsked' BY <1>7 DEF RebootsWereAsked, Asked
<1>9. TypeOK' BY <1>0, <1>1, <1>2, <1>3, <1>7 DEF TypeOK, Entries, lock
<1> QED BY <1>3, <1>4, <1>8, <1>9 DEF IInv

LEMMA HandleOtherKeeps == ASSUME IInv, NEW n \in 1..Len(entries), HandleOther(n) PROVE IInv'
<1>0. TypeOK /\ LockoutIsCurrent /\ RebootsWereAsked /\ entries \in Seq(Entries)
  BY DEF IInv, TypeOK, Entries
<1>1. /\ Fate(n, "done") /\ entries[n].fate = "posted"
      /\ Kind[entries[n].text] \in {"mouse", "quit", "print"}
      /\ UNCHANGED <<open, active, line, lock, known, node, pending, reboots>>
      /\ mouse' = (IF Kind[entries[n].text] = "mouse" THEN ~mouse ELSE mouse)
      /\ running' = (Kind[entries[n].text] # "quit")
  BY DEF HandleOther, Takes
<1>2. mouse' \in BOOLEAN /\ running' \in BOOLEAN BY <1>0, <1>1 DEF TypeOK
<1>3. /\ entries' \in Seq(Entries) /\ AllRecallable'
      /\ text' \in Texts \cup {Empty} /\ draft' \in Texts \cup {Empty}
      /\ history' \in Seq(Texts) /\ Len(history') <= HistoryMax /\ idx' \in 0..Len(history')
  BY <1>1, HandledKeeps DEF Fates
<1>4. LockoutIsCurrent' BY <1>0, <1>1, LockKept DEF line
<1>5. Asked' = Asked BY <1>0, <1>1, FateKeepsAsked DEF Fates
<1>6. RebootsWereAsked' BY <1>0, <1>1, <1>5, RebootsKept
<1>7. UNCHANGED <<open, active, shown, ticking, ticks, known, node, pending, reboots>>
  BY <1>1 DEF lock
<1>8. TypeOK' BY <1>0, <1>2, <1>3, <1>7 DEF TypeOK, Entries
<1> QED BY <1>3, <1>4, <1>6, <1>8 DEF IInv

\* Messages for buffers not open yet, budgets, reports and lock ticks.
LEMMA WorldKeeps ==
    ASSUME IInv, (\E b \in Buffers : Arrive(b)) \/ Budget \/ Report \/ LockTick
    PROVE  IInv'
<1>0. /\ TypeOK /\ LockoutIsCurrent /\ AllRecallable /\ RebootsWereAsked /\ ticks \in Nat
      /\ known \subseteq Tiers /\ node \subseteq Tiers
  BY DEF IInv, TypeOK
<1>1. UNCHANGED <<running, active, line, pending, mouse, reboots, entries>>
  BY DEF Arrive, Budget, Report, LockTick
<1>2. UNCHANGED <<text, history, idx, draft>> BY <1>1 DEF line
<1>3. AllRecallable' /\ RebootsWereAsked'
  BY <1>0, <1>1, <1>2, RecallKept, RebootsKept DEF Asked
<1>4. /\ LockoutIsCurrent'
      /\ shown' \in Tiers \cup {"none"} /\ ticking' \in BOOLEAN /\ ticks' \in Nat
  <2>1. CASE (\E b \in Buffers : Arrive(b)) \/ Budget
    <3>1. UNCHANGED <<known, lock>> BY <2>1 DEF Arrive, Budget
    <3> QED BY <1>0, <1>1, <1>2, <3>1, LockKept DEF TypeOK, lock
  <2>2. CASE Report
    <3>1. Refresh(TRUE) BY <2>2 DEF Report
    <3> QED BY <1>0, <3>1, RefreshIsCurrent
  <2>3. CASE LockTick
    <3>1. /\ shown' = Lockout(text, active, known) /\ ticking' = (shown' # "none")
          /\ UNCHANGED known /\ ticks' = IF ticking' THEN ticks ELSE ticks - 1
          /\ ticks > 0
      BY <2>3 DEF LockTick
    <3>2. LockoutIsCurrent' BY <1>1, <1>2, <3>1 DEF LockoutIsCurrent
    <3>3. shown' \in Tiers \cup {"none"} /\ ticking' \in BOOLEAN BY <3>1, TierProperties
    <3>4. ticks' \in Nat BY <1>0, <3>1
    <3> QED BY <3>2, <3>3, <3>4
  <2> QED BY <2>1, <2>2, <2>3
<1>5. open' \in Seq(Buffers) /\ known' \subseteq Tiers /\ node' \subseteq Tiers
  <2>1. CASE \E b \in Buffers : Arrive(b)
    BY <1>0, <2>1, AppendProperties DEF Arrive, TypeOK
  <2>2. CASE Budget BY <1>0, <2>2, TuiInputAssumption DEF Budget, TypeOK
  <2>3. CASE Report \/ LockTick BY <1>0, <2>3 DEF Report, LockTick, TypeOK
  <2> QED BY <2>1, <2>2, <2>3
<1>6. TypeOK' BY <1>0, <1>1, <1>2, <1>4, <1>5 DEF TypeOK
<1> QED BY <1>3, <1>4, <1>6 DEF IInv

\* Every step of the input line, of the handlers, of the node and of the clock
\* keeps the inductive invariant.
THEOREM Invariance == Spec => []IInv
<1>1. IInv /\ [Next]_vars => IInv'
  <2> SUFFICES ASSUME IInv, [Next]_vars PROVE IInv' OBVIOUS
  <2>1. CASE (\E t \in Texts \cup {Empty} : Type(t)) \/ Escape \/ HistoryUp \/ HistoryDown
    BY <2>1, EditKeeps
  <2>2. CASE Enter BY <2>2, EnterKeeps
  <2>3. CASE Goto
    <3>1. open \in Seq(Buffers) BY DEF IInv, TypeOK
    <3>2. PICK i \in 1..Len(open) : Switch(open[i]) BY <2>3 DEF Goto
    <3>3. open[i] \in Buffers BY <3>1, ElementOfSeq
    <3> QED BY <2>3, <3>2, <3>3, GotoKeeps DEF Goto
  <2>4. CASE \E b \in Buffers : Click(b) BY <2>4, GotoKeeps DEF Click
  <2>5. CASE \E n \in 1..Len(entries) : Handle(n)
    BY <2>5, HandleSayKeeps, HandleGotoKeeps, HandleRebootKeeps, HandleOtherKeeps DEF Handle
  <2>6. CASE (\E b \in Buffers : Arrive(b)) \/ Budget \/ Report \/ LockTick
    BY <2>6, WorldKeeps
  <2>7. CASE UNCHANGED vars
    <3>1. UNCHANGED <<running, open, active, text, history, idx, draft, shown, ticking, ticks,
                      known, node, pending, mouse, reboots, entries>>
      BY <2>7 DEF vars, line, lock
    <3> QED BY <3>1 DEF IInv, TypeOK, LockoutIsCurrent, Lockout, Tier, AllRecallable, Recallable,
                        RebootsWereAsked
  <2> QED BY <2>1, <2>2, <2>3, <2>4, <2>5, <2>6, <2>7 DEF Next
<1> QED BY <1>1, InitIInv, PTL DEF Spec

-----------------------------------------------------------------------------
(* Theorems *)

\* The state of the input line and of the lockout is well formed for any texts,
\* buffers and bounds.
THEOREM TypeCorrect == Spec => []TypeOK
<1>1. IInv => TypeOK BY DEF IInv
<1> QED BY <1>1, Invariance, PTL

\* The lockout drawn is that of the text in the line, the active buffer and the last
\* report, after any mix of keys, switches, recalls, reports and ticks.
THEOREM LockoutCorrect == Spec => []LockoutIsCurrent
<1>1. IInv => LockoutIsCurrent BY DEF IInv
<1> QED BY <1>1, Invariance, PTL

\* A text that Enter took and the handler refused can be recalled until HistoryMax
\* other texts were entered after it.
THEOREM RefusedCorrect == Spec => []RefusedIsRecallable
<1>1. IInv => RefusedIsRecallable BY DEF IInv, AllRecallable, Recallable, RefusedIsRecallable
<1> QED BY <1>1, Invariance, PTL

\* Every reboot has a /reboot of its own before it.
THEOREM RebootsCorrect == Spec => []RebootsWereAsked
<1>1. IInv => RebootsWereAsked BY DEF IInv
<1> QED BY <1>1, Invariance, PTL

\* A text typed for the active buffer is sent only if the last report leaves its tier
\* a budget, whatever came between Enter and the handler.
THEOREM SendCorrect == Spec => NoDepletedSend
<1> DEFINE Sent == \A n \in 1..Len(entries) :
                    entries[n].fate = "posted" /\ entries'[n].fate = "sent"
                      => Tier(entries[n].text, active) \notin known
<1>1. IInv /\ [Next]_vars => [Sent]_vars
  <2> SUFFICES ASSUME IInv, Next PROVE Sent OBVIOUS
  <2> SUFFICES ASSUME NEW n \in 1..Len(entries),
                      entries[n].fate = "posted", entries'[n].fate = "sent"
               PROVE  Tier(entries[n].text, active) \notin known
    OBVIOUS
  <2>0. entries \in Seq(Entries) BY DEF IInv, TypeOK, Entries
  <2>1. entries[n].text \in Texts
    <3>1. entries[n] \in Entries BY <2>0, ElementOfSeq
    <3> QED BY <3>1 DEF Entries
  <2>2. PICK m \in 1..Len(entries) : HandleSay(m)
    <3>1. CASE \E m \in 1..Len(entries) : HandleGoto(m) \/ HandleReboot(m) \/ HandleOther(m)
      <4>1. PICK m \in 1..Len(entries) : Fate(m, "done")
        BY <3>1 DEF HandleGoto, HandleReboot, HandleOther
      <4> QED BY <2>0, <4>1, FateProperties DEF Fates
    <3>2. CASE Enter
      <4>1. entries'[n] = entries[n] BY <3>2, EnterRecallable
      <4> QED BY <4>1
    <3>3. CASE entries' = entries BY <3>3
    <3> QED BY <3>1, <3>2, <3>3 DEF Next, Type, Escape, HistoryUp, HistoryDown, Goto, Click, Arrive,
                                    Handle, Budget, Report, LockTick
  <2>3. m = n /\ Gate(n) = "none"
    <3> DEFINE f == IF Kind[entries[m].text] = "long" \/ Gate(m) # "none" THEN "refused" ELSE "sent"
    <3>1. Fate(m, f) BY <2>2 DEF HandleSay
    <3>2. f \in Fates BY DEF Fates
    <3>3. entries'[n].fate = IF n = m THEN f ELSE entries[n].fate
      BY <2>0, <3>1, <3>2, FateProperties
    <3> QED BY <3>3
  <2>4. Tier(IF Kind[entries[n].text] = "critical" THEN entries[n].text ELSE Empty, active)
          = Tier(entries[n].text, active)
    BY <2>1, TuiInputAssumption DEF Tier
  <2> QED BY <2>3, <2>4, TierProperties DEF Gate
<1> QED BY <1>1, Invariance, PTL DEF Spec, NoDepletedSend
=============================================================================
