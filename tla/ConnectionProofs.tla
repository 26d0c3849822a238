-------------------------- MODULE ConnectionProofs --------------------------
(***************************************************************************)
(* Proofs about Connection for every set of clients and every bound: the   *)
(* type invariant, the reconnect chain, ownership of clients, and that the *)
(* loop implements Session.  The inductive invariant IInv adds to the      *)
(* checked invariants that a client waiting to be adopted has not been     *)
(* polled yet (without it the poll count of an adopted client is not       *)
(* bounded) and the law that ties backoffSec to the announced wait.  At    *)
(* the end: how far the disagreements with the documents reach.            *)
(***************************************************************************)
EXTENDS Connection, TLAPS

DialedNotPolled == \A c \in dialed : fetching[c] = 0

BackoffLaw ==
    /\ connected => backoff = 1 /\ retryIn = 0
    /\ ~connected /\ CallFirst => retryIn \in Backoffs /\ backoff = NextBackoff(retryIn)
    /\ ~CallFirst => backoff = 1

IInv ==
    /\ TypeOK
    /\ OneReconnectChain
    /\ NoClientLeak
    /\ InUseNotClosed
    /\ DialedNotPolled
    /\ BackoffLaw

-----------------------------------------------------------------------------
(* Arithmetic of the backoff *)

\* Doubling up to the ceiling stays within the seven waits of an outage.
LEMMA BackoffClosed ==
    ASSUME NEW b \in Backoffs
    PROVE  NextBackoff(b) \in Backoffs
  BY DEF Backoffs, NextBackoff, MaxBackoffSec

\* The loop's doubling is the one Session promises.
LEMMA SameBackoff ==
    ASSUME NEW b \in Backoffs
    PROVE  Promise!NextWait(b) = NextBackoff(b)
  BY DEF Promise!NextWait, NextBackoff, MaxBackoffSec, Backoffs

\* Scheduling keeps the types of the timing fields and follows the law.
LEMMA ScheduleTyped ==
    ASSUME TypeOK, ScheduleReconnect
    PROVE  /\ timers' = timers + 1
           /\ backoff' \in Backoffs
           /\ retryIn' \in Backoffs \cup {0}
           /\ CallFirst => retryIn' = backoff /\ backoff' = NextBackoff(backoff)
           /\ ~CallFirst => backoff' = backoff /\ retryIn' = retryIn
  BY BackoffClosed DEF TypeOK, ScheduleReconnect, timing

-----------------------------------------------------------------------------
(* The invariant is inductive *)

\* The first client is open, polled once and alone.
LEMMA InitIInv == Init => IInv
  <1> SUFFICES ASSUME Init PROVE IInv
    OBVIOUS
  <1> USE ConnectionAssumption DEF Init
  <1>1. TypeOK
    BY DEF TypeOK, Backoffs, LinkStates
  <1>2. OneReconnectChain
    BY DEF OneReconnectChain, NoAttempt
  <1>3. NoClientLeak /\ InUseNotClosed
    BY DEF NoClientLeak, InUseNotClosed
  <1>4. DialedNotPolled /\ BackoffLaw
    BY DEF DialedNotPolled, BackoffLaw
  <1> QED BY <1>1, <1>2, <1>3, <1>4 DEF IInv

\* Polling and its good answers touch the poll counts of unclosed clients only.
LEMMA PollStep ==
    ASSUME IInv, Tick \/ \E c \in Clients : StatusOk(c)
    PROVE  IInv'
  <1> USE DEF IInv
  <1>1. CASE Tick
    <2> USE <1>1 DEF Tick, timing, attempt
    <2>1. TypeOK'
      BY ConnectionAssumption DEF TypeOK
    <2>2. OneReconnectChain' /\ NoClientLeak' /\ InUseNotClosed' /\ BackoffLaw'
      BY DEF OneReconnectChain, NoAttempt, OneAttempt, NoClientLeak, InUseNotClosed, BackoffLaw
    <2>3. DialedNotPolled'
      BY DEF DialedNotPolled, InUseNotClosed, TypeOK
    <2> QED BY <2>1, <2>2, <2>3
  <1>2. ASSUME NEW c \in Clients, StatusOk(c)
        PROVE  IInv'
    <2> USE <1>2 DEF StatusOk, timing, attempt
    <2>1. TypeOK'
      BY ConnectionAssumption DEF TypeOK
    <2>2. OneReconnectChain' /\ NoClientLeak' /\ InUseNotClosed' /\ BackoffLaw'
      BY DEF OneReconnectChain, NoAttempt, OneAttempt, NoClientLeak, InUseNotClosed, BackoffLaw
    <2>3. DialedNotPolled'
      BY DEF DialedNotPolled, TypeOK
    <2> QED BY <2>1, <2>2, <2>3
  <1> QED BY <1>1, <1>2

\* A failed poll starts the chain if the loop was connected and is dropped if not.
LEMMA StatusErrStep ==
    ASSUME IInv, NEW c \in Clients, StatusErr(c)
    PROVE  IInv'
  <1> USE DEF IInv
  <1>1. /\ fetching' = [fetching EXCEPT ![c] = @ - 1] /\ fetching[c] > 0
        /\ UNCHANGED <<client, link, dials, dialErrs, dialed, subscribed>>
    BY DEF StatusErr
  <1>2. fetching' \in [Clients -> 0 .. MaxFetch] /\ DialedNotPolled'
    BY <1>1, ConnectionAssumption DEF TypeOK, DialedNotPolled
  <1>3. NoClientLeak' /\ InUseNotClosed'
    BY <1>1 DEF NoClientLeak, InUseNotClosed
  <1>4. CASE connected /\ connected' = FALSE /\ ScheduleReconnect
    <2>1. TypeOK'
      <3>1. timers' = timers + 1 /\ backoff' \in Backoffs /\ retryIn' \in Backoffs \cup {0}
        BY <1>4, ScheduleTyped
      <3>2. connected' \in BOOLEAN
        BY <1>4
      <3>3. link' \in [Clients -> LinkStates] /\ client' \in Clients /\ dialed' \subseteq Clients
            /\ subscribed' \subseteq Clients /\ dials' \in Nat /\ dialErrs' \in Nat /\ timers' \in Nat
        BY <1>1, <3>1 DEF TypeOK
      <3> QED BY <1>2, <3>1, <3>2, <3>3 DEF TypeOK
    <2>2. OneReconnectChain'
      BY <1>1, <1>4, ScheduleTyped DEF OneReconnectChain, NoAttempt, OneAttempt
    <2>3. BackoffLaw'
      BY <1>4, ScheduleTyped, BackoffClosed DEF BackoffLaw, TypeOK
    <2> QED BY <1>2, <1>3, <2>1, <2>2, <2>3
  <1>5. CASE ~connected /\ UNCHANGED <<connected, timing, timers>>
    <2> USE <1>5 DEF timing
    <2>1. TypeOK'
      BY <1>1, <1>2 DEF TypeOK
    <2>2. OneReconnectChain' /\ BackoffLaw'
      BY <1>1 DEF OneReconnectChain, NoAttempt, OneAttempt, BackoffLaw
    <2> QED BY <1>2, <1>3, <2>1, <2>2
  <1> QED BY <1>4, <1>5 DEF StatusErr

\* The timer hands the chain to the dial, the dial to its result.
LEMMA AttemptStep ==
    ASSUME IInv, ReconnectTimer \/ DialFails
    PROVE  IInv'
  <1> USE DEF IInv
  <1>1. UNCHANGED <<connected, client, backoff, retryIn, link, fetching, dialed, subscribed>>
    BY DEF ReconnectTimer, DialFails, timing
  <1>2. NoClientLeak' /\ InUseNotClosed' /\ DialedNotPolled' /\ BackoffLaw'
    BY <1>1 DEF NoClientLeak, InUseNotClosed, DialedNotPolled, BackoffLaw
  <1>3. TypeOK' /\ OneReconnectChain'
    <2>1. CASE ReconnectTimer
      BY <1>1, <2>1, ConnectionAssumption
         DEF ReconnectTimer, TypeOK, OneReconnectChain, NoAttempt, OneAttempt
    <2>2. CASE DialFails
      BY <1>1, <2>2 DEF DialFails, TypeOK, OneReconnectChain, NoAttempt, OneAttempt
    <2> QED BY <2>1, <2>2
  <1> QED BY <1>2, <1>3

\* A dialled client is new: it is neither in use nor polled.
LEMMA DialOkStep ==
    ASSUME IInv, NEW c \in Clients, DialOk(c)
    PROVE  IInv'
  <1> USE DEF IInv, DialOk, Free, timing
  <1>1. TypeOK'
    BY DEF TypeOK, LinkStates
  <1>2. OneReconnectChain'
    BY DEF TypeOK, OneReconnectChain, NoAttempt, OneAttempt
  <1>3. NoClientLeak' /\ InUseNotClosed'
    BY DEF TypeOK, NoClientLeak, InUseNotClosed
  <1>4. DialedNotPolled' /\ BackoffLaw'
    BY DEF DialedNotPolled, BackoffLaw
  <1> QED BY <1>1, <1>2, <1>3, <1>4

\* A failed attempt goes back to the timer with the next wait.
LEMMA ReconnectFailedStep ==
    ASSUME IInv, ReconnectFailed
    PROVE  IInv'
  <1> USE DEF IInv
  <1>1. /\ UNCHANGED <<connected, client, link, fetching, dials, dialed, subscribed>>
        /\ dialErrs > 0 /\ dialErrs' = dialErrs - 1 /\ ScheduleReconnect
    BY DEF ReconnectFailed
  <1>2. TypeOK'
    BY <1>1, ScheduleTyped DEF TypeOK
  <1>3. OneReconnectChain'
    BY <1>1, ScheduleTyped DEF TypeOK, OneReconnectChain, NoAttempt, OneAttempt
  <1>4. NoClientLeak' /\ InUseNotClosed' /\ DialedNotPolled'
    BY <1>1 DEF NoClientLeak, InUseNotClosed, DialedNotPolled
  <1>5. ~connected /\ BackoffLaw'
    BY <1>1, ScheduleTyped DEF TypeOK, OneReconnectChain, NoAttempt, BackoffLaw
  <1> QED BY <1>2, <1>3, <1>4, <1>5

\* Adopting a client closes the one it replaces and no other.
LEMMA ReconnectedStep ==
    ASSUME IInv, NEW c \in Clients, Reconnected(c)
    PROVE  IInv'
  <1> USE DEF IInv, Reconnected
  <1>1. dialed = {c} /\ dialed' = {} /\ c # client /\ fetching[c] = 0
    BY DEF OneReconnectChain, NoAttempt, OneAttempt, InUseNotClosed, DialedNotPolled
  <1>2. link' = [link EXCEPT ![client] = "closed"]
    BY DEF CloseReplaced
  <1>3. TypeOK'
    BY <1>1, <1>2, ConnectionAssumption DEF TypeOK, LinkStates, Backoffs
  <1>4. OneReconnectChain' /\ DialedNotPolled' /\ BackoffLaw'
    BY <1>1 DEF OneReconnectChain, NoAttempt, OneAttempt, DialedNotPolled, BackoffLaw
  <1>5. NoClientLeak' /\ InUseNotClosed'
    BY <1>1, <1>2 DEF TypeOK, NoClientLeak, InUseNotClosed
  <1> QED BY <1>3, <1>4, <1>5

\* A dropped link was up, so it was owned, and it stays so.
LEMMA LinkDropStep ==
    ASSUME IInv, NEW c \in Clients, LinkDrop(c)
    PROVE  IInv'
  <1> USE DEF IInv, LinkDrop, timing, attempt
  <1>1. TypeOK'
    BY DEF TypeOK, LinkStates
  <1>2. NoClientLeak' /\ InUseNotClosed'
    BY DEF TypeOK, NoClientLeak, InUseNotClosed
  <1>3. OneReconnectChain' /\ DialedNotPolled' /\ BackoffLaw'
    BY DEF OneReconnectChain, NoAttempt, OneAttempt, DialedNotPolled, BackoffLaw
  <1> QED BY <1>1, <1>2, <1>3

\* Every step of the loop and of its environment preserves the invariant.
LEMMA NextIInv == IInv /\ [Next]_vars => IInv'
  <1> SUFFICES ASSUME IInv, [Next]_vars PROVE IInv'
    OBVIOUS
  <1>1. CASE UNCHANGED vars
    BY <1>1 DEF IInv, vars, timing, attempt, TypeOK, OneReconnectChain, NoAttempt, OneAttempt,
               NoClientLeak, InUseNotClosed, DialedNotPolled, BackoffLaw
  <1>2. CASE Next
    BY <1>2, PollStep, StatusErrStep, AttemptStep, DialOkStep, ReconnectFailedStep,
       ReconnectedStep, LinkDropStep DEF Next
  <1> QED BY <1>1, <1>2

-----------------------------------------------------------------------------
(* What follows for every behaviour *)

\* IInv holds in every reachable state.
THEOREM Invariance == Spec => []IInv
  BY InitIInv, NextIInv, PTL DEF Spec

\* The loop's fields keep their types; backoffSec only takes the values 1, 2, 4, 8,
\* 16 and 30 and no client ever exceeds its bound of polls.
THEOREM TypeCorrect == Spec => []TypeOK
  BY Invariance, PTL DEF IInv

\* At any time there is exactly one reconnect attempt, or none, as connected says.
THEOREM ReconnectChain == Spec => []OneReconnectChain
  BY Invariance, PTL DEF IInv

\* No client is lost without being closed, whatever the order of results.
THEOREM NoLeak == Spec => []NoClientLeak
  BY Invariance, PTL DEF IInv

\* The client in use and the one about to be adopted are open and different.
THEOREM InUseOpen == Spec => []InUseNotClosed
  BY Invariance, PTL DEF IInv

-----------------------------------------------------------------------------
(* Refinement *)

\* The initial state is online with no wait.
LEMMA InitRefines == Init => Promise!Init
  BY DEF Init, Promise!Init, Phase

\* Each step of the loop is a step of Session or leaves phase and wait alone.
LEMMA StepRefines ==
    ASSUME CallFirst, IInv, [Next]_vars
    PROVE  [Promise!Next]_(Promise!sessionVars)
  <1> USE DEF Promise!sessionVars, Phase
  <1>1. CASE UNCHANGED vars
    BY <1>1 DEF vars, timing, attempt
  <1>2. CASE Tick \/ (\E c \in Clients : StatusOk(c) \/ LinkDrop(c))
    BY <1>2 DEF Tick, StatusOk, LinkDrop, timing, attempt
  <1>3. ASSUME NEW c \in Clients, StatusErr(c)
        PROVE  [Promise!Next]_(Promise!sessionVars)
    <2>1. CASE connected /\ connected' = FALSE /\ ScheduleReconnect
      <3>1. timers' > 0 /\ retryIn' = 1
        BY <2>1, ScheduleTyped DEF IInv, TypeOK, BackoffLaw
      <3> QED BY <2>1, <3>1 DEF Promise!Next, Promise!Lose
    <2>2. CASE ~connected /\ UNCHANGED <<connected, timing, timers>>
      BY <2>2 DEF timing
    <2> QED BY <1>3, <2>1, <2>2 DEF StatusErr
  <1>4. CASE ReconnectTimer
    <2>1. ~connected /\ timers = 1 /\ timers' = 0
      BY <1>4 DEF ReconnectTimer, IInv, TypeOK, OneReconnectChain, NoAttempt, OneAttempt
    <2> QED BY <1>4, <2>1 DEF ReconnectTimer, timing, Promise!Next, Promise!Attempt
  <1>5. CASE DialFails \/ \E c \in Clients : DialOk(c)
    BY <1>5 DEF DialFails, DialOk, timing
  <1>6. CASE ReconnectFailed
    <2>1. ~connected /\ timers = 0 /\ UNCHANGED connected /\ ScheduleReconnect
      BY <1>6 DEF ReconnectFailed, IInv, TypeOK, OneReconnectChain, NoAttempt, OneAttempt
    <2>2. timers' > 0 /\ retryIn' = Promise!NextWait(retryIn)
      BY <2>1, ScheduleTyped, SameBackoff DEF IInv, TypeOK, BackoffLaw
    <2> QED BY <2>1, <2>2 DEF Promise!Next, Promise!Retry
  <1>7. ASSUME NEW c \in Clients, Reconnected(c)
        PROVE  [Promise!Next]_(Promise!sessionVars)
    <2>1. ~connected /\ timers = 0
      BY <1>7 DEF Reconnected, IInv, TypeOK, OneReconnectChain, NoAttempt, OneAttempt
    <2> QED BY <1>7, <2>1 DEF Reconnected, Promise!Next, Promise!Resume
  <1> QED BY <1>1, <1>2, <1>3, <1>4, <1>5, <1>6, <1>7 DEF Next

\* In a build that changes m before it is copied, every behaviour of the loop is one
\* that Session allows: the waits of an outage double from one second to thirty.
THEOREM LoopImplementsSession ==
    ASSUME CallFirst
    PROVE  Spec => ImplementsSession
  <1>1. IInv /\ [Next]_vars => [Promise!Next]_(Promise!sessionVars)
    BY StepRefines
  <1> QED
    BY InitRefines, Invariance, <1>1, PTL DEF Spec, ImplementsSession, Promise!Spec

-----------------------------------------------------------------------------
(* How far the two disagreements with the documents reach *)

\* Pushes reach the loop from the first client and from no other.
OnlyFirstDelivers ==
    /\ client \in subscribed <=> client = FirstClient
    /\ subscribed \subseteq {FirstClient}
    /\ FirstClient \in subscribed /\ FirstClient \notin dialed

LEMMA DeliversStep ==
    ASSUME OnlyFirstDelivers, [Next]_vars
    PROVE  OnlyFirstDelivers'
  <1> USE DEF OnlyFirstDelivers
  <1>1. CASE UNCHANGED <<client, dialed, subscribed>>
    BY <1>1
  <1>2. ASSUME NEW c \in Clients, DialOk(c)
        PROVE  OnlyFirstDelivers'
    BY <1>2 DEF DialOk, Free, CommandClient
  <1>3. ASSUME NEW c \in Clients, Reconnected(c)
        PROVE  OnlyFirstDelivers'
    BY <1>3 DEF Reconnected, LoopHasBridge
  <1> QED
    BY <1>1, <1>2, <1>3
       DEF Next, Tick, StatusOk, StatusErr, ReconnectTimer, DialFails, ReconnectFailed, LinkDrop,
           vars, timing, attempt

\* With m.bridge nil in the loop's model, the first reconnect ends live chat for
\* good: a connection shown gets its pushes exactly as long as it is the first one.
THEOREM PushesEndWithFirst == Spec => [](PushesReachLoop <=> (connected => client = FirstClient))
  <1>1. Init => OnlyFirstDelivers
    BY DEF Init, OnlyFirstDelivers
  <1>2. OnlyFirstDelivers /\ [Next]_vars => OnlyFirstDelivers'
    BY DeliversStep
  <1>3. OnlyFirstDelivers => (PushesReachLoop <=> (connected => client = FirstClient))
    BY DEF OnlyFirstDelivers, PushesReachLoop
  <1> QED BY <1>1, <1>2, <1>3, PTL DEF Spec

\* Every poll of a client is answered before another one takes its place.
PollsAnswered == \A c \in Clients : Reconnected(c) => fetching[client] = 0

NoStragglers == \A c \in Clients \ {client} : fetching[c] = 0

LEMMA StragglersStep ==
    ASSUME IInv, NoStragglers, [Next /\ PollsAnswered]_vars
    PROVE  NoStragglers'
  <1> USE DEF IInv, TypeOK, NoStragglers
  <1>1. CASE UNCHANGED <<client, fetching>>
    BY <1>1
  <1>2. CASE Tick \/ \E c \in Clients : StatusOk(c) \/ StatusErr(c)
    BY <1>2 DEF Tick, StatusOk, StatusErr
  <1>3. ASSUME NEW c \in Clients, Reconnected(c), PollsAnswered
        PROVE  NoStragglers'
    BY <1>3 DEF Reconnected, PollsAnswered
  <1> QED
    BY <1>1, <1>2, <1>3
       DEF Next, ReconnectTimer, DialOk, DialFails, ReconnectFailed, LinkDrop, vars, timing, attempt

\* The connection goes offline over an answer about another client only if a poll
\* outlives its client: fetchStatusResult needs no name for the client as long as a
\* reconnect finds every poll answered.
THEOREM LateAnswersAreTheCause ==
    Init /\ [][Next /\ PollsAnswered]_vars => LossIsAboutClient
  <1>1. Init => IInv /\ NoStragglers
    BY InitIInv, ConnectionAssumption DEF Init, NoStragglers
  <1>2. IInv /\ NoStragglers /\ [Next /\ PollsAnswered]_vars => IInv' /\ NoStragglers'
    BY NextIInv, StragglersStep
  <1>3. IInv /\ NoStragglers /\ [Next /\ PollsAnswered]_vars
          => [connected /\ ~connected' => fetching'[client] < fetching[client]]_vars
    <2> SUFFICES ASSUME IInv, NoStragglers, Next, connected, ~connected'
                 PROVE  fetching'[client] < fetching[client]
      OBVIOUS
    <2>1. PICK c \in Clients : StatusErr(c)
      BY DEF Next, Tick, StatusOk, ReconnectTimer, DialOk, DialFails, ReconnectFailed, Reconnected,
             LinkDrop
    <2>2. c = client
      BY <2>1 DEF StatusErr, NoStragglers, IInv, TypeOK
    <2> QED BY <2>1, <2>2 DEF StatusErr, IInv, TypeOK
  <1> QED BY <1>1, <1>2, <1>3, PTL DEF LossIsAboutClient

=============================================================================
