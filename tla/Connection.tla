----------------------------- MODULE Connection -----------------------------
(***************************************************************************)
(* The connection life cycle of the TUI (src/internal/tui/tui.go).  The    *)
(* Bubble Tea loop handles one message at a time; every command it returns *)
(* runs in a goroutine of its own and posts one message when it is done,   *)
(* so polls, dials and timers finish in any order.  A command captures     *)
(* m.client when it is CREATED, so a poll outlives the client it asks.     *)
(*                                                                         *)
(* Clients are the SDK's connections.  What a status poll reports is       *)
(* abstracted to "ok" or "err"; the other polls of a tick (neighbours,     *)
(* routes, airtime, locations) never change any variable below.  A reply   *)
(* that arrived before its link dropped and is handled after commutes with *)
(* the drop, so replies are received and handled in one step.              *)
(***************************************************************************)
EXTENDS Naturals

CONSTANTS
    Clients,       \* identities of SDK clients; a closed one nobody holds is reused
    FirstClient,   \* the client commands/tui.go connects before the loop starts
    MaxFetch,      \* bound: status polls in flight on one client
    HasConnectFn,  \* New was given a connectFn (runTUI always does)
    CallFirst      \* what the build does with "return m, m.scheduleReconnect()":
                   \* TRUE - the call changes m before m is copied into the result;
                   \* FALSE - m is copied first, and what the call did to m is lost
                   \* (the language leaves the order open; a build fixes it)

ASSUME ConnectionAssumption ==
    /\ FirstClient \in Clients
    /\ MaxFetch \in Nat \ {0}
    /\ HasConnectFn \in BOOLEAN
    /\ CallFirst \in BOOLEAN

VARIABLES
    connected,     \* m.connected
    client,        \* m.client
    backoff,       \* m.backoffSec
    retryIn,       \* m.retryIn
    link,          \* per client: "unused", "up", "down" (lost, not closed) or "closed"
    fetching,      \* per client: status polls in flight
    timers,        \* reconnectMsg timers running
    dials,         \* doReconnect goroutines running
    dialErrs,      \* failed reconnectResults not handled yet
    dialed,        \* clients of successful reconnectResults not handled yet
    subscribed     \* clients whose push callbacks post to the loop

timing == <<backoff, retryIn>>
attempt == <<timers, dials, dialErrs, dialed>>
vars == <<connected, client, timing, link, fetching, attempt, subscribed>>

MaxBackoffSec == 30
Backoffs == {1, 2, 4, 8, 16, 30}
LinkStates == {"unused", "up", "down", "closed"}

TypeOK ==
    /\ connected \in BOOLEAN
    /\ client \in Clients
    /\ backoff \in Backoffs
    /\ retryIn \in Backoffs \cup {0}
    /\ link \in [Clients -> LinkStates]
    /\ fetching \in [Clients -> 0 .. MaxFetch]
    /\ timers \in Nat /\ dials \in Nat /\ dialErrs \in Nat
    /\ dialed \subseteq Clients
    /\ subscribed \subseteq Clients

-----------------------------------------------------------------------------
(* Construction *)

\* runTUI gives the program a copy of the model and calls SetProgram on its own
\* variable afterwards, so m.bridge stays nil in the model the loop runs.
LoopHasBridge == FALSE
FaultLoopHasBridge == TRUE

\* The slash-command handler keeps the client New passed to it.
CommandClient == FirstClient

\* New, SetProgram's Start on the first client, and the first poll of Init.
Init ==
    /\ connected = TRUE
    /\ client = FirstClient
    /\ backoff = 1 /\ retryIn = 0
    /\ link = [c \in Clients |-> IF c = FirstClient THEN "up" ELSE "unused"]
    /\ fetching = [c \in Clients |-> IF c = FirstClient THEN 1 ELSE 0]
    /\ timers = 0 /\ dials = 0 /\ dialErrs = 0 /\ dialed = {}
    /\ subscribed = {FirstClient}

-----------------------------------------------------------------------------
(* Polling *)

\* tickMsg, every 5 s: poll the status on the current client, if connected.
Tick ==
    /\ connected
    /\ fetching[client] < MaxFetch
    /\ fetching' = [fetching EXCEPT ![client] = @ + 1]
    /\ UNCHANGED <<connected, client, timing, link, attempt, subscribed>>

FaultNextBackoff(b) == 2 * b
NextBackoff(b) == IF 2 * b > MaxBackoffSec THEN MaxBackoffSec ELSE 2 * b

\* Arms the timer for backoffSec seconds, announces it and doubles backoffSec.
ScheduleReconnect ==
    /\ timers' = timers + 1
    /\ IF CallFirst
       THEN retryIn' = backoff /\ backoff' = NextBackoff(backoff)
       ELSE UNCHANGED timing

\* fetchStatusResult without error.
StatusOk(c) ==
    /\ fetching[c] > 0
    /\ link[c] = "up"
    /\ fetching' = [fetching EXCEPT ![c] = @ - 1]
    /\ UNCHANGED <<connected, client, timing, link, attempt, subscribed>>

\* A fault: every failed poll starts a reconnect, connected or not.
FaultStatusErr(c) ==
    /\ fetching[c] > 0
    /\ fetching' = [fetching EXCEPT ![c] = @ - 1]
    /\ connected' = FALSE
    /\ ScheduleReconnect
    /\ UNCHANGED <<client, link, dials, dialErrs, dialed, subscribed>>

\* A fault: a failed poll is ignored, like those of neighbours and routes are.
FaultErrorIgnored(c) ==
    /\ fetching[c] > 0
    /\ fetching' = [fetching EXCEPT ![c] = @ - 1]
    /\ UNCHANGED <<connected, client, timing, link, attempt, subscribed>>

\* fetchStatusResult with an error: the link is lost, the client was closed
\* under the call, or the 5 s timeout ended a call on a healthy link.  The result
\* does not say which client was asked.
StatusErr(c) ==
    /\ fetching[c] > 0
    /\ fetching' = [fetching EXCEPT ![c] = @ - 1]
    /\ \/ /\ connected
          /\ connected' = FALSE
          /\ ScheduleReconnect
       \/ /\ ~connected
          /\ UNCHANGED <<connected, timing, timers>>
    /\ UNCHANGED <<client, link, dials, dialErrs, dialed, subscribed>>

-----------------------------------------------------------------------------
(* Reconnecting *)

\* A fault: the timer's message schedules the next attempt as well.
FaultReconnectTimer ==
    /\ timers > 0
    /\ dials' = dials + 1
    /\ UNCHANGED <<connected, client, timing, link, fetching, timers, dialErrs, dialed, subscribed>>

\* reconnectMsg: start a dial; without a connectFn nothing is started.
ReconnectTimer ==
    /\ timers > 0
    /\ timers' = timers - 1
    /\ dials' = IF HasConnectFn THEN dials + 1 ELSE dials
    /\ UNCHANGED <<connected, client, timing, link, fetching, dialErrs, dialed, subscribed>>

\* An identity for a new client: one that was never used or that nobody holds.
Free(c) ==
    /\ link[c] \in {"unused", "closed"}
    /\ fetching[c] = 0
    /\ c \notin {client, CommandClient} \cup dialed

\* doReconnect's goroutine: connectFn succeeds (Identity and Config are best
\* effort and do not fail the attempt).
DialOk(c) ==
    /\ dials > 0
    /\ Free(c)
    /\ dials' = dials - 1
    /\ dialed' = dialed \cup {c}
    /\ link' = [link EXCEPT ![c] = "up"]
    /\ subscribed' = subscribed \ {c}
    /\ UNCHANGED <<connected, client, timing, fetching, timers, dialErrs>>

\* doReconnect's goroutine: connectFn fails or its 15 s are over.
DialFails ==
    /\ dials > 0
    /\ dials' = dials - 1
    /\ dialErrs' = dialErrs + 1
    /\ UNCHANGED <<connected, client, timing, link, fetching, timers, dialed, subscribed>>

\* A fault: a failed attempt is only reported.
FaultReconnectFailed ==
    /\ dialErrs > 0
    /\ dialErrs' = dialErrs - 1
    /\ UNCHANGED <<connected, client, timing, link, fetching, timers, dials, dialed, subscribed>>

\* reconnectResult with an error.
ReconnectFailed ==
    /\ dialErrs > 0
    /\ dialErrs' = dialErrs - 1
    /\ ScheduleReconnect
    /\ UNCHANGED <<connected, client, link, fetching, dials, dialed, subscribed>>

\* A fault: the replaced client is not closed.
FaultCloseReplaced(new) == link

\* A fault: the wrong client is closed, the one just dialled.
FaultCloseNew(new) == [link EXCEPT ![new] = "closed"]

\* The links once the client that "new" replaces is closed.
CloseReplaced(new) == [link EXCEPT ![client] = "closed"]

\* A fault: the backoff of the last outage is kept.
FaultReconnected(c) ==
    /\ c \in dialed
    /\ dialed' = dialed \ {c}
    /\ link' = CloseReplaced(c)
    /\ client' = c
    /\ connected' = TRUE
    /\ fetching' = [fetching EXCEPT ![c] = @ + 1]
    /\ UNCHANGED <<timing, timers, dials, dialErrs, subscribed>>

\* reconnectResult with a client: close the old client, adopt the new one, reset
\* the backoff, restart the bridge if the model has one, and poll at once.
Reconnected(c) ==
    /\ c \in dialed
    /\ dialed' = dialed \ {c}
    /\ link' = CloseReplaced(c)
    /\ client' = c
    /\ connected' = TRUE
    /\ backoff' = 1 /\ retryIn' = 0
    /\ subscribed' = IF LoopHasBridge THEN subscribed \cup {c} ELSE subscribed
    /\ fetching' = [fetching EXCEPT ![c] = @ + 1]
    /\ UNCHANGED <<timers, dials, dialErrs>>

\* The environment: the transport of an open client fails.
LinkDrop(c) ==
    /\ link[c] = "up"
    /\ link' = [link EXCEPT ![c] = "down"]
    /\ UNCHANGED <<connected, client, timing, fetching, attempt, subscribed>>

-----------------------------------------------------------------------------

StatusReply(c) == StatusOk(c) \/ StatusErr(c)
DialReturns == DialFails \/ \E c \in Clients : DialOk(c)

Next ==
    \/ Tick
    \/ ReconnectTimer
    \/ DialFails
    \/ ReconnectFailed
    \/ \E c \in Clients : StatusOk(c)
    \/ \E c \in Clients : StatusErr(c)
    \/ \E c \in Clients : DialOk(c)
    \/ \E c \in Clients : Reconnected(c)
    \/ \E c \in Clients : LinkDrop(c)

Spec == Init /\ [][Next]_vars

\* The runtime delivers every tick and timer, every RPC ends by its 5 s timeout
\* and every dial by its 15 s timeout, and the loop takes every posted message.
\* The environment (LinkDrop) owes nothing.
Fairness ==
    /\ WF_vars(Tick)
    /\ WF_vars(ReconnectTimer)
    /\ WF_vars(DialReturns)
    /\ WF_vars(ReconnectFailed)
    /\ \A c \in Clients : WF_vars(StatusReply(c)) /\ WF_vars(Reconnected(c))

FairSpec == Spec /\ Fairness

-----------------------------------------------------------------------------
(* Safety *)

NoAttempt == timers = 0 /\ dials = 0 /\ dialErrs = 0 /\ dialed = {}

OneAttempt ==
    \/ timers = 1 /\ dials = 0 /\ dialErrs = 0 /\ dialed = {}
    \/ timers = 0 /\ dials = 1 /\ dialErrs = 0 /\ dialed = {}
    \/ timers = 0 /\ dials = 0 /\ dialErrs = 1 /\ dialed = {}
    \/ timers = 0 /\ dials = 0 /\ dialErrs = 0 /\ \E c \in Clients : dialed = {c}

\* However polls, timers and dials interleave, the loop runs no reconnect attempt
\* while it is connected and exactly one while it is not: neither two attempts that
\* fight for m.client nor none (tui.go handlers of fetchStatusResult, reconnectMsg
\* and reconnectResult).  Without a connectFn the one attempt dies at the timer.
OneReconnectChain ==
    /\ connected => NoAttempt
    /\ ~connected => OneAttempt \/ (~HasConnectFn /\ NoAttempt)

\* No connection to the node leaks: a client that was dialled and not closed is the
\* one in use or waits in a reconnectResult the loop will still handle.
NoClientLeak ==
    \A c \in Clients : link[c] \in {"up", "down"} => c \in {client} \cup dialed

\* The loop never closes the client it uses, nor the one it is about to adopt, and
\* the two are different: the close of the old client in reconnectResult cannot hit
\* the new one.
InUseNotClosed ==
    /\ \A c \in {client} \cup dialed : link[c] \in {"up", "down"}
    /\ client \notin dialed

\* The phase a user sees, from the loop's state.
Phase == IF connected THEN "online" ELSE IF timers > 0 THEN "waiting" ELSE "dialing"

Promise == INSTANCE Session WITH
    MaxBackoff <- MaxBackoffSec, phase <- Phase, wait <- retryIn

\* The loop implements Session: outages start only online, waits double from one
\* second to thirty and start over after a success (scheduleReconnect and the reset
\* in reconnectResult), in a build that changes m before it is copied.
ImplementsSession == Promise!Spec

-----------------------------------------------------------------------------
(* Liveness *)

\* Under any failures whatever, a wait ends in an attempt and an attempt ends.
KeepsTrying == Promise!KeepsTrying

\* A lost link is noticed: polling is what finds it, there is no other signal.
LossDetected ==
    \A c \in Clients : (connected /\ client = c /\ link[c] = "down") ~> ~connected

\* What the environment may do to a poll or a dial of a healthy link; the last one
\* is a healthy link that leaves a poll unanswered for the whole wait and dial of
\* a reconnect.
Disturbance ==
    \/ DialFails
    \/ \E c \in Clients : LinkDrop(c)
    \/ \E c \in Clients : link[c] = "up" /\ StatusErr(c)
    \/ \E c \in Clients : link[client] = "up" /\ fetching[client] > 0 /\ Reconnected(c)

\* If the environment leaves links, dials and polls alone from some point on, the
\* TUI ends up connected over a live link for good: late errors of polls on closed
\* clients can cost a healthy connection (fetchStatusResult does not name its
\* client), but only finitely often.  Were polls slower than the shortest wait, each
\* replaced client would leave a late error for its successor and the TUI could
\* reconnect for ever.
StableRecovery ==
    <>[][~Disturbance]_vars => <>[](connected /\ link[client] = "up")

-----------------------------------------------------------------------------
(* What the repository's documents say and the program does not do *)

\* README.md:88 promises live chat for the session: while the TUI shows a
\* connection, the client it uses delivers pushes to the loop.
PushesReachLoop == connected => client \in subscribed

\* A reconnect is for a disconnect (docs/plans/2026-02-26-tui-implementation-plan.md:199):
\* the loop goes offline only on an answer about the client it uses.
LossIsAboutClient ==
    [][connected /\ ~connected' => fetching'[client] < fetching[client]]_vars
=============================================================================
