----------------------------- MODULE Collection -----------------------------
(***************************************************************************)
(* The commands that wait for what the mesh or the bench says:             *)
(* src/internal/commands/broadcast.go (--wait-delivery), probe.go,         *)
(* monitor.go, traffic.go (monitor), console.go and fleet.go, and          *)
(* src/internal/discovery/mdns.go for discover.                            *)
(*                                                                         *)
(* The client calls back in a goroutine of its own.  broadcast and probe   *)
(* put what it brings into a channel of QueueMax entries, dropping what    *)
(* does not fit, and a select loop takes it out; the monitors print in the *)
(* callback; console reads a port and discover a socket; fleet has a       *)
(* goroutine per port.  A select with several cases ready takes any.       *)
(*                                                                         *)
(* Answers are the receipts, results, events, lines or rows that may come, *)
(* each at most once.  Whether one fits the id of the broadcast, the       *)
(* pattern or direction asked for, or comes from a Bramble node, is Passes. *)
(***************************************************************************)
EXTENDS Naturals, FiniteSets

CONSTANTS
    Answers,   \* what may arrive; for fleet, the ports
    Type,      \* per answer: the kind of event it is for monitor
    Passes,    \* answers that fit the filters
    QueueMax   \* capacity of deliveryCh and resultCh, and of the socket

Queued == {"broadcast", "probe", "discover"}
Monitors == {"monitor", "first", "traffic"}
Consoles == {"console", "timed"}
Commands == Queued \cup Monitors \cup Consoles \cup {"fleet"}
Types == {"message", "ack", "neighbor", "delivery", "traffic", "wifi", "gps", "location"}
Topics == {"mesh", "traffic", "wifi", "gps", "location"}
Flags == [only : SUBSET {"messages", "neighbors"}, events : SUBSET Types, topics : SUBSET Topics]

ASSUME CollectionAssumption ==
    /\ IsFiniteSet(Answers) /\ Answers # {}
    /\ Type \in [Answers -> Types]
    /\ Passes \subseteq Answers
    /\ QueueMax \in Nat \ {0}

VARIABLES
    command,    \* the one this process runs; "first" is monitor --follow=false,
                \* "timed" console --duration
    flags,      \* of monitor: --messages and --neighbors, --events, --topic
    phase,      \* "start", "asked" (the request is out), "open", "draining" (a probe
                \* that is complete empties its channel), "closing", "done"
    ended,      \* why it is over
    listening,  \* the callbacks are registered, the port is open
    coming,     \* answers that did not arrive yet
    queue,      \* answers in the channel
    printed,    \* answers collected or printed; for fleet, the rows written
    complete,   \* completeCh or matchedCh holds a value
    quit,       \* a signal is in sigCh
    enabled,    \* the node's traffic debug switch
    dropped     \* history variable: answers the channel had no room for

window == <<coming, queue, printed, complete, dropped>>
vars == <<command, flags, phase, ended, listening, window, quit, enabled>>

TypeOK ==
    /\ command \in Commands /\ flags \in Flags
    /\ phase \in {"start", "asked", "open", "draining", "closing", "done"}
    /\ ended \in {"no", "error", "time", "complete", "match", "signal", "rows", "read"}
    /\ listening \in BOOLEAN
    /\ coming \subseteq Answers /\ queue \subseteq Answers /\ printed \subseteq Answers
    /\ dropped \subseteq Answers
    /\ complete \in BOOLEAN /\ quit \in BOOLEAN /\ enabled \in BOOLEAN

Init ==
    /\ command \in Commands
    /\ flags \in {f \in Flags :
                   /\ Cardinality(f.events) <= 1 /\ f.topics \in {{}, {"mesh"}, {"traffic"}}
                   /\ command \notin {"monitor", "first"} => f = [only |-> {}, events |-> {}, topics |-> {}]}
    /\ phase = "start" /\ ended = "no" /\ listening = FALSE
    /\ coming = Answers /\ queue = {} /\ printed = {} /\ dropped = {}
    /\ complete = FALSE /\ quit = FALSE /\ enabled \in BOOLEAN

Ends(why) ==
    /\ phase' = "done" /\ ended' = why
    /\ UNCHANGED <<command, flags, listening, window, quit, enabled>>
Fail == Ends("error")

-----------------------------------------------------------------------------
(* Up to the window *)

\* A request to the node goes out; on an error the command ends.
Asks(cmd, first) ==
    /\ command = cmd /\ phase = "start"
    /\ \/ Fail
       \/ phase' = "asked" /\ listening' = first /\ UNCHANGED <<command, flags, ended, window, quit, enabled>>

\* A fault: the callback is registered once the request is out.
FaultListensFirst == FALSE

\* broadcast registers its callback before it sends.
ListensFirst == TRUE

\* To all, critical or to a channel.
AskBroadcast == Asks("broadcast", ListensFirst)

\* discover opens its socket before the query.
AskDiscover == Asks("discover", TRUE)

AskProbe == Asks("probe", FALSE)

\* Whether traffic events are on.
AskTraffic == Asks("traffic", FALSE)

\* The monitor of traffic switches the events on if they are off.
Enable ==
    /\ command = "traffic" /\ phase = "asked" /\ ~enabled
    /\ \/ Fail
       \/ enabled' = TRUE /\ UNCHANGED <<command, flags, phase, ended, listening, window, quit>>

\* The window opens.
Opens(cmds, from) ==
    /\ command \in cmds /\ phase = from
    /\ phase' = "open" /\ listening' = TRUE
    /\ UNCHANGED <<command, flags, ended, window, quit, enabled>>

\* The call has returned: the loop begins, for probe with its callbacks, timeout
\* and signals.
OpenWait == Opens({"broadcast", "discover"}, "asked")
OpenProbe == Opens({"probe"}, "asked")
OpenTraffic == enabled /\ Opens({"traffic"}, "asked")

\* monitor registers one callback after the other, console opens the port and
\* fleet starts its goroutines.
OpenMonitor == Opens({"monitor", "first"}, "start")
OpenConsole == Opens(Consoles, "start")
OpenFleet == Opens({"fleet"}, "start")

\* The pattern does not compile, the ports cannot be listed, the connection or
\* the port fails.
Refused == phase = "start" /\ Fail

-----------------------------------------------------------------------------
(* The callbacks *)

\* A fault: a full channel is emptied for the new entry.
FaultPut(a) == IF Cardinality(queue) < QueueMax THEN queue \cup {a} ELSE {a}

\* The non-blocking send of a callback.
Put(a) == IF Cardinality(queue) < QueueMax THEN queue \cup {a} ELSE queue

\* The kinds monitor registers for: those of --events, else --messages and
\* --neighbors leave out each other and the receipts, and nothing else.
Shows ==
    IF flags.events # {} THEN flags.events
    ELSE {"traffic", "wifi", "gps", "location"}
           \cup (IF flags.only # {"neighbors"} THEN {"message"} ELSE {})
           \cup (IF flags.only # {"messages"} THEN {"neighbor"} ELSE {})
           \cup (IF flags.only = {} THEN {"ack", "delivery"} ELSE {})

Topic(a) == IF Type[a] \in {"message", "ack", "neighbor", "delivery"} THEN "mesh" ELSE Type[a]

\* monitorEventMatches: the topics, the pattern and the age.
Matches(a) == a \in Passes /\ (flags.topics = {} \/ Topic(a) \in flags.topics)

\* What monitor prints.
Emits(a) == Type[a] \in Shows /\ Matches(a)

\* A fault: matchedCh gets its value when the match is the first event at all.
FaultMatched(a) == Emits(a) /\ coming = Answers

\* monitor --follow=false notes the first match; more of them change nothing.
Matched(a) == Emits(a)

\* The callbacks run beside the select loop, and beside the drain of a probe.
Looping == phase \in {"open", "draining"}

\* Something reaches the client, listening or not.
Arrive(a, cmds) ==
    /\ command \in cmds /\ a \in coming /\ (phase = "asked" \/ Looping)
    /\ coming' = coming \ {a}
    /\ UNCHANGED <<command, flags, phase, ended, listening, quit, enabled>>

ArriveQueued(a) ==
    /\ queue' = IF listening THEN Put(a) ELSE queue
    /\ dropped' = IF listening /\ Cardinality(queue) >= QueueMax THEN dropped \cup {a} ELSE dropped
    /\ UNCHANGED <<printed, complete>>
    /\ Arrive(a, Queued)

ArriveEvent(a) ==
    /\ printed' = IF listening /\ Emits(a) THEN printed \cup {a} ELSE printed
    /\ complete' = (complete \/ (command = "first" /\ listening /\ Matched(a)))
    /\ UNCHANGED <<queue, dropped>>
    /\ Arrive(a, {"monitor", "first"})

\* The monitor of traffic: the direction and the category.
ArriveTraffic(a) ==
    /\ printed' = IF listening /\ a \in Passes THEN printed \cup {a} ELSE printed
    /\ UNCHANGED <<queue, dropped, complete>>
    /\ Arrive(a, {"traffic"})

\* A line of the console is printed unless it is empty, a frame of the RPC layer
\* or does not match.
ArriveLine(a) ==
    /\ listening /\ printed' = IF a \in Passes THEN printed \cup {a} ELSE printed
    /\ UNCHANGED <<queue, dropped, complete>>
    /\ Arrive(a, Consoles)

\* The goroutine of a port is through: its row says what the node answered, or
\* the error of connecting or of its status.
ArriveRow(a) ==
    /\ listening /\ printed' = printed \cup {a}
    /\ UNCHANGED <<queue, dropped, complete>>
    /\ Arrive(a, {"fleet"})

Arrives(a) == ArriveQueued(a) \/ ArriveEvent(a) \/ ArriveTraffic(a) \/ ArriveLine(a) \/ ArriveRow(a)

\* The node says that the probe is complete.
Complete ==
    /\ command = "probe" /\ (phase = "asked" \/ Looping)
    /\ complete' = (complete \/ listening)
    /\ UNCHANGED <<command, flags, phase, ended, listening, coming, queue, printed, dropped,
                   quit, enabled>>

\* Ctrl+C, caught once the window is open; broadcast, discover and fleet do not.
Interrupt ==
    /\ Looping /\ command \notin {"broadcast", "discover", "fleet"}
    /\ quit' = TRUE
    /\ UNCHANGED <<command, flags, phase, ended, listening, window, enabled>>

-----------------------------------------------------------------------------
(* The select loop *)

\* A fault: receipts of other broadcasts are counted.
FaultCounts(a) == TRUE

\* The broadcast loop compares ids, discover looks for names; a probe takes every
\* result.
Counts(a) == command # "probe" => a \in Passes

Take(a) ==
    /\ Looping /\ a \in queue
    /\ queue' = queue \ {a}
    /\ printed' = IF Counts(a) THEN printed \cup {a} ELSE printed
    /\ UNCHANGED <<command, flags, phase, ended, listening, coming, complete, dropped, quit, enabled>>

\* The timer of broadcast and the deadlines of probe and discover.
CloseBroadcast == phase = "open" /\ command = "broadcast" /\ Ends("time")
CloseProbe == phase = "open" /\ command = "probe" /\ Ends("time")
CloseDiscover == phase = "open" /\ command = "discover" /\ Ends("time")

\* A signal ends the loop of probe and of the monitors.
CloseOnSignal == phase = "open" /\ quit /\ command \notin Consoles /\ Ends("signal")

\* console: the timer or a signal ends the context, and then the port is closed.
CloseConsole ==
    /\ phase = "open" /\ command \in Consoles /\ (quit \/ command = "timed")
    /\ phase' = "closing"
    /\ UNCHANGED <<command, flags, ended, listening, window, quit, enabled>>

CloseOnMatch ==
    /\ phase = "open" /\ command = "first" /\ complete
    /\ Ends("match")

\* A fault: a sweep ends with its first row.
FaultAllRows == printed # {}

\* wg.Wait: every goroutine is through.
AllRows == coming = {}

CloseOnRows ==
    /\ phase = "open" /\ command = "fleet" /\ AllRows
    /\ Ends("rows")

\* A probe that is complete takes nothing but results from now on, one after the
\* other, while more may come ...
CloseOnComplete ==
    /\ phase = "open" /\ command = "probe" /\ complete
    /\ phase' = "draining" /\ complete' = FALSE
    /\ UNCHANGED <<command, flags, ended, listening, coming, queue, printed, dropped, quit,
                   enabled>>

\* A fault: the drain ends whatever is in the channel.
FaultDrained == TRUE

\* ... until it finds the channel empty.
Drained == queue = {}

DrainEnds == phase = "draining" /\ Drained /\ Ends("complete")

\* The read of the console returns.  A goroutine closes the port when the timer
\* or a signal ended the context, and then the error of the read is none.
ReadEnds ==
    /\ phase = "closing" \/ (phase = "open" /\ command \in Consoles)
    /\ \/ Ends("read")
       \/ phase = "open" /\ Ends("error")

Close ==
    \/ CloseBroadcast \/ CloseProbe \/ CloseDiscover \/ CloseConsole
    \/ CloseOnSignal \/ CloseOnMatch \/ CloseOnRows \/ CloseOnComplete \/ DrainEnds
Ask == AskBroadcast \/ AskDiscover \/ AskProbe \/ AskTraffic
Open == OpenWait \/ OpenProbe \/ OpenTraffic \/ OpenMonitor \/ OpenConsole \/ OpenFleet

Next ==
    \/ Ask \/ Enable \/ Open \/ Refused
    \/ \E a \in Answers : Arrives(a) \/ Take(a)
    \/ Complete \/ Interrupt
    \/ Close \/ ReadEnds

\* Calls return and timers fire; the drain goes on as long as it finds something;
\* the probe of a port has a timeout, so its row comes.  Nothing makes the mesh
\* answer, the node complete or the user stop.
Fairness ==
    /\ WF_vars(Ask) /\ WF_vars(Enable) /\ WF_vars(Open)
    /\ WF_vars(Close) /\ WF_vars(phase = "closing" /\ ReadEnds)
    /\ WF_vars(phase = "draining" /\ \E a \in Answers : Take(a))
    /\ \A a \in Answers : WF_vars(ArriveRow(a))

Spec == Init /\ [][Next]_vars /\ Fairness

-----------------------------------------------------------------------------
(* Properties *)

\* What a command that listens from the first moment on should report.
Due(a) == command # "probe" => a \in Passes
Accounted(c) ==
    command = c =>
        \A a \in Answers : Due(a) =>
            (a \in coming <=> a \notin printed \cup queue \cup dropped)

\* A receipt of this broadcast is counted, waits in the channel or found it
\* full, wherever it arrived: also before SendBroadcast returned.  No receipt of
\* another one is counted.  The same goes for the answers to discover.
ReceiptsAddUp ==
    /\ Accounted("broadcast") /\ Accounted("discover")
    /\ command \in {"broadcast", "discover"} => printed \subseteq Passes

\* A window that ends because all is said leaves nothing unread: a probe that is
\* complete has nothing in its channel, also of what came while it was emptied, a
\* sweep has a row for every port.
NothingLeftBehind ==
    /\ ended = "complete" => queue = {}
    /\ ended = "rows" => printed = Answers

\* Every window closes: by its timer, with the last row, on a signal, and
\* monitor --follow=false after a match, whatever arrives meanwhile.
WindowCloses ==
    /\ (command \notin Monitors \cup {"console"}) ~> (phase = "done")
    /\ (quit \/ (command = "first" /\ printed # {})) ~> (phase = "done")

-----------------------------------------------------------------------------
(* Said by the docs and not so                                             *)

\* probe.go:25: the command waits, "collecting and displaying each ProbeResult
\* as it arrives".  What arrives before the callback is registered is lost.
ProbeAddsUp == Accounted("probe")

\* monitor.go:45: "--messages    Only show message events".  Kinds that have no flag
\* of their own are shown all the same.
OnlyMessages ==
    command = "monitor" /\ flags.only = {"messages"} /\ flags.events = {} =>
        \A a \in printed : Type[a] = "message"
=============================================================================
