------------------------------ MODULE MeshTest ------------------------------
(***************************************************************************)
(* The mesh-test command (src/internal/commands/meshtest.go): connect to   *)
(* every node, broadcast from one of them, and collect delivery receipts   *)
(* for a while after each broadcast.                                       *)
(*                                                                         *)
(* Receipts arrive on the SDK's goroutine and go into a bounded channel    *)
(* that is drained before each broadcast; they may be early, late,         *)
(* repeated, or of a broadcast whose send failed.  The command takes them  *)
(* from the channel while its window is open.  Latencies, the traffic      *)
(* events of --validate-primitives and the report's wording are left out;  *)
(* addresses are in the upper case the firmware prints.                    *)
(***************************************************************************)
EXTENDS Naturals, Sequences, FiniteSets

CONSTANTS
    Order,         \* the transports of buildMeshNodeList, sorted
    Address,       \* per transport: the address its node reports, or NoAddress
    NoAddress,
    Preferred,     \* --sender, or NoTransport
    NoTransport,
    Serial,        \* transports that are serial ports
    Broadcasts,    \* how many to send
    QueueCap,      \* capacity of the receipt channel (128)
    WithIds,       \* the firmware puts broadcast ids into answers and receipts
    MaxCopies      \* bound: receipts of one node for one broadcast

Transports == {Order[n] : n \in DOMAIN Order}
Addresses == {Address[t] : t \in Transports} \ {NoAddress}
Indices == 1 .. Broadcasts

ASSUME MeshTestAssumption ==
    /\ Order \in Seq(Transports)
    /\ NoTransport \notin Transports
    /\ Broadcasts \in Nat \ {0} /\ QueueCap \in Nat \ {0} /\ MaxCopies \in Nat
    /\ WithIds \in BOOLEAN

VARIABLES
    pc,            \* "connecting", "draining", "sending", "collecting" or "done"
    tried,         \* transports tried so far
    up,            \* transports with a client
    i,             \* the broadcast at hand
    queue,         \* deliveryEvents: pairs of a broadcast and a recipient
    received,      \* keys of the receipts of this window
    results,       \* report.Broadcasts, "pending" where there is none yet
    perNode,       \* per address: receipts credited
    copies,        \* history variable: receipts per broadcast and address
    accepted       \* history variable: per broadcast, recipients whose receipt was queued

mesh == <<copies, accepted>>
vars == <<pc, tried, up, i, queue, received, results, perNode, mesh>>

Pending == [status |-> "pending", received |-> {}, missing |-> {}]
Results == [status : {"pending", "failed", "sent"},
            received : SUBSET Addresses, missing : SUBSET Addresses]

TypeOK ==
    /\ pc \in {"connecting", "draining", "sending", "collecting", "done"}
    /\ tried \in 0 .. Len(Order)
    /\ up \subseteq Transports
    /\ i \in Indices
    /\ queue \in Seq(Indices \X Addresses) /\ Len(queue) <= QueueCap
    /\ received \subseteq Addresses
    /\ results \in [Indices -> Results]
    /\ perNode \in [Addresses -> 0 .. Broadcasts]
    /\ copies \in [Indices -> [Addresses -> 0 .. MaxCopies]]
    /\ accepted \in [Indices -> SUBSET Addresses]

-----------------------------------------------------------------------------
(* Who sends and who is expected to confirm *)

\* The first of some transports, in the order of the node list.
FirstOf(ts) ==
    LET ns == {n \in DOMAIN Order : Order[n] \in ts}
    IN  Order[CHOOSE n \in ns : \A m \in ns : n <= m]

\* selectSender: the preferred transport, else a serial one, else any.
Sender ==
    CASE Preferred \in up -> Preferred
      [] Preferred \notin up /\ up \cap Serial # {} -> FirstOf(up \cap Serial)
      [] OTHER -> FirstOf(up)

\* A fault: the sender is left out by its transport only.
FaultExpected == {Address[t] : t \in up \ {Sender}} \ {NoAddress}

\* expectedByAddress: the other nodes, without the sender's other transports.
Expected ==
    {Address[t] : t \in up \ {Sender}} \ {NoAddress, Address[Sender]}

Init ==
    /\ pc = "connecting" /\ tried = 0 /\ up = {} /\ i = 1
    /\ queue = <<>> /\ received = {}
    /\ results = [b \in Indices |-> Pending]
    /\ perNode = [a \in Addresses |-> 0]
    /\ copies = [b \in Indices |-> [a \in Addresses |-> 0]]
    /\ accepted = [b \in Indices |-> {}]

\* connectAndStatus of the next transport; a failure closes its client and is noted.
Connect(ok) ==
    /\ pc = "connecting" /\ tried < Len(Order)
    /\ tried' = tried + 1
    /\ up' = IF ok THEN up \cup {Order[tried + 1]} ELSE up
    /\ UNCHANGED <<pc, i, queue, received, results, perNode, mesh>>

\* The nodes are known: give up without a sender, else register for receipts.
Begin ==
    /\ pc = "connecting" /\ tried = Len(Order)
    /\ pc' = IF up = {} THEN "done" ELSE "draining"
    /\ UNCHANGED <<tried, up, i, queue, received, results, perNode, mesh>>

-----------------------------------------------------------------------------
(* One broadcast *)

\* drainDeliveryEvents.
Drain ==
    /\ pc = "draining"
    /\ queue' = <<>>
    /\ pc' = "sending"
    /\ UNCHANGED <<tried, up, i, received, results, perNode, mesh>>

\* A fault: one broadcast too many.
FaultAdvance ==
    IF i <= Broadcasts THEN pc' = "draining" /\ i' = i + 1 ELSE pc' = "done" /\ i' = i

\* On to the next broadcast, or to the report.
Advance ==
    IF i < Broadcasts THEN pc' = "draining" /\ i' = i + 1 ELSE pc' = "done" /\ i' = i

\* A fault: the channel is drained once the broadcast is out.
FaultSendOk ==
    /\ pc = "sending"
    /\ pc' = "collecting"
    /\ received' = {} /\ queue' = <<>>
    /\ UNCHANGED <<tried, up, i, results, perNode, mesh>>

\* SendBroadcast answers: the window opens.
SendOk ==
    /\ pc = "sending"
    /\ pc' = "collecting"
    /\ received' = {}
    /\ UNCHANGED <<tried, up, i, queue, results, perNode, mesh>>

\* SendBroadcast fails or takes longer than 10 s.
SendError ==
    /\ pc = "sending"
    /\ results' = [results EXCEPT ![i] = [Pending EXCEPT !.status = "failed"]]
    /\ Advance
    /\ UNCHANGED <<tried, up, queue, received, perNode, mesh>>

\* A fault: the id of a receipt is not looked at.
FaultCounts(evt) == evt[2] \in Expected

\* Whether a receipt counts: of this broadcast as far as ids tell, from a node that is
\* expected to confirm.
Counts(evt) ==
    /\ WithIds => evt[1] = i
    /\ evt[2] \in Expected

\* The window's loop takes a receipt.
Take ==
    /\ pc = "collecting" /\ received # Expected /\ queue # <<>>
    /\ queue' = Tail(queue)
    /\ received' = IF Counts(Head(queue)) THEN received \cup {Head(queue)[2]} ELSE received
    /\ UNCHANGED <<pc, tried, up, i, results, perNode, mesh>>

\* The window is over: record who confirmed and who did not.
Record ==
    /\ results' = [results EXCEPT ![i] =
         [status |-> "sent", received |-> received, missing |-> Expected \ received]]
    /\ perNode' = [a \in Addresses |-> IF a \in received THEN perNode[a] + 1 ELSE perNode[a]]
    /\ Advance
    /\ UNCHANGED <<tried, up, queue, received, mesh>>

\* Everyone confirmed (at once, if nobody is expected to).
Complete ==
    /\ pc = "collecting" /\ received = Expected
    /\ Record

\* A fault: the timer is looked at only after a receipt.
FaultTimeout ==
    /\ pc = "collecting" /\ received \notin {{}, Expected}
    /\ Record

\* The timer fires; select may prefer it to a receipt that is ready.
Timeout ==
    /\ pc = "collecting" /\ received # Expected
    /\ Record

-----------------------------------------------------------------------------
(* The mesh *)

\* Broadcasts that may be on the air.
Sent == {b \in Indices : b < i \/ (b = i /\ pc \in {"sending", "collecting"})}

\* The callback's non-blocking send: a full channel drops the receipt.
Enqueue(evt) == IF Len(queue) < QueueCap THEN Append(queue, evt) ELSE queue

\* A node confirms a broadcast and the sender's connection delivers the receipt.
Confirm(b, a) ==
    /\ pc \in {"draining", "sending", "collecting"}
    /\ b \in Sent /\ copies[b][a] < MaxCopies
    /\ copies' = [copies EXCEPT ![b][a] = @ + 1]
    /\ queue' = Enqueue(<<b, a>>)
    /\ accepted' = IF Len(queue) < QueueCap
                   THEN [accepted EXCEPT ![b] = @ \cup {a}] ELSE accepted
    /\ UNCHANGED <<pc, tried, up, i, received, results, perNode>>

Next ==
    \/ \E ok \in BOOLEAN : Connect(ok)
    \/ Begin
    \/ Drain
    \/ SendOk
    \/ SendError
    \/ Take
    \/ Complete
    \/ Timeout
    \/ \E b \in Indices, a \in Addresses : Confirm(b, a)

Spec == Init /\ [][Next]_vars

\* The command is one goroutine that runs on; every call and the window have a
\* timeout.  The mesh owes no receipt.
Fairness ==
    /\ WF_vars(\E ok \in BOOLEAN : Connect(ok))
    /\ WF_vars(Begin \/ Drain \/ SendOk \/ SendError)
    /\ WF_vars(Complete \/ Timeout)

FairSpec == Spec /\ Fairness

-----------------------------------------------------------------------------
(* Correctness *)

\* A node is credited with a broadcast only if it confirmed that very broadcast: a
\* receipt that is late, repeated or of a failed send never counts for another one,
\* provided the firmware sends ids (the loop's id check).
CreditIsReal ==
    WithIds => \A b \in Indices, a \in Addresses : a \in results[b].received => copies[b][a] > 0

\* A receipt that entered the channel while its broadcast was on the air is counted or
\* still in the channel as long as the window is open: neither the drain, nor the
\* send, nor a full channel takes it away.
QueuedReceiptsCount ==
    pc = "collecting" =>
        \A a \in accepted[i] \cap Expected :
            a \in received \/ \E n \in DOMAIN queue : queue[n] = <<i, a>>

\* The report adds up: a finished window credits and misses exactly the nodes that
\* are expected, a node's count is the number of windows that credit it, and the
\* sender is in none of them, whatever transports reach it (the loop's bookkeeping
\* and the exclusion of the sender's address).
ReportAddsUp ==
    /\ \A b \in Indices : results[b].status = "sent" =>
         /\ results[b].received \cup results[b].missing = Expected
         /\ results[b].received \cap results[b].missing = {}
    /\ \A a \in Addresses : perNode[a] = Cardinality({b \in Indices : a \in results[b].received})
    /\ up # {} => \A b \in Indices :
         Address[Sender] \notin results[b].received \cup results[b].missing

\* The command ends, whatever nodes answer: every window closes.
Terminates == <>(pc = "done")

-----------------------------------------------------------------------------
(* What the repository's documents say and the program does not do *)

\* meshtest.go:158 has the command report "delivery reliability per broadcast and per
\* node": when all broadcasts went out, the list of finalizeReport rates every node
\* that was expected to confirm.
EveryNodeRated ==
    pc = "done" /\ (\A b \in Indices : results[b].status = "sent") =>
        {a \in Addresses : perNode[a] > 0} = Expected
=============================================================================
