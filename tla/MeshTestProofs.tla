--------------------------- MODULE MeshTestProofs ---------------------------
(***************************************************************************)
(* For any nodes, transports, number of broadcasts and channel capacity:   *)
(* the report of mesh-test credits only what was confirmed and adds up,    *)
(* and no receipt that entered the channel in time is passed over.  The    *)
(* inductive invariant adds where receipts come from and that nothing is   *)
(* recorded ahead of the broadcast at hand.                                *)
(***************************************************************************)
EXTENDS MeshTest, FiniteSetTheorems, SequenceTheorems, TLAPS

Receipts == Indices \X Addresses

\* Broadcasts that are not over have no result yet.
NothingAhead ==
    /\ pc = "connecting" => i = 1
    /\ \A b \in Indices : b > i \/ (b = i /\ pc # "done") => results[b] = Pending

\* Broadcasts that are not on the air have no receipt in the channel.
AcceptedOnAir ==
    \A b \in Indices :
        b > i \/ (b = i /\ pc \in {"connecting", "draining"}) => accepted[b] = {}

\* What waits in the channel was sent by a node.
QueueIsReal == \A n \in DOMAIN queue : copies[queue[n][1]][queue[n][2]] > 0

\* The window counts nodes that are expected and confirmed this broadcast.
WindowIsReal ==
    pc = "collecting" =>
        /\ received \subseteq Expected
        /\ WithIds => \A a \in received : copies[i][a] > 0

\* Receipts that overtake the answer of the send wait in the channel.
EarlyWait ==
    pc = "sending" => \A a \in accepted[i] : \E n \in DOMAIN queue : queue[n] = <<i, a>>

IInv ==
    /\ TypeOK
    /\ CreditIsReal
    /\ QueuedReceiptsCount
    /\ ReportAddsUp
    /\ NothingAhead
    /\ AcceptedOnAir
    /\ QueueIsReal
    /\ WindowIsReal
    /\ EarlyWait

-----------------------------------------------------------------------------
(* Lemmas *)

\* Expected nodes have an address, and the sender's is not among them.
LEMMA ExpectedProperties ==
    ASSUME up \subseteq Transports
    PROVE  Expected \subseteq Addresses /\ Address[Sender] \notin Expected
  BY DEF Expected, Addresses

\* Indices are finitely many.
LEMMA IndicesFinite == IsFiniteSet(Indices) /\ Cardinality(Indices) = Broadcasts
  BY MeshTestAssumption, FS_Interval DEF Indices

\* What Enqueue does to the channel: it appends, or drops when there is no room.
LEMMA EnqueueProperties ==
    ASSUME NEW evt \in Receipts, queue \in Seq(Receipts), Len(queue) <= QueueCap
    PROVE  /\ Enqueue(evt) \in Seq(Receipts)
           /\ Len(Enqueue(evt)) <= QueueCap
           /\ \A n \in DOMAIN queue : n \in DOMAIN Enqueue(evt) /\ Enqueue(evt)[n] = queue[n]
           /\ \A n \in DOMAIN Enqueue(evt) : n \in DOMAIN queue \/ Enqueue(evt)[n] = evt
           /\ Len(queue) < QueueCap => \E n \in DOMAIN Enqueue(evt) : Enqueue(evt)[n] = evt
<1>1. Len(queue) \in Nat /\ QueueCap \in Nat /\ DOMAIN queue = 1 .. Len(queue)
  BY LenProperties, MeshTestAssumption
<1>2. CASE Len(queue) < QueueCap
  <2>1. /\ Append(queue, evt) \in Seq(Receipts)
        /\ Len(Append(queue, evt)) = Len(queue) + 1
        /\ \A n \in 1 .. Len(queue) : Append(queue, evt)[n] = queue[n]
        /\ Append(queue, evt)[Len(queue) + 1] = evt
    BY AppendProperties, <1>1
  <2>2. DOMAIN Append(queue, evt) = 1 .. Len(queue) + 1 BY <2>1, LenProperties
  <2> QED BY <1>1, <1>2, <2>1, <2>2 DEF Enqueue
<1>3. CASE ~(Len(queue) < QueueCap) BY <1>1, <1>3 DEF Enqueue
<1> QED BY <1>2, <1>3

\* Recording a window extends every credited node's count by one.
LEMMA RecordAddsUp ==
    ASSUME IInv, Record, pc = "collecting", NEW a \in Addresses
    PROVE  perNode'[a] = Cardinality({b \in Indices : a \in results'[b].received})
<1> DEFINE old == {b \in Indices : a \in results[b].received}
           new == {b \in Indices : a \in results'[b].received}
<1>1. i \in Indices /\ results \in [Indices -> Results] BY DEF IInv, TypeOK
<1>2. IsFiniteSet(old) BY IndicesFinite, FS_Subset
<1>3. results[i] = Pending BY <1>1 DEF IInv, NothingAhead
<1>4. i \notin old BY <1>3 DEF Pending
<1>5. results'[i].received = received /\ \A b \in Indices \ {i} : results'[b] = results[b]
  BY <1>1 DEF Record
<1>6. perNode[a] = Cardinality(old) BY DEF IInv, ReportAddsUp
<1>7. CASE a \in received
  <2>1. new = old \cup {i} BY <1>1, <1>5, <1>7
  <2>2. Cardinality(new) = Cardinality(old) + 1 BY <1>2, <1>4, <2>1, FS_AddElement
  <2>3. perNode'[a] = perNode[a] + 1 BY <1>7 DEF Record
  <2> QED BY <1>6, <2>2, <2>3
<1>8. CASE a \notin received
  <2>1. new = old BY <1>1, <1>4, <1>5, <1>8
  <2>2. perNode'[a] = perNode[a] BY <1>8 DEF Record
  <2> QED BY <1>6, <2>1, <2>2
<1> QED BY <1>7, <1>8

-----------------------------------------------------------------------------
(* Induction *)

LEMMA InitIInv == Init => IInv
<1> SUFFICES ASSUME Init PROVE IInv OBVIOUS
<1>1. Broadcasts \in Nat \ {0} /\ QueueCap \in Nat /\ MaxCopies \in Nat
  BY MeshTestAssumption
<1>2. Len(Order) \in Nat BY MeshTestAssumption, LenProperties
<1>3. queue \in Seq(Receipts) /\ Len(queue) = 0 /\ DOMAIN queue = {}
  BY EmptySeq DEF Init
<1>4. Pending \in Results BY DEF Pending, Results
<1>5. TypeOK BY <1>1, <1>2, <1>3, <1>4 DEF Init, TypeOK, Indices, Receipts
<1>6. \A a \in Addresses : {b \in Indices : a \in results[b].received} = {}
  BY DEF Init, Pending
<1>7. ReportAddsUp BY <1>6, FS_EmptySet DEF Init, ReportAddsUp, Pending
<1>8. CreditIsReal /\ QueuedReceiptsCount BY DEF Init, CreditIsReal, QueuedReceiptsCount, Pending
<1>9. NothingAhead /\ AcceptedOnAir /\ QueueIsReal /\ WindowIsReal /\ EarlyWait
  BY <1>3 DEF Init, NothingAhead, AcceptedOnAir, QueueIsReal, WindowIsReal, EarlyWait
<1> QED BY <1>5, <1>7, <1>8, <1>9 DEF IInv

\* A step that changes none of the report's variables keeps what is said of it.
LEMMA ReportKept ==
    ASSUME IInv, UNCHANGED <<up, results, perNode>>,
           \A b \in Indices, a \in Addresses : copies[b][a] > 0 => copies'[b][a] > 0
    PROVE  ReportAddsUp' /\ CreditIsReal'
<1>1. Expected' = Expected /\ Sender' = Sender BY DEF Expected, Sender
<1>2. ReportAddsUp' BY <1>1 DEF IInv, ReportAddsUp
<1>3. CreditIsReal' BY DEF IInv, CreditIsReal
<1> QED BY <1>2, <1>3

LEMMA ConnectKeeps == ASSUME IInv, NEW ok \in BOOLEAN, Connect(ok) PROVE IInv'
<1>0. TypeOK BY DEF IInv
<1>1. Order[tried + 1] \in Transports /\ tried' \in 0 .. Len(Order)
  <2>1. Len(Order) \in Nat /\ DOMAIN Order = 1 .. Len(Order) BY MeshTestAssumption, LenProperties
  <2>2. tried + 1 \in DOMAIN Order /\ tried' = tried + 1 BY <1>0, <2>1 DEF Connect, TypeOK
  <2>3. Order[tried + 1] \in Transports BY <2>2 DEF Transports
  <2> QED BY <2>1, <2>2, <2>3
<1>2. up' \subseteq Transports BY <1>0, <1>1 DEF Connect, TypeOK
<1>3. TypeOK' BY <1>0, <1>1, <1>2 DEF Connect, TypeOK, mesh
<1>4. \A b \in Indices : results[b] = Pending
  BY <1>0 DEF IInv, Connect, TypeOK, NothingAhead, Indices
<1>5. ReportAddsUp'
  <2>1. UNCHANGED <<results, perNode>> BY DEF Connect
  <2>2. \A b \in Indices : results'[b] = Pending BY <1>4, <2>1
  <2>3. \A a \in Addresses : perNode'[a] = Cardinality({b \in Indices : a \in results'[b].received})
    BY <2>1 DEF IInv, ReportAddsUp
  <2> QED BY <2>2, <2>3 DEF ReportAddsUp, Pending
<1>6. CreditIsReal' /\ QueuedReceiptsCount'
  BY DEF IInv, Connect, CreditIsReal, QueuedReceiptsCount, mesh
<1>7. NothingAhead' /\ AcceptedOnAir' /\ QueueIsReal' /\ WindowIsReal' /\ EarlyWait'
  BY DEF IInv, Connect, NothingAhead, AcceptedOnAir, QueueIsReal, WindowIsReal, EarlyWait, mesh
<1> QED BY <1>3, <1>5, <1>6, <1>7 DEF IInv

LEMMA BeginKeeps == ASSUME IInv, Begin PROVE IInv'
<1>1. TypeOK' BY DEF IInv, Begin, TypeOK, mesh
<1>2. ReportAddsUp' /\ CreditIsReal' BY ReportKept DEF Begin, mesh
<1>3. QueuedReceiptsCount' /\ WindowIsReal' /\ EarlyWait'
  BY DEF Begin, QueuedReceiptsCount, WindowIsReal, EarlyWait
<1>4. NothingAhead' /\ AcceptedOnAir' /\ QueueIsReal'
  BY DEF IInv, TypeOK, Indices, Begin, NothingAhead, AcceptedOnAir, QueueIsReal, mesh
<1> QED BY <1>1, <1>2, <1>3, <1>4 DEF IInv

LEMMA DrainKeeps == ASSUME IInv, Drain PROVE IInv'
<1>0. queue' \in Seq(Receipts) /\ Len(queue') = 0 /\ DOMAIN queue' = {}
  BY EmptySeq DEF Drain
<1>1. TypeOK' BY <1>0, MeshTestAssumption DEF IInv, Drain, TypeOK, mesh, Receipts
<1>2. ReportAddsUp' /\ CreditIsReal' BY ReportKept DEF Drain, mesh
<1>3. QueuedReceiptsCount' /\ WindowIsReal' BY DEF Drain, QueuedReceiptsCount, WindowIsReal
<1>4. NothingAhead' /\ AcceptedOnAir' /\ EarlyWait'
  BY DEF IInv, TypeOK, Indices, Drain, NothingAhead, AcceptedOnAir, EarlyWait, mesh
<1>5. QueueIsReal' BY <1>0 DEF QueueIsReal
<1> QED BY <1>1, <1>2, <1>3, <1>4, <1>5 DEF IInv

LEMMA SendOkKeeps == ASSUME IInv, SendOk PROVE IInv'
<1>1. TypeOK' BY DEF IInv, SendOk, TypeOK, mesh
<1>2. ReportAddsUp' /\ CreditIsReal' BY ReportKept DEF SendOk, mesh
<1>3. QueuedReceiptsCount'
  BY DEF IInv, SendOk, EarlyWait, QueuedReceiptsCount, mesh
<1>4. WindowIsReal' /\ EarlyWait' BY DEF SendOk, WindowIsReal, EarlyWait
<1>5. NothingAhead' /\ AcceptedOnAir' /\ QueueIsReal'
  BY DEF IInv, TypeOK, Indices, SendOk, NothingAhead, AcceptedOnAir, QueueIsReal, mesh
<1> QED BY <1>1, <1>2, <1>3, <1>4, <1>5 DEF IInv

\* Advancing keeps the index in range and is on to the channel's draining or done.
LEMMA AdvanceProperties ==
    ASSUME TypeOK, Advance
    PROVE  /\ i' \in Indices
           /\ \/ pc' = "draining" /\ i' = i + 1
              \/ pc' = "done" /\ i' = i
  BY MeshTestAssumption DEF TypeOK, Indices, Advance

LEMMA SendErrorKeeps == ASSUME IInv, SendError PROVE IInv'
<1> DEFINE failed == [Pending EXCEPT !.status = "failed"]
<1>0. TypeOK /\ Advance BY DEF IInv, SendError
<1>1. failed \in Results /\ failed.received = {} /\ failed.missing = {} /\ failed.status = "failed"
  BY DEF Pending, Results
<1>2. results' \in [Indices -> Results] BY <1>0, <1>1 DEF SendError, TypeOK
<1>3. TypeOK' BY <1>0, <1>2, AdvanceProperties DEF SendError, TypeOK, mesh
<1>4. results[i] = Pending BY <1>0 DEF IInv, TypeOK, SendError, NothingAhead
<1>5. \A b \in Indices : results'[b] = IF b = i THEN failed ELSE results[b]
  BY <1>0 DEF SendError, TypeOK
<1>6. \A b \in Indices : results'[b].received = results[b].received /\ results'[b].missing = results[b].missing
  BY <1>1, <1>4, <1>5 DEF Pending
<1>7. CreditIsReal' BY <1>6 DEF IInv, SendError, CreditIsReal, mesh
<1>8. ReportAddsUp'
  <2>1. Expected' = Expected /\ Sender' = Sender /\ up' = up /\ perNode' = perNode
    BY DEF SendError, Expected, Sender
  <2>2. \A b \in Indices : results'[b].status = "sent" => results[b].status = "sent"
    BY <1>1, <1>5
  <2>3. \A a \in Addresses :
          {b \in Indices : a \in results'[b].received} = {b \in Indices : a \in results[b].received}
    BY <1>6
  <2> QED BY <1>6, <2>1, <2>2, <2>3 DEF IInv, ReportAddsUp
<1>9. QueuedReceiptsCount' /\ WindowIsReal' /\ EarlyWait'
  BY <1>0, AdvanceProperties DEF QueuedReceiptsCount, WindowIsReal, EarlyWait
<1>10. i \in Nat /\ Indices \subseteq Nat BY <1>0 DEF TypeOK, Indices
<1>11. NothingAhead'
  BY <1>0, <1>5, <1>10, AdvanceProperties DEF IInv, NothingAhead
<1>12. AcceptedOnAir'
  BY <1>0, <1>10, AdvanceProperties DEF IInv, SendError, AcceptedOnAir, mesh
<1>13. QueueIsReal' BY DEF IInv, SendError, QueueIsReal, mesh
<1> QED BY <1>3, <1>7, <1>8, <1>9, <1>11, <1>12, <1>13 DEF IInv

LEMMA TakeKeeps == ASSUME IInv, Take PROVE IInv'
<1> DEFINE head == Head(queue)
<1>0. TypeOK /\ pc = "collecting" /\ queue \in Seq(Receipts) /\ queue # <<>>
  BY DEF IInv, TypeOK, Take, Receipts
<1>1. /\ head \in Receipts /\ head = queue[1] /\ 1 \in DOMAIN queue
      /\ queue' \in Seq(Receipts) /\ Len(queue') = Len(queue) - 1
      /\ \A n \in DOMAIN queue' : n + 1 \in DOMAIN queue /\ queue'[n] = queue[n + 1]
      /\ \A n \in DOMAIN queue : n = 1 \/ (n - 1 \in DOMAIN queue' /\ queue'[n - 1] = queue[n])
  <2>1. Len(queue) \in Nat \ {0} /\ DOMAIN queue = 1 .. Len(queue) BY <1>0, EmptySeq, LenProperties
  <2>2. queue' = Tail(queue) BY DEF Take
  <2>3. /\ head \in Receipts /\ queue' \in Seq(Receipts) /\ Len(queue') = Len(queue) - 1
        /\ \A n \in 1 .. Len(queue') : queue'[n] = queue[n + 1]
    BY <1>0, <2>2, HeadTailProperties
  <2>4. DOMAIN queue' = 1 .. Len(queue') BY <2>3, LenProperties
  <2>5. head = queue[1] BY <1>0
  <2> QED BY <2>1, <2>3, <2>4, <2>5
<1>2. received' = IF Counts(head) THEN received \cup {head[2]} ELSE received BY DEF Take
<1>3. Expected' = Expected BY DEF Take, Expected, Sender
<1>4. TypeOK'
  <2>1. received' \subseteq Addresses BY <1>0, <1>1, <1>2 DEF TypeOK, Receipts
  <2>2. queue' \in Seq(Indices \X Addresses) /\ Len(queue') <= QueueCap
    BY <1>0, <1>1, LenProperties, MeshTestAssumption DEF TypeOK, Receipts
  <2> QED BY <1>0, <2>1, <2>2 DEF Take, TypeOK, mesh
<1>5. ReportAddsUp' /\ CreditIsReal' BY ReportKept DEF Take, mesh
<1>6. QueuedReceiptsCount'
  <2> SUFFICES ASSUME NEW a \in accepted[i] \cap Expected
               PROVE  a \in received' \/ \E n \in DOMAIN queue' : queue'[n] = <<i, a>>
    BY <1>3 DEF QueuedReceiptsCount, Take, mesh
  <2>1. CASE a \in received BY <1>2, <2>1
  <2>2. ASSUME NEW n \in DOMAIN queue, queue[n] = <<i, a>>
        PROVE  a \in received' \/ \E k \in DOMAIN queue' : queue'[k] = <<i, a>>
    <3>1. CASE n = 1
      <4>1. Counts(head) /\ head[2] = a BY <1>1, <2>2, <3>1 DEF Counts
      <4> QED BY <1>2, <4>1
    <3>2. CASE n # 1 BY <1>1, <2>2, <3>2
    <3> QED BY <3>1, <3>2
  <2> QED BY <1>0, <2>1, <2>2 DEF IInv, QueuedReceiptsCount
<1>7. WindowIsReal'
  <2>1. copies[head[1]][head[2]] > 0 BY <1>1 DEF IInv, QueueIsReal
  <2>2. Counts(head) => head[2] \in Expected /\ (WithIds => copies[i][head[2]] > 0)
    BY <2>1 DEF Counts
  <2>3. copies' = copies /\ i' = i BY DEF Take, mesh
  <2> QED BY <1>0, <1>2, <1>3, <2>2, <2>3 DEF IInv, WindowIsReal
<1>8. QueueIsReal' BY <1>1 DEF IInv, QueueIsReal, Take, mesh
<1>9. NothingAhead' /\ AcceptedOnAir' /\ EarlyWait'
  BY <1>0 DEF IInv, Take, NothingAhead, AcceptedOnAir, EarlyWait, mesh
<1> QED BY <1>4, <1>5, <1>6, <1>7, <1>8, <1>9 DEF IInv

LEMMA RecordKeeps == ASSUME IInv, pc = "collecting", Record PROVE IInv'
<1> DEFINE result == [status |-> "sent", received |-> received, missing |-> Expected \ received]
<1>0. TypeOK /\ Advance BY DEF IInv, Record
<1>1. up' = up /\ Expected' = Expected /\ Sender' = Sender BY DEF Record, Expected, Sender
<1>2. Expected \subseteq Addresses /\ Address[Sender] \notin Expected
  BY <1>0, ExpectedProperties DEF TypeOK
<1>3. result \in Results BY <1>0, <1>2 DEF TypeOK, Results
<1>4. \A b \in Indices : results'[b] = IF b = i THEN result ELSE results[b]
  BY <1>0 DEF Record, TypeOK
<1>5. received \subseteq Expected BY DEF IInv, WindowIsReal
<1>6. \A a \in Addresses : perNode'[a] = Cardinality({b \in Indices : a \in results'[b].received})
  BY RecordAddsUp
<1>7. perNode' \in [Addresses -> 0 .. Broadcasts]
  <2>1. ASSUME NEW a \in Addresses PROVE perNode'[a] \in 0 .. Broadcasts
    <3>1. {b \in Indices : a \in results'[b].received} \in SUBSET Indices OBVIOUS
    <3>2. /\ IsFiniteSet({b \in Indices : a \in results'[b].received})
          /\ Cardinality({b \in Indices : a \in results'[b].received}) <= Broadcasts
      BY <3>1, IndicesFinite, FS_Subset
    <3>3. Cardinality({b \in Indices : a \in results'[b].received}) \in Nat
      BY <3>2, FS_CardinalityType
    <3> QED BY <1>6, <3>2, <3>3, MeshTestAssumption
  <2>2. perNode' = [a \in Addresses |-> perNode'[a]] BY DEF Record
  <2> QED BY <2>1, <2>2
<1>8. TypeOK'
  <2>1. results' \in [Indices -> Results] BY <1>0, <1>3 DEF Record, TypeOK
  <2> QED BY <1>0, <1>7, <2>1, AdvanceProperties DEF Record, TypeOK, mesh
<1>9. ReportAddsUp'
  <2>1. \A b \in Indices : results'[b].status = "sent" =>
          /\ results'[b].received \cup results'[b].missing = Expected
          /\ results'[b].received \cap results'[b].missing = {}
    BY <1>4, <1>5 DEF IInv, ReportAddsUp
  <2>2. up # {} => \A b \in Indices : Address[Sender] \notin results'[b].received \cup results'[b].missing
    BY <1>2, <1>4, <1>5 DEF IInv, ReportAddsUp
  <2> QED BY <1>1, <1>6, <2>1, <2>2 DEF ReportAddsUp
<1>10. CreditIsReal' BY <1>4 DEF IInv, WindowIsReal, CreditIsReal, Record, mesh
<1>11. QueuedReceiptsCount' /\ WindowIsReal' /\ EarlyWait'
  BY <1>0, AdvanceProperties DEF QueuedReceiptsCount, WindowIsReal, EarlyWait
<1>12. NothingAhead' /\ AcceptedOnAir' /\ QueueIsReal'
  BY <1>0, <1>4, AdvanceProperties
  DEF IInv, TypeOK, Indices, Record, NothingAhead, AcceptedOnAir, QueueIsReal, mesh
<1> QED BY <1>8, <1>9, <1>10, <1>11, <1>12 DEF IInv

LEMMA ConfirmKeeps ==
    ASSUME IInv, NEW b \in Indices, NEW a \in Addresses, Confirm(b, a) PROVE IInv'
<1> DEFINE evt == <<b, a>>
<1>0. TypeOK /\ evt \in Receipts /\ queue \in Seq(Receipts) /\ Len(queue) <= QueueCap
  BY DEF IInv, TypeOK, Receipts
<1>1. /\ queue' = Enqueue(evt) /\ queue' \in Seq(Receipts) /\ Len(queue') <= QueueCap
      /\ \A n \in DOMAIN queue : n \in DOMAIN queue' /\ queue'[n] = queue[n]
      /\ \A n \in DOMAIN queue' : n \in DOMAIN queue \/ queue'[n] = evt
      /\ Len(queue) < QueueCap => \E n \in DOMAIN queue' : queue'[n] = evt
  BY <1>0, EnqueueProperties DEF Confirm
<1>2. copies' \in [Indices -> [Addresses -> 0 .. MaxCopies]]
  BY <1>0, MeshTestAssumption DEF Confirm, TypeOK
<1>3. \A x \in Indices, y \in Addresses : copies[x][y] > 0 => copies'[x][y] > 0
  BY <1>0, MeshTestAssumption DEF Confirm, TypeOK
<1>4. copies'[b][a] > 0 BY <1>0, MeshTestAssumption DEF Confirm, TypeOK
<1>5. /\ accepted' \in [Indices -> SUBSET Addresses]
      /\ \A x \in Indices : accepted'[x] = accepted[x]
                            \/ (x = b /\ accepted'[x] = accepted[x] \cup {a} /\ Len(queue) < QueueCap)
  BY <1>0 DEF Confirm, TypeOK
<1>6. TypeOK' BY <1>0, <1>1, <1>2, <1>5 DEF Confirm, TypeOK, Receipts
<1>7. ReportAddsUp' /\ CreditIsReal' BY <1>3, ReportKept DEF Confirm
<1>8. Expected' = Expected BY DEF Confirm, Expected, Sender
<1>9. ASSUME NEW y \in accepted'[i]
      PROVE  y \in accepted[i] \/ \E n \in DOMAIN queue' : queue'[n] = <<i, y>>
  <2>1. i \in Indices BY <1>0 DEF TypeOK
  <2>2. CASE accepted'[i] = accepted[i] BY <1>9, <2>2
  <2>3. CASE i = b /\ accepted'[i] = accepted[i] \cup {a} /\ Len(queue) < QueueCap
    <3>1. y \in accepted[i] \/ y = a BY <1>9, <2>3
    <3>2. \E n \in DOMAIN queue' : queue'[n] = <<i, a>> BY <1>1, <2>3
    <3> QED BY <3>1, <3>2
  <2> QED BY <1>5, <2>1, <2>2, <2>3
<1>10. QueuedReceiptsCount' /\ EarlyWait'
  BY <1>1, <1>8, <1>9 DEF IInv, Confirm, QueuedReceiptsCount, EarlyWait
<1>11. QueueIsReal'
  <2> SUFFICES ASSUME NEW n \in DOMAIN queue' PROVE copies'[queue'[n][1]][queue'[n][2]] > 0
    BY DEF QueueIsReal
  <2>1. CASE n \in DOMAIN queue
    <3>1. queue[n] \in Receipts BY <1>0, <2>1, ElementOfSeq, LenProperties
    <3>2. copies[queue[n][1]][queue[n][2]] > 0 BY <2>1 DEF IInv, QueueIsReal
    <3> QED BY <1>1, <1>3, <2>1, <3>1, <3>2 DEF Receipts
  <2>2. CASE queue'[n] = evt BY <1>4, <2>2
  <2> QED BY <1>1, <2>1, <2>2
<1>12. WindowIsReal' BY <1>0, <1>3, <1>8 DEF IInv, Confirm, WindowIsReal, TypeOK
<1>13. NothingAhead' BY DEF IInv, Confirm, NothingAhead
<1>14. AcceptedOnAir'
  BY <1>0, <1>5 DEF IInv, Confirm, AcceptedOnAir, Sent, TypeOK, Indices
<1> QED BY <1>6, <1>7, <1>10, <1>11, <1>12, <1>13, <1>14 DEF IInv

LEMMA NextIInv == IInv /\ [Next]_vars => IInv'
<1> SUFFICES ASSUME IInv, [Next]_vars PROVE IInv' OBVIOUS
<1>1. ASSUME NEW ok \in BOOLEAN, Connect(ok) PROVE IInv' BY <1>1, ConnectKeeps
<1>2. CASE Begin BY <1>2, BeginKeeps
<1>3. CASE Drain BY <1>3, DrainKeeps
<1>4. CASE SendOk BY <1>4, SendOkKeeps
<1>5. CASE SendError BY <1>5, SendErrorKeeps
<1>6. CASE Take BY <1>6, TakeKeeps
<1>7. CASE Complete \/ Timeout BY <1>7, RecordKeeps DEF Complete, Timeout
<1>8. ASSUME NEW b \in Indices, NEW a \in Addresses, Confirm(b, a) PROVE IInv'
  BY <1>8, ConfirmKeeps
<1>9. CASE UNCHANGED vars
  <2>1. TypeOK' BY <1>9 DEF IInv, TypeOK, vars, mesh
  <2>2. ReportAddsUp' /\ CreditIsReal' BY <1>9, ReportKept DEF vars, mesh
  <2>3. Expected' = Expected BY <1>9 DEF vars, Expected, Sender
  <2>4. QueuedReceiptsCount' /\ WindowIsReal'
    BY <1>9, <2>3 DEF IInv, QueuedReceiptsCount, WindowIsReal, vars, mesh
  <2>5. NothingAhead' /\ AcceptedOnAir' /\ QueueIsReal' /\ EarlyWait'
    BY <1>9 DEF IInv, NothingAhead, AcceptedOnAir, QueueIsReal, EarlyWait, vars, mesh
  <2> QED BY <2>1, <2>2, <2>4, <2>5 DEF IInv
<1> QED BY <1>1, <1>2, <1>3, <1>4, <1>5, <1>6, <1>7, <1>8, <1>9 DEF Next

\* The inductive invariant holds in every reachable state.
THEOREM Invariance == Spec => []IInv
BY InitIInv, NextIInv, PTL DEF Spec

\* Every variable keeps its type; the channel keeps within its capacity and no count
\* exceeds the number of broadcasts.
THEOREM TypeCorrect == Spec => []TypeOK
<1>1. IInv => TypeOK BY DEF IInv
<1> QED BY <1>1, Invariance, PTL

\* No node is credited with a broadcast it did not confirm, if receipts carry ids.
THEOREM CreditsAreReal == Spec => []CreditIsReal
<1>1. IInv => CreditIsReal BY DEF IInv
<1> QED BY <1>1, Invariance, PTL

\* No receipt of this broadcast that entered the channel is passed over.
THEOREM NoReceiptPassedOver == Spec => []QueuedReceiptsCount
<1>1. IInv => QueuedReceiptsCount BY DEF IInv
<1> QED BY <1>1, Invariance, PTL

\* The report adds up, whatever transports reach the sender.
THEOREM ReportIsSound == Spec => []ReportAddsUp
<1>1. IInv => ReportAddsUp BY DEF IInv
<1> QED BY <1>1, Invariance, PTL
=============================================================================
