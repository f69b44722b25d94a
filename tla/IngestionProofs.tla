--------------------------- MODULE IngestionProofs ---------------------------
(***************************************************************************)
(* Ingestion, for every number of consumers, every log and every setting:   *)
(* the inductive invariant IInv, and what follows from it.                  *)
(***************************************************************************)
EXTENDS Ingestion, SequenceTheorems, TLAPS

(* A message is <<partition, offset>> inside its partition's log, and its id *)
(* and kind are what the log says.                                           *)
LEMMA MessageParts ==
    ASSUME NEW m \in Messages
    PROVE  /\ m[1] \in Partitions
           /\ m[2] \in Nat
           /\ m = <<m[1], m[2]>>
           /\ Id(m) \in Ids
           /\ Kind(m) \in Kinds
           /\ m # NoMessage
<1>1. PICK p \in Partitions : m \in {p} \X (0 .. Len(Log[p]) - 1)
  BY DEF Messages
<1>2. m = <<m[1], m[2]>> /\ m[1] = p /\ m[2] \in 0 .. Len(Log[p]) - 1
  BY <1>1
<1>3. Log[p] \in Seq([kind : Kinds, id : Ids])
  BY ConstantsAssumption
<1>4. m[2] \in Nat /\ m[2] + 1 \in 1 .. Len(Log[p])
  BY <1>2, <1>3
<1>5. Log[p][m[2] + 1] \in [kind : Kinds, id : Ids]
  BY <1>3, <1>4, ElementOfSeq
<1>6. m # NoMessage
  <2>1. Len(m) = 2
    BY <1>2
  <2>2. Len(NoMessage) = 0
    BY DEF NoMessage
  <2> QED
    BY <2>1, <2>2
<1> QED
  BY <1>2, <1>4, <1>5, <1>6 DEF Id, Kind

(* Settling one more offset extends the settled prefix by one. *)
LEMMA PrefixStep ==
    ASSUME NEW S, NEW m \in Messages, Before(m[1], m[2]) \subseteq S, m \in S
    PROVE  Before(m[1], m[2] + 1) \subseteq S
<1>1. m[2] \in Nat /\ m = <<m[1], m[2]>>
  BY MessageParts
<1>2. Before(m[1], m[2] + 1) \subseteq Before(m[1], m[2]) \cup {m}
  BY <1>1 DEF Before
<1> QED
  BY <1>2

LEMMA EmptyPrefix == ASSUME NEW p PROVE Before(p, 0) = {}
  BY DEF Before

(* Outcomes are never undone: rows are only added, and a record that was     *)
(* sent to the DLQ stays buffered, delivered or lost.                        *)
LEMMA SettledGrows ==
    ASSUME rows \subseteq rows', Routed \subseteq Routed'
    PROVE  Settled \subseteq Settled'
  BY DEF Settled, Outcome, RowIds, Kind, Id

-----------------------------------------------------------------------------
(***************************************************************************)
(* Type correctness.                                                        *)
(***************************************************************************)

LEMMA NoOffsetsType == NoOffsets \in Offsets
  BY DEF NoOffsets, Offsets

(* What a flush writes is of the right type. *)
LEMMA FlushType ==
    ASSUME TypeOK, NEW c \in Consumers, NEW pend \in Offsets, Flush(c, pend)
    PROVE  /\ since' \in [Consumers -> 0 .. CommitBatchSize - 1]
           /\ pending' \in [Consumers -> Offsets]
           /\ inflight' \in [Consumers -> Seq(Offsets)]
<1> USE NoOffsetsType
<1>1. since' \in [Consumers -> 0 .. CommitBatchSize - 1]
  BY ConstantsAssumption DEF Flush, TypeOK
<1>2. pending' \in [Consumers -> Offsets]
  BY DEF Flush, OnceIssued, TypeOK
<1>3. inflight' \in [Consumers -> Seq(Offsets)]
  <2>1. Append(inflight[c], pend) \in Seq(Offsets)
    BY DEF TypeOK
  <2> QED
    BY <2>1 DEF Flush, TypeOK
<1> QED
  BY <1>1, <1>2, <1>3

(* ... and what confirming a message writes. *)
LEMMA MarkType ==
    ASSUME TypeOK, NEW c \in Consumers, NEW m \in Messages, MarkConfirmed(c, m)
    PROVE  /\ since' \in [Consumers -> 0 .. CommitBatchSize - 1]
           /\ pending' \in [Consumers -> Offsets]
           /\ inflight' \in [Consumers -> Seq(Offsets)]
<1> DEFINE pend == [pending[c] EXCEPT ![m[1]] = NextOffset(m)]
<1>1. pend \in Offsets
  BY MessageParts DEF NextOffset, TypeOK, Offsets
<1>2. CASE Flush(c, pend)
  BY <1>1, <1>2, FlushType
<1>3. CASE /\ ~BatchFull(c)
           /\ pending' = [pending EXCEPT ![c] = pend]
           /\ since' = [since EXCEPT ![c] = @ + 1]
           /\ UNCHANGED inflight
  BY <1>1, <1>3, ConstantsAssumption DEF BatchFull, TypeOK
<1> QED
  BY <1>2, <1>3 DEF MarkConfirmed

LEMMA LoseMemoryType ==
    ASSUME TypeOK, NEW c \in Consumers, LoseMemory(c)
    PROVE  /\ pc' \in [Consumers -> {"down", "connecting", "poll", "inserting", "closing"}]
           /\ position' \in Offsets
           /\ cur' \in [Consumers -> Messages \cup {NoMessage}]
           /\ attempt' \in [Consumers -> 0 .. DbRetryAttempts]
           /\ pending' \in [Consumers -> Offsets]
           /\ since' \in [Consumers -> 0 .. CommitBatchSize - 1]
           /\ cache' \in [Consumers -> SUBSET Ids]
           /\ conn' \in [Consumers -> {"open", "broken"}]
  BY NoOffsetsType, ConstantsAssumption DEF LoseMemory, DropPositions, TypeOK, Offsets

LEMMA LeaveGroupType ==
    ASSUME TypeOK, NEW c \in Consumers, LeaveGroup(c)
    PROVE  /\ session' \in [Consumers -> {"none", "joining", "stable"}]
           /\ owner' \in [Partitions -> Consumers \cup {NoOne}]
           /\ inflight' \in [Consumers -> Seq(Offsets)]
  BY DEF LeaveGroup, TypeOK

LEMMA DiesType ==
    ASSUME TypeOK, NEW c \in Consumers, Dies(c), faults' \in 0 .. MaxFaults
    PROVE  TypeOK'
<1>1. /\ dlqBuf' \in [Consumers -> SUBSET Messages]
      /\ dlqTopic' \subseteq Messages
      /\ dlqLost' \subseteq Messages
  BY DEF Dies, LoseDlqBuffer, TypeOK
<1> QED
  BY <1>1, LoseMemoryType DEF Dies, groupVars, dbVars, TypeOK

LEMMA FaultType ==
    ASSUME TypeOK, NEW kind, Fault(kind)
    PROVE  faults' \in 0 .. MaxFaults
  BY ConstantsAssumption DEF Fault, TypeOK

LEMMA AdvanceType ==
    ASSUME TypeOK, NEW m \in Messages, Advance(m)
    PROVE  position' \in Offsets
  BY MessageParts DEF Advance, TypeOK, Offsets

(* The messages a poll handles. *)
LEMMA PollType ==
    ASSUME TypeOK, NEW c \in Consumers, Poll(c)
    PROVE  TypeOK'
<1>1. PICK m \in Messages : \/ PollReject(c, m) \/ PollOverflow(c, m) \/ PollRaises(c, m)
                            \/ PollDuplicate(c, m) \/ PollNew(c, m)
  BY DEF Poll
<1>2. CASE PollReject(c, m)
  <2>1. dlqBuf' \in [Consumers -> SUBSET Messages]
    BY <1>2 DEF PollReject, TypeOK
  <2> QED
    BY <1>2, <2>1, MarkType, AdvanceType DEF PollReject, dbVars, TypeOK
<1>3. CASE PollOverflow(c, m) \/ PollRaises(c, m)
  BY <1>3, DiesType DEF PollOverflow, PollRaises, TypeOK
<1>4. CASE PollDuplicate(c, m)
  <2>1. cache' \in [Consumers -> SUBSET Ids]
    BY <1>4 DEF PollDuplicate, TypeOK
  <2> QED
    BY <1>4, <2>1, MarkType, AdvanceType DEF PollDuplicate, dlqVars, dbVars, TypeOK
<1>5. CASE PollNew(c, m)
  <2>1. cache' \in [Consumers -> SUBSET Ids]
    BY <1>5 DEF PollNew, TypeOK
  <2>2. cur' \in [Consumers -> Messages \cup {NoMessage}]
    BY <1>5 DEF PollNew, TypeOK
  <2>3. attempt' \in [Consumers -> 0 .. DbRetryAttempts]
    BY <1>5, ConstantsAssumption DEF PollNew, TypeOK
  <2> QED
    BY <1>5, <2>1, <2>2, <2>3, AdvanceType DEF PollNew, groupVars, dlqVars, dbVars, TypeOK
<1> QED
  BY <1>1, <1>2, <1>3, <1>4, <1>5

LEMMA InsertRowGrows ==
    ASSUME NEW m \in Messages
    PROVE  /\ rows \subseteq InsertRow(m)
           /\ InsertRow(m) \subseteq rows \cup {m}
           /\ Id(m) \in { Id(n) : n \in InsertRow(m) }
  BY DEF InsertRow, RowIds

LEMMA CacheAddBound ==
    ASSUME NEW ids, NEW id, NEW new \in CacheAdd(ids, id)
    PROVE  new \subseteq ids \cup {id}
  BY DEF CacheAdd

(* The outcomes of insert_with_retry. *)
LEMMA InsertType ==
    ASSUME TypeOK, NEW c \in Consumers, Insert(c)
    PROVE  TypeOK'
<1>1. PICK m \in Messages : InsertSucceeds(c, m) \/ InsertRetries(c, m) \/ InsertGivesUp(c, m)
  BY DEF Insert
<1>2. CASE InsertSucceeds(c, m)
  <2>1. cache' \in [Consumers -> SUBSET Ids]
    BY <1>2, CacheAddBound, MessageParts DEF InsertSucceeds, TypeOK
  <2>2. rows' \subseteq Messages
    BY <1>2, InsertRowGrows DEF InsertSucceeds, TypeOK
  <2>3. attempt' \in [Consumers -> 0 .. DbRetryAttempts]
    BY <1>2, ConstantsAssumption DEF InsertSucceeds, TypeOK
  <2> QED
    BY <1>2, <2>1, <2>2, <2>3, MarkType DEF InsertSucceeds, dlqVars, TypeOK
<1>3. ASSUME AttemptFails(c, m)
      PROVE  rows' \subseteq Messages /\ faults' \in 0 .. MaxFaults
  BY <1>3, InsertRowGrows, FaultType DEF AttemptFails, TypeOK
<1>4. CASE InsertRetries(c, m)
  <2>1. attempt' \in [Consumers -> 0 .. DbRetryAttempts]
    BY <1>4, ConstantsAssumption DEF InsertRetries, LastAttempt, TypeOK
  <2>2. conn' \in [Consumers -> {"open", "broken"}]
    BY <1>4 DEF InsertRetries, TypeOK
  <2> QED
    BY <1>3, <1>4, <2>1, <2>2 DEF InsertRetries, groupVars, dlqVars, TypeOK
<1>5. CASE InsertGivesUp(c, m)
  <2>1. pending[c] \in Offsets
    BY DEF TypeOK
  <2> QED
    BY <1>3, <1>5, <2>1, FlushType DEF InsertGivesUp, dlqVars, TypeOK
<1> QED
  BY <1>1, <1>2, <1>4, <1>5

(* The rest of what a process does. *)
LEMMA ProcessType ==
    ASSUME TypeOK, NEW c \in Consumers,
           \/ Start(c) \/ ConnectSucceeds(c) \/ ConnectGivesUp(c)
           \/ IdleFlush(c) \/ IdlePoll(c) \/ Stop(c) \/ Exit(c) \/ Crash(c)
    PROVE  TypeOK'
<1>1. CASE Start(c)
  BY <1>1 DEF Start, memoryVars, dlqVars, dbVars, TypeOK
<1>2. CASE ConnectSucceeds(c)
  BY <1>2 DEF ConnectSucceeds, groupVars, dlqVars, dbVars, TypeOK
<1>3. CASE ConnectGivesUp(c)
  BY <1>3, LoseMemoryType, LeaveGroupType DEF ConnectGivesUp, dlqVars, dbVars, TypeOK
<1>4. pending[c] \in Offsets
  BY DEF TypeOK
<1>5. CASE IdleFlush(c)
  BY <1>4, <1>5, FlushType DEF IdleFlush, dlqVars, dbVars, TypeOK
<1>6. CASE IdlePoll(c)
  BY <1>6 DEF IdlePoll, vars, groupVars, memoryVars, dlqVars, dbVars, TypeOK
<1>7. CASE Stop(c)
  BY <1>4, <1>7, FlushType, FaultType DEF Stop, dlqVars, dbVars, TypeOK
<1>8. CASE Exit(c)
  <2>1. /\ dlqBuf' \in [Consumers -> SUBSET Messages]
        /\ dlqTopic' \subseteq Messages
        /\ dlqLost' \subseteq Messages
    BY <1>8 DEF Exit, DlqClose, FlushTimesOut, LoseDlqBuffer, TypeOK
  <2>2. faults' \in 0 .. MaxFaults
    BY <1>8, FaultType DEF Exit, DlqClose, FlushTimesOut, TypeOK
  <2> QED
    BY <1>8, <2>1, <2>2, LoseMemoryType, LeaveGroupType DEF Exit, dbVars, TypeOK
<1>9. CASE Crash(c)
  BY <1>9, DiesType, FaultType DEF Crash
<1> QED
  BY <1>1, <1>2, <1>3, <1>5, <1>6, <1>7, <1>8, <1>9

(* The group coordinator, the commits on the wire, the DLQ deliveries. *)
LEMMA KafkaType ==
    ASSUME TypeOK, NEW c \in Consumers,
           \/ SessionTimeout(c) \/ Evict(c) \/ Rejoin(c)
           \/ CommitLands(c) \/ CommitFails(c)
           \/ DlqDelivered(c) \/ DlqDeliveryFails(c)
    PROVE  TypeOK'
<1>1. CASE SessionTimeout(c)
  BY <1>1, LeaveGroupType DEF SessionTimeout, memoryVars, dlqVars, dbVars, TypeOK
<1>2. CASE Evict(c)
  <2>1. position' \in Offsets
    BY <1>2 DEF Evict, DropPositions, TypeOK, Offsets
  <2> QED
    BY <1>2, <2>1, LeaveGroupType, FaultType DEF Evict, memoryVars, dlqVars, dbVars, TypeOK
<1>3. CASE Rejoin(c)
  BY <1>3 DEF Rejoin, memoryVars, dlqVars, dbVars, TypeOK
<1>4. ASSUME inflight[c] # <<>>
      PROVE  Head(inflight[c]) \in Offsets /\ Tail(inflight[c]) \in Seq(Offsets)
  BY <1>4 DEF TypeOK
<1>5. CASE CommitLands(c)
  <2>1. committed' \in Offsets
    BY <1>4, <1>5 DEF CommitLands, TypeOK, Offsets
  <2> QED
    BY <1>4, <1>5, <2>1 DEF CommitLands, memoryVars, dlqVars, dbVars, TypeOK
<1>6. CASE CommitFails(c)
  BY <1>4, <1>6, FaultType DEF CommitFails, memoryVars, dlqVars, dbVars, TypeOK
<1>7. CASE DlqDelivered(c)
  BY <1>7 DEF DlqDelivered, groupVars, memoryVars, dbVars, TypeOK
<1>8. CASE DlqDeliveryFails(c)
  BY <1>8, FaultType DEF DlqDeliveryFails, groupVars, memoryVars, dbVars, TypeOK
<1> QED
  BY <1>1, <1>2, <1>3, <1>5, <1>6, <1>7, <1>8

LEMMA EnvironmentType ==
    ASSUME TypeOK, Rebalance \/ DbStops \/ DbStarts
    PROVE  TypeOK'
<1>1. CASE Rebalance
  <2>1. owner' \in [Partitions -> Consumers \cup {NoOne}]
    BY <1>1 DEF Rebalance, Assignments, Members
  <2> QED
    BY <1>1, <2>1 DEF Rebalance, memoryVars, dlqVars, dbVars, TypeOK
<1>2. CASE DbStops
  BY <1>2, FaultType DEF DbStops, groupVars, dlqVars, TypeOK
<1>3. CASE DbStarts
  BY <1>3 DEF DbStarts, groupVars, memoryVars, dlqVars, TypeOK
<1> QED
  BY <1>1, <1>2, <1>3

LEMMA TypeStep == TypeOK /\ [Next]_vars => TypeOK'
<1> SUFFICES ASSUME TypeOK, [Next]_vars PROVE TypeOK'
  OBVIOUS
<1>1. CASE UNCHANGED vars
  BY <1>1 DEF vars, groupVars, memoryVars, dlqVars, dbVars, TypeOK
<1>2. CASE Next
  BY <1>2, PollType, InsertType, ProcessType, KafkaType, EnvironmentType DEF Next
<1> QED
  BY <1>1, <1>2

(* Type correctness of the whole specification. *)
THEOREM TypeCorrect == Spec => []TypeOK
<1>1. Init => TypeOK
  BY NoOffsetsType, ConstantsAssumption DEF Init, TypeOK
<1> QED
  BY <1>1, TypeStep, PTL DEF Spec

-----------------------------------------------------------------------------
(***************************************************************************)
(* The evidence that messages were handled.                                 *)
(***************************************************************************)

LEMMA DiesKeepsRecords ==
    ASSUME TypeOK, NEW c \in Consumers, LoseDlqBuffer(c)
    PROVE  Routed' = Routed
<1>1. Buffered' \cup dlqBuf[c] = Buffered
  BY DEF LoseDlqBuffer, Buffered, TypeOK
<1> QED
  BY <1>1 DEF LoseDlqBuffer, Routed

(* What a step can add to the evidence: nothing, one record sent to the DLQ, *)
(* or one row, for the message in a consumer's hand. Nothing is taken away.  *)
LEMMA EvidenceStep ==
    ASSUME TypeOK, [Next]_vars
    PROVE  \/ rows' = rows /\ Routed' = Routed
           \/ \E c \in Consumers, m \in Messages :
                /\ Polled(c, m) /\ Kind(m) \in Rejected /\ UNCHANGED committed
                /\ rows' = rows /\ Routed' = Routed \cup {m}
           \/ \E c \in Consumers, m \in Messages :
                /\ cur[c] = m /\ Kind(m) \in Storable /\ UNCHANGED committed
                /\ rows' = InsertRow(m) /\ Routed' = Routed
<1> USE DEF groupVars, memoryVars, dlqVars, dbVars
<1>1. ASSUME UNCHANGED dlqVars PROVE Routed' = Routed
  BY <1>1 DEF Routed, Buffered
<1>2. CASE UNCHANGED vars
  BY <1>1, <1>2 DEF vars
<1>3. CASE \E c \in Consumers : Poll(c)
  <2>1. PICK c \in Consumers, m \in Messages :
          \/ PollReject(c, m) \/ PollOverflow(c, m) \/ PollRaises(c, m)
          \/ PollDuplicate(c, m) \/ PollNew(c, m)
    BY <1>3 DEF Poll
  <2>2. CASE PollReject(c, m)
    <3>1. Buffered' = Buffered \cup {m}
      BY <2>2 DEF PollReject, Buffered, TypeOK
    <3>2. Routed' = Routed \cup {m}
      BY <2>2, <3>1 DEF PollReject, Routed
    <3> QED
      BY <2>2, <3>2 DEF PollReject
  <2>3. CASE PollOverflow(c, m) \/ PollRaises(c, m)
    BY <2>3, DiesKeepsRecords DEF PollOverflow, PollRaises, Dies
  <2>4. CASE PollDuplicate(c, m) \/ PollNew(c, m)
    BY <1>1, <2>4 DEF PollDuplicate, PollNew
  <2> QED
    BY <2>1, <2>2, <2>3, <2>4
<1>4. CASE \E c \in Consumers : Insert(c)
  <2>1. PICK c \in Consumers, m \in Messages :
          InsertSucceeds(c, m) \/ InsertRetries(c, m) \/ InsertGivesUp(c, m)
    BY <1>4 DEF Insert
  <2>2. Routed' = Routed /\ UNCHANGED committed /\ cur[c] = m
    BY <1>1, <2>1 DEF InsertSucceeds, InsertRetries, InsertGivesUp, AttemptFails
  <2>3. rows' = rows \/ (rows' = InsertRow(m) /\ Kind(m) \in Storable)
    BY <2>1 DEF InsertSucceeds, InsertRetries, InsertGivesUp, AttemptFails, Storable
  <2> QED
    BY <2>2, <2>3
<1>5. CASE \E c \in Consumers :
             \/ Start(c) \/ ConnectSucceeds(c) \/ ConnectGivesUp(c) \/ IdleFlush(c)
             \/ IdlePoll(c) \/ Stop(c) \/ SessionTimeout(c) \/ Evict(c) \/ Rejoin(c)
             \/ CommitLands(c) \/ CommitFails(c)
  BY <1>1, <1>5 DEF Start, ConnectSucceeds, ConnectGivesUp, IdleFlush, IdlePoll, vars, Stop,
                    SessionTimeout, Evict, Rejoin, CommitLands, CommitFails
<1>6. CASE \E c \in Consumers : Crash(c)
  BY <1>6, DiesKeepsRecords DEF Crash, Dies
<1>7. CASE \E c \in Consumers : Exit(c)
  <2>1. PICK c \in Consumers : Exit(c)
    BY <1>7
  <2>2. CASE LoseDlqBuffer(c)
    BY <2>1, <2>2, DiesKeepsRecords DEF Exit
  <2>3. CASE /\ dlqTopic' = dlqTopic \cup dlqBuf[c]
             /\ dlqBuf' = [dlqBuf EXCEPT ![c] = {}]
             /\ dlqLost' = dlqLost
    <3>1. Buffered' \cup dlqBuf[c] = Buffered
      BY <2>3 DEF Buffered, TypeOK
    <3> QED
      BY <2>1, <2>3, <3>1 DEF Exit, Routed
  <2> QED
    BY <2>1, <2>2, <2>3 DEF Exit, DlqClose, FlushTimesOut
<1>8. CASE \E c \in Consumers : DlqDelivered(c) \/ DlqDeliveryFails(c)
  <2>1. PICK c \in Consumers : DlqDelivered(c) \/ DlqDeliveryFails(c)
    BY <1>8
  <2>2. PICK m \in dlqBuf[c] :
          /\ dlqBuf' = [dlqBuf EXCEPT ![c] = @ \ {m}]
          /\ \/ dlqTopic' = dlqTopic \cup {m} /\ dlqLost' = dlqLost
             \/ dlqLost' = dlqLost \cup {m} /\ dlqTopic' = dlqTopic
    BY <2>1 DEF DlqDelivered, DlqDeliveryFails
  <2>3. Buffered' \cup {m} = Buffered
    BY <2>2 DEF Buffered, TypeOK
  <2> QED
    BY <2>1, <2>2, <2>3 DEF DlqDelivered, DlqDeliveryFails, Routed
<1>9. CASE Rebalance \/ DbStops \/ DbStarts
  BY <1>1, <1>9 DEF Rebalance, DbStops, DbStarts
<1> QED
  BY <1>2, <1>3, <1>4, <1>5, <1>6, <1>7, <1>8, <1>9 DEF Next

(* Outcomes are never undone. *)
LEMMA SettledStep ==
    ASSUME TypeOK, [Next]_vars
    PROVE  Settled \subseteq Settled' /\ RowIds \subseteq RowIds'
<1>1. rows \subseteq rows' /\ Routed \subseteq Routed'
  BY EvidenceStep, InsertRowGrows
<1> QED
  BY <1>1, SettledGrows DEF RowIds, Id

-----------------------------------------------------------------------------
(***************************************************************************)
(* The inductive invariant. Each lemma is about one conjunct and the part   *)
(* of a step that can disturb it, given that settled messages stay settled. *)
(***************************************************************************)

LEMMA RequestsKept ==
    ASSUME RequestsSettled, Settled \subseteq Settled', UNCHANGED <<pending, inflight>>
    PROVE  RequestsSettled'
  BY DEF RequestsSettled

(* Appending to one queue. *)
LEMMA InflightAppended ==
    ASSUME TypeOK, RequestsSettled, Settled \subseteq Settled',
           NEW c \in Consumers, NEW pend \in Offsets,
           \A p \in Partitions : Before(p, pend[p]) \subseteq Settled',
           inflight' = [inflight EXCEPT ![c] = Append(@, pend)]
    PROVE  \A d \in Consumers : \A p \in Partitions : \A i \in 1 .. Len(inflight'[d]) :
             Before(p, inflight'[d][i][p]) \subseteq Settled'
<1> SUFFICES ASSUME NEW d \in Consumers, NEW p \in Partitions, NEW i \in 1 .. Len(inflight'[d])
             PROVE  Before(p, inflight'[d][i][p]) \subseteq Settled'
  OBVIOUS
<1>1. CASE d = c
  <2>1. inflight'[d] = Append(inflight[c], pend) /\ inflight[c] \in Seq(Offsets)
    BY <1>1 DEF TypeOK
  <2>2. CASE i = Len(inflight[c]) + 1
    BY <2>1, <2>2
  <2>3. CASE i \in 1 .. Len(inflight[c])
    <3>1. inflight'[d][i] = inflight[c][i]
      BY <2>1, <2>3
    <3> QED
      BY <2>3, <3>1 DEF RequestsSettled
  <2> QED
    BY <2>1, <2>2, <2>3
<1>2. CASE d # c
  <2>1. inflight'[d] = inflight[d]
    BY <1>2 DEF TypeOK
  <2> QED
    BY <2>1 DEF RequestsSettled
<1> QED
  BY <1>1, <1>2

LEMMA RequestsAfterFlush ==
    ASSUME TypeOK, RequestsSettled, Settled \subseteq Settled',
           NEW c \in Consumers, NEW pend \in Offsets,
           \A p \in Partitions : Before(p, pend[p]) \subseteq Settled',
           Flush(c, pend)
    PROVE  RequestsSettled'
<1>1. \A d \in Consumers : \A p \in Partitions : Before(p, pending'[d][p]) \subseteq Settled'
  <2> SUFFICES ASSUME NEW d \in Consumers, NEW p \in Partitions
               PROVE  Before(p, pending'[d][p]) \subseteq Settled'
    OBVIOUS
  <2>1. pending'[d][p] \in {0, pend[p]} \/ pending'[d] = pending[d]
    BY DEF Flush, OnceIssued, NoOffsets, TypeOK
  <2> QED
    BY <2>1, EmptyPrefix DEF RequestsSettled
<1>2. CASE inflight' = inflight
  BY <1>1, <1>2 DEF RequestsSettled
<1>3. CASE inflight' = [inflight EXCEPT ![c] = Append(@, pend)]
  BY <1>1, <1>3, InflightAppended DEF RequestsSettled
<1> QED
  BY <1>2, <1>3 DEF Flush

LEMMA RequestsAfterMark ==
    ASSUME TypeOK, RequestsSettled, Settled \subseteq Settled',
           NEW c \in Consumers, NEW m \in Messages,
           Before(m[1], m[2] + 1) \subseteq Settled',
           MarkConfirmed(c, m)
    PROVE  RequestsSettled'
<1> DEFINE pend == [pending[c] EXCEPT ![m[1]] = NextOffset(m)]
<1>1. pend \in Offsets
  BY MessageParts DEF NextOffset, TypeOK, Offsets
<1>2. \A p \in Partitions : Before(p, pend[p]) \subseteq Settled'
  <2> SUFFICES ASSUME NEW p \in Partitions PROVE Before(p, pend[p]) \subseteq Settled'
    OBVIOUS
  <2>1. pend[p] = IF p = m[1] THEN m[2] + 1 ELSE pending[c][p]
    BY DEF NextOffset, TypeOK, Offsets
  <2> QED
    BY <2>1 DEF RequestsSettled
<1>3. CASE Flush(c, pend)
  BY <1>1, <1>2, <1>3, RequestsAfterFlush
<1>4. CASE pending' = [pending EXCEPT ![c] = pend] /\ inflight' = inflight
  <2>1. \A d \in Consumers : pending'[d] = IF d = c THEN pend ELSE pending[d]
    BY <1>4 DEF TypeOK
  <2> QED
    BY <1>2, <1>4, <2>1 DEF RequestsSettled
<1> QED
  BY <1>3, <1>4 DEF MarkConfirmed

(* Requests that are dropped leave nothing to settle. *)
LEMMA RequestsDropped ==
    ASSUME TypeOK, RequestsSettled, Settled \subseteq Settled', NEW c \in Consumers,
           \/ UNCHANGED pending
           \/ pending' = [pending EXCEPT ![c] = NoOffsets],
           \/ UNCHANGED inflight
           \/ inflight' = [inflight EXCEPT ![c] = <<>>]
           \/ inflight[c] # <<>> /\ inflight' = [inflight EXCEPT ![c] = Tail(@)]
    PROVE  RequestsSettled'
<1> SUFFICES ASSUME NEW d \in Consumers, NEW p \in Partitions
             PROVE  /\ Before(p, pending'[d][p]) \subseteq Settled'
                    /\ \A i \in 1 .. Len(inflight'[d]) :
                          Before(p, inflight'[d][i][p]) \subseteq Settled'
  BY DEF RequestsSettled
<1>1. Before(p, pending'[d][p]) \subseteq Settled'
  <2>1. pending'[d] = pending[d] \/ pending'[d][p] = 0
    BY DEF NoOffsets, TypeOK
  <2> QED
    BY <2>1, EmptyPrefix DEF RequestsSettled
<1>2. ASSUME NEW i \in 1 .. Len(inflight'[d])
      PROVE  Before(p, inflight'[d][i][p]) \subseteq Settled'
  <2>1. inflight[d] \in Seq(Offsets)
    BY DEF TypeOK
  <2>2. \/ inflight'[d] = inflight[d]
        \/ inflight'[d] = <<>>
        \/ inflight[d] # <<>> /\ inflight'[d] = Tail(inflight[d])
    BY DEF TypeOK
  <2>3. \E j \in 1 .. Len(inflight[d]) : inflight'[d][i] = inflight[d][j]
    <3>1. CASE inflight'[d] = inflight[d]
      BY <3>1
    <3>2. CASE inflight'[d] = <<>>
      BY <3>2
    <3>3. CASE inflight[d] # <<>> /\ inflight'[d] = Tail(inflight[d])
      <4>1. i + 1 \in 1 .. Len(inflight[d]) /\ inflight'[d][i] = inflight[d][i + 1]
        BY <2>1, <3>3
      <4> QED
        BY <4>1
    <3> QED
      BY <2>2, <3>1, <3>2, <3>3
  <2> QED
    BY <2>3 DEF RequestsSettled
<1> QED
  BY <1>1, <1>2

LEMMA CommittedKept ==
    ASSUME OnlyConfirmedCommitted, Settled \subseteq Settled', UNCHANGED committed
    PROVE  OnlyConfirmedCommitted'
  BY DEF OnlyConfirmedCommitted

LEMMA CacheKept ==
    ASSUME TypeOK, CacheBackedByRows, RowIds \subseteq RowIds', NEW c \in Consumers,
           NEW ids \in SUBSET RowIds',
           UNCHANGED cache \/ cache' = [cache EXCEPT ![c] = ids]
    PROVE  CacheBackedByRows'
  BY DEF CacheBackedByRows, TypeOK

LEMMA HandsKept ==
    ASSUME HandInOrder, ResumeSettled, Settled \subseteq Settled',
           UNCHANGED <<cur, owner, position>>
    PROVE  HandInOrder' /\ ResumeSettled'
<1>1. HandInOrder'
  BY DEF HandInOrder, Kind
<1>2. ResumeSettled'
  BY DEF ResumeSettled, Resume
<1> QED
  BY <1>1, <1>2

(* A step that moves nobody and confirms nothing. *)
LEMMA QuietStep ==
    ASSUME IInv, TypeOK', Settled \subseteq Settled', RowIds \subseteq RowIds', HandsEmpty',
           UNCHANGED <<committed, inflight, owner, position, cur, pending, cache>>
    PROVE  IInv'
<1>1. OnlyConfirmedCommitted'
  BY CommittedKept DEF IInv
<1>2. CacheBackedByRows'
  BY DEF IInv, CacheBackedByRows
<1>3. HandInOrder' /\ ResumeSettled'
  BY HandsKept DEF IInv
<1>4. RequestsSettled'
  BY RequestsKept DEF IInv
<1> QED
  BY <1>1, <1>2, <1>3, <1>4 DEF IInv

(* c lost its memory, and perhaps its partitions; the others keep theirs. *)
LEMMA HandsForgotten ==
    ASSUME IInv, TypeOK', Settled \subseteq Settled', NEW c \in Consumers, LoseMemory(c),
           \/ UNCHANGED owner
           \/ owner' = [p \in Partitions |-> IF owner[p] = c THEN NoOne ELSE owner[p]]
    PROVE  HandsEmpty' /\ HandInOrder' /\ ResumeSettled'
<1>1. \A d \in Consumers : \/ d = c /\ cur'[d] = NoMessage
                           \/ d # c /\ cur'[d] = cur[d] /\ pc'[d] = pc[d]
  BY DEF IInv, LoseMemory, TypeOK
<1>2. \A p \in Partitions : owner'[p] # NoOne =>
         /\ owner'[p] = owner[p]
         /\ owner'[p] = c => position'[p] = 0
         /\ owner'[p] # c => position'[p] = position[p]
  BY DEF IInv, LoseMemory, DropPositions, TypeOK
<1>3. HandsEmpty'
  BY <1>1 DEF IInv, HandsEmpty
<1>4. HandInOrder'
  <2> SUFFICES ASSUME NEW d \in Consumers, cur'[d] # NoMessage
               PROVE  /\ Kind(cur'[d]) \in Storable
                      /\ Before(cur'[d][1], cur'[d][2]) \subseteq Settled'
                      /\ owner'[cur'[d][1]] = d => position'[cur'[d][1]] = cur'[d][2] + 1
    BY DEF HandInOrder, Kind
  <2>1. d # c /\ cur'[d] = cur[d] /\ cur[d][1] \in Partitions /\ d # NoOne
    BY <1>1, MessageParts, ConstantsAssumption DEF IInv, TypeOK
  <2> QED
    BY <1>2, <2>1 DEF IInv, HandInOrder
<1>5. ResumeSettled'
  <2> SUFFICES ASSUME NEW p \in Partitions, owner'[p] # NoOne
               PROVE  Before(p, Resume(owner[p], p)') \subseteq Settled'
    BY <1>2 DEF ResumeSettled, Resume
  <2>1. owner[p] \in Consumers /\ owner[p] # NoOne
    BY <1>2 DEF IInv, TypeOK
  <2>2. CASE owner[p] = c
    BY <1>1, <1>2, <2>1, <2>2, EmptyPrefix DEF Resume
  <2>3. CASE owner[p] # c
    BY <1>1, <1>2, <2>1, <2>3 DEF IInv, ResumeSettled, Resume
  <2> QED
    BY <2>2, <2>3
<1> QED
  BY <1>3, <1>4, <1>5

(* The group takes c's partitions away; c keeps the message in its hand. *)
LEMMA HandsWithdrawn ==
    ASSUME IInv, TypeOK', Settled \subseteq Settled', NEW c \in Consumers,
           UNCHANGED cur,
           owner' = [p \in Partitions |-> IF owner[p] = c THEN NoOne ELSE owner[p]],
           UNCHANGED position \/ DropPositions(c)
    PROVE  HandInOrder' /\ ResumeSettled'
<1>1. \A p \in Partitions : owner'[p] # NoOne =>
         owner'[p] = owner[p] /\ owner[p] # c /\ position'[p] = position[p]
  BY DEF IInv, DropPositions, TypeOK
<1>2. HandInOrder'
  <2> SUFFICES ASSUME NEW d \in Consumers, cur[d] # NoMessage
               PROVE  /\ Kind(cur[d]) \in Storable
                      /\ Before(cur[d][1], cur[d][2]) \subseteq Settled'
                      /\ owner'[cur[d][1]] = d => position'[cur[d][1]] = cur[d][2] + 1
    BY DEF HandInOrder, Kind
  <2>1. cur[d][1] \in Partitions /\ d # NoOne
    BY MessageParts, ConstantsAssumption DEF IInv, TypeOK
  <2> QED
    BY <1>1, <2>1 DEF IInv, HandInOrder
<1>3. ResumeSettled'
  <2> SUFFICES ASSUME NEW p \in Partitions, owner'[p] # NoOne
               PROVE  Before(p, Resume(owner[p], p)') \subseteq Settled'
    BY <1>1 DEF ResumeSettled, Resume
  <2>1. Resume(owner[p], p)' = Resume(owner[p], p)
    BY <1>1 DEF Resume
  <2> QED
    BY <1>1, <2>1 DEF IInv, ResumeSettled
<1> QED
  BY <1>2, <1>3

(* A consumer that holds nothing is handed m. *)
LEMMA HandsAfterPoll ==
    ASSUME IInv, TypeOK', Settled \subseteq Settled', NEW c \in Consumers, NEW m \in Messages,
           Polled(c, m), Advance(m), UNCHANGED owner,
           \/ UNCHANGED cur /\ m \in Settled'
           \/ cur' = [cur EXCEPT ![c] = m] /\ Kind(m) \in Storable
    PROVE  /\ HandInOrder'
           /\ ResumeSettled'
           /\ Before(m[1], m[2]) \subseteq Settled'
<1>1. cur[c] = NoMessage /\ owner[m[1]] = c /\ position[m[1]] = m[2]
  BY DEF Polled, IInv, HandsEmpty
<1>2. m[1] \in Partitions /\ m[2] \in Nat /\ m # NoMessage /\ c # NoOne
  BY MessageParts, ConstantsAssumption
<1>3. Before(m[1], m[2]) \subseteq Settled'
  BY <1>1, <1>2 DEF IInv, ResumeSettled, Resume
<1>4. \A p \in Partitions : position'[p] = IF p = m[1] THEN m[2] + 1 ELSE position[p]
  BY DEF Advance, IInv, TypeOK, Offsets
<1>5. \A d \in Consumers \ {c} : cur'[d] = cur[d]
  BY DEF IInv, TypeOK
<1>6. (cur'[c] = NoMessage /\ m \in Settled') \/ (cur'[c] = m /\ Kind(m) \in Storable)
  BY <1>1 DEF IInv, TypeOK
<1>7. HandInOrder'
  <2> SUFFICES ASSUME NEW d \in Consumers, cur'[d] # NoMessage
               PROVE  /\ Kind(cur'[d]) \in Storable
                      /\ Before(cur'[d][1], cur'[d][2]) \subseteq Settled'
                      /\ owner[cur'[d][1]] = d => position'[cur'[d][1]] = cur'[d][2] + 1
    BY DEF HandInOrder, Kind
  <2>1. CASE d = c
    BY <1>2, <1>3, <1>4, <1>6, <2>1
  <2>2. CASE d # c
    <3>1. cur'[d] = cur[d] /\ cur[d] \in Messages /\ cur[d][1] \in Partitions
      BY <1>5, <2>2, MessageParts DEF IInv, TypeOK
    <3> QED
      BY <1>1, <1>4, <2>2, <3>1 DEF IInv, HandInOrder
  <2> QED
    BY <2>1, <2>2
<1>8. ResumeSettled'
  <2> SUFFICES ASSUME NEW p \in Partitions, owner[p] # NoOne
               PROVE  Before(p, Resume(owner[p], p)') \subseteq Settled'
    BY DEF ResumeSettled, Resume
  <2>1. owner[p] \in Consumers
    BY DEF IInv, TypeOK
  <2>2. CASE p = m[1]
    <3>1. CASE cur'[c] = NoMessage
      <4>1. m \in Settled'
        BY <1>2, <1>6, <3>1
      <4> QED
        BY <1>1, <1>2, <1>3, <1>4, <2>2, <3>1, <4>1, PrefixStep DEF Resume
    <3>2. CASE cur'[c] = m
      BY <1>1, <1>2, <1>3, <2>2, <3>2 DEF Resume
    <3> QED
      BY <1>6, <3>1, <3>2
  <2>3. CASE p # m[1]
    <3>1. Resume(owner[p], p)' = Resume(owner[p], p)
      BY <1>1, <1>2, <1>4, <1>5, <1>6, <2>1, <2>3 DEF Resume
    <3> QED
      BY <3>1 DEF IInv, ResumeSettled
  <2> QED
    BY <2>2, <2>3
<1> QED
  BY <1>3, <1>7, <1>8

(* The message in c's hand got its outcome and is put down. *)
LEMMA HandsAfterInsert ==
    ASSUME IInv, TypeOK', Settled \subseteq Settled', NEW c \in Consumers, NEW m \in Messages,
           cur[c] = m, m \in Settled',
           cur' = [cur EXCEPT ![c] = NoMessage], UNCHANGED <<owner, position>>
    PROVE  /\ HandInOrder'
           /\ ResumeSettled'
           /\ Before(m[1], m[2] + 1) \subseteq Settled'
<1>1. m # NoMessage /\ m[1] \in Partitions
  BY MessageParts
<1>2. Before(m[1], m[2] + 1) \subseteq Settled'
  <2>1. Before(m[1], m[2]) \subseteq Settled'
    BY <1>1 DEF IInv, HandInOrder
  <2> QED
    BY <2>1, PrefixStep
<1>3. \A d \in Consumers : cur'[d] = IF d = c THEN NoMessage ELSE cur[d]
  BY DEF IInv, TypeOK
<1>4. HandInOrder'
  BY <1>3 DEF IInv, HandInOrder, Kind
<1>5. ResumeSettled'
  <2> SUFFICES ASSUME NEW p \in Partitions, owner[p] # NoOne
               PROVE  Before(p, Resume(owner[p], p)') \subseteq Settled'
    BY DEF ResumeSettled, Resume
  <2>1. owner[p] \in Consumers
    BY DEF IInv, TypeOK
  <2>2. CASE owner[p] = c /\ p = m[1]
    <3>1. position[p] = m[2] + 1
      BY <1>1, <2>2 DEF IInv, HandInOrder
    <3> QED
      BY <1>2, <1>3, <2>1, <2>2, <3>1 DEF Resume
  <2>3. CASE ~(owner[p] = c /\ p = m[1])
    <3>1. Resume(owner[p], p)' = Resume(owner[p], p)
      BY <1>3, <2>1, <2>3 DEF Resume
    <3> QED
      BY <3>1 DEF IInv, ResumeSettled
  <2> QED
    BY <2>2, <2>3
<1> QED
  BY <1>2, <1>4, <1>5

-----------------------------------------------------------------------------
(***************************************************************************)
(* Every step preserves the invariant.                                      *)
(***************************************************************************)

LEMMA DiesInv ==
    ASSUME IInv, TypeOK', Settled \subseteq Settled', RowIds \subseteq RowIds',
           NEW c \in Consumers, Dies(c)
    PROVE  IInv'
<1>1. OnlyConfirmedCommitted'
  BY CommittedKept DEF IInv, Dies, groupVars
<1>2. CacheBackedByRows'
  BY CacheKept DEF IInv, Dies, LoseMemory
<1>3. HandsEmpty' /\ HandInOrder' /\ ResumeSettled'
  BY HandsForgotten DEF Dies, groupVars
<1>4. RequestsSettled'
  BY RequestsDropped DEF IInv, Dies, LoseMemory, groupVars
<1> QED
  BY <1>1, <1>2, <1>3, <1>4 DEF IInv

(* Connecting fails, or the loop has ended: memory and membership go. *)
LEMMA LeavesInv ==
    ASSUME IInv, TypeOK', Settled \subseteq Settled', RowIds \subseteq RowIds',
           NEW c \in Consumers, LoseMemory(c), LeaveGroup(c), UNCHANGED committed
    PROVE  IInv'
<1>1. OnlyConfirmedCommitted'
  BY CommittedKept DEF IInv
<1>2. CacheBackedByRows'
  BY CacheKept DEF IInv, LoseMemory
<1>3. HandsEmpty' /\ HandInOrder' /\ ResumeSettled'
  BY HandsForgotten DEF LeaveGroup
<1>4. RequestsSettled'
  BY RequestsDropped DEF IInv, LoseMemory, LeaveGroup
<1> QED
  BY <1>1, <1>2, <1>3, <1>4 DEF IInv

LEMMA PollInv ==
    ASSUME IInv, TypeOK', Settled \subseteq Settled', RowIds \subseteq RowIds',
           NEW c \in Consumers, Poll(c)
    PROVE  IInv'
<1>1. PICK m \in Messages : \/ PollReject(c, m) \/ PollOverflow(c, m) \/ PollRaises(c, m)
                            \/ PollDuplicate(c, m) \/ PollNew(c, m)
  BY DEF Poll
<1>2. ASSUME Polled(c, m), Advance(m), m \in Settled', MarkConfirmed(c, m),
             UNCHANGED <<committed, owner, pc, cur>>, CacheBackedByRows'
      PROVE  IInv'
  <2>1. OnlyConfirmedCommitted'
    BY <1>2, CommittedKept DEF IInv
  <2>2. HandsEmpty'
    BY <1>2 DEF IInv, HandsEmpty
  <2>3. HandInOrder' /\ ResumeSettled' /\ Before(m[1], m[2]) \subseteq Settled'
    BY <1>2, HandsAfterPoll
  <2>4. Before(m[1], m[2] + 1) \subseteq Settled'
    BY <1>2, <2>3, PrefixStep
  <2>5. RequestsSettled'
    BY <1>2, <2>4, RequestsAfterMark DEF IInv
  <2> QED
    BY <1>2, <2>1, <2>2, <2>3, <2>5 DEF IInv
<1>3. CASE PollReject(c, m)
  <2>1. m \in Settled'
    <3>1. m \in dlqBuf'[c]
      BY <1>3 DEF PollReject, IInv, TypeOK
    <3> QED
      BY <1>3, <3>1 DEF PollReject, Settled, Outcome, Routed, Buffered, Kind
  <2>2. CacheBackedByRows'
    BY <1>3 DEF PollReject, IInv, CacheBackedByRows
  <2> QED
    BY <1>2, <1>3, <2>1, <2>2 DEF PollReject
<1>4. CASE PollOverflow(c, m) \/ PollRaises(c, m)
  BY <1>4, DiesInv DEF PollOverflow, PollRaises
<1>5. ASSUME NEW kept \in SUBSET cache[c], cache' = [cache EXCEPT ![c] = kept]
      PROVE  CacheBackedByRows'
  BY <1>5, CacheKept DEF IInv, CacheBackedByRows
<1>6. CASE PollDuplicate(c, m)
  <2>1. m \in Settled'
    <3>1. Id(m) \in RowIds'
      BY <1>6 DEF PollDuplicate, IInv, CacheBackedByRows
    <3> QED
      BY <1>6, <3>1 DEF PollDuplicate, Settled, Outcome, Kind, Id
  <2>2. CacheBackedByRows'
    BY <1>5, <1>6 DEF PollDuplicate
  <2> QED
    BY <1>2, <1>6, <2>1, <2>2 DEF PollDuplicate
<1>7. CASE PollNew(c, m)
  <2>1. OnlyConfirmedCommitted'
    BY <1>7, CommittedKept DEF IInv, PollNew, groupVars
  <2>2. CacheBackedByRows'
    BY <1>5, <1>7 DEF PollNew
  <2>3. HandsEmpty'
    BY <1>7 DEF PollNew, IInv, HandsEmpty, TypeOK
  <2>4. HandInOrder' /\ ResumeSettled'
    BY <1>7, HandsAfterPoll DEF PollNew, groupVars
  <2>5. RequestsSettled'
    BY <1>7, RequestsKept DEF IInv, PollNew, groupVars
  <2> QED
    BY <2>1, <2>2, <2>3, <2>4, <2>5 DEF IInv
<1> QED
  BY <1>1, <1>3, <1>4, <1>6, <1>7

LEMMA InsertInv ==
    ASSUME IInv, TypeOK', Settled \subseteq Settled', RowIds \subseteq RowIds',
           NEW c \in Consumers, Insert(c)
    PROVE  IInv'
<1>1. PICK m \in Messages : InsertSucceeds(c, m) \/ InsertRetries(c, m) \/ InsertGivesUp(c, m)
  BY DEF Insert
<1>2. CASE InsertSucceeds(c, m)
  <2>1. Id(m) \in RowIds'
    BY <1>2, InsertRowGrows DEF InsertSucceeds, RowIds, Id
  <2>2. m \in Settled'
    BY <1>2, <2>1 DEF InsertSucceeds, Settled, Outcome, Storable, Kind, Id
  <2>3. OnlyConfirmedCommitted'
    BY <1>2, CommittedKept DEF InsertSucceeds, IInv
  <2>4. CacheBackedByRows'
    <3>1. PICK ids \in CacheAdd(cache[c], Id(m)) : cache' = [cache EXCEPT ![c] = ids]
      BY <1>2 DEF InsertSucceeds
    <3>2. ids \subseteq RowIds'
      BY <2>1, <3>1, CacheAddBound DEF IInv, CacheBackedByRows
    <3> QED
      BY <3>1, <3>2, CacheKept DEF IInv
  <2>5. HandsEmpty'
    BY <1>2 DEF InsertSucceeds, IInv, HandsEmpty, TypeOK
  <2>6. HandInOrder' /\ ResumeSettled' /\ Before(m[1], m[2] + 1) \subseteq Settled'
    BY <1>2, <2>2, HandsAfterInsert DEF InsertSucceeds
  <2>7. RequestsSettled'
    BY <1>2, <2>6, RequestsAfterMark DEF InsertSucceeds, IInv
  <2> QED
    BY <2>3, <2>4, <2>5, <2>6, <2>7 DEF IInv
<1>3. CASE InsertRetries(c, m)
  <2>1. HandsEmpty'
    BY <1>3 DEF InsertRetries, IInv, HandsEmpty
  <2> QED
    BY <1>3, <2>1, QuietStep DEF InsertRetries, groupVars
<1>4. CASE InsertGivesUp(c, m)
  <2>1. OnlyConfirmedCommitted'
    BY <1>4, CommittedKept DEF InsertGivesUp, IInv
  <2>2. CacheBackedByRows'
    BY <1>4, CacheKept DEF InsertGivesUp, IInv
  <2>3. HandsEmpty'
    BY <1>4 DEF InsertGivesUp, IInv, HandsEmpty, TypeOK
  <2>4. HandInOrder' /\ ResumeSettled'
    BY <1>4, HandsKept DEF InsertGivesUp, IInv
  <2>5. RequestsSettled'
    <3>1. pending[c] \in Offsets /\ \A p \in Partitions : Before(p, pending[c][p]) \subseteq Settled'
      BY DEF IInv, TypeOK, RequestsSettled
    <3> QED
      BY <1>4, <3>1, RequestsAfterFlush DEF InsertGivesUp, IInv
  <2> QED
    BY <2>1, <2>2, <2>3, <2>4, <2>5 DEF IInv
<1> QED
  BY <1>1, <1>2, <1>3, <1>4

LEMMA ProcessInv ==
    ASSUME IInv, TypeOK', Settled \subseteq Settled', RowIds \subseteq RowIds',
           NEW c \in Consumers,
           \/ Start(c) \/ ConnectSucceeds(c) \/ ConnectGivesUp(c)
           \/ IdleFlush(c) \/ IdlePoll(c) \/ Stop(c) \/ Exit(c) \/ Crash(c)
    PROVE  IInv'
<1>1. CASE Start(c) \/ ConnectSucceeds(c) \/ IdlePoll(c)
  <2>1. HandsEmpty'
    BY <1>1 DEF Start, ConnectSucceeds, IdlePoll, vars, memoryVars, IInv, HandsEmpty, TypeOK
  <2> QED
    BY <1>1, <2>1, QuietStep
       DEF Start, ConnectSucceeds, IdlePoll, vars, groupVars, memoryVars
<1>2. CASE IdleFlush(c) \/ Stop(c)
  <2>1. OnlyConfirmedCommitted'
    BY <1>2, CommittedKept DEF IdleFlush, Stop, IInv
  <2>2. CacheBackedByRows'
    BY <1>2, CacheKept DEF IdleFlush, Stop, IInv
  <2>3. HandsEmpty'
    BY <1>2 DEF IdleFlush, Stop, IInv, HandsEmpty, TypeOK
  <2>4. HandInOrder' /\ ResumeSettled'
    BY <1>2, HandsKept DEF IdleFlush, Stop, IInv
  <2>5. RequestsSettled'
    <3>1. pending[c] \in Offsets /\ \A p \in Partitions : Before(p, pending[c][p]) \subseteq Settled'
      BY DEF IInv, TypeOK, RequestsSettled
    <3> QED
      BY <1>2, <3>1, RequestsAfterFlush DEF IdleFlush, Stop, IInv
  <2> QED
    BY <2>1, <2>2, <2>3, <2>4, <2>5 DEF IInv
<1>3. CASE ConnectGivesUp(c) \/ Exit(c)
  BY <1>3, LeavesInv DEF ConnectGivesUp, Exit
<1>4. CASE Crash(c)
  BY <1>4, DiesInv DEF Crash
<1> QED
  BY <1>1, <1>2, <1>3, <1>4

LEMMA KafkaInv ==
    ASSUME IInv, TypeOK', Settled \subseteq Settled', RowIds \subseteq RowIds',
           NEW c \in Consumers,
           \/ SessionTimeout(c) \/ Evict(c) \/ Rejoin(c)
           \/ CommitLands(c) \/ CommitFails(c)
           \/ DlqDelivered(c) \/ DlqDeliveryFails(c)
    PROVE  IInv'
<1>1. CASE SessionTimeout(c) \/ Evict(c)
  <2>1. OnlyConfirmedCommitted'
    BY <1>1, CommittedKept DEF SessionTimeout, Evict, IInv
  <2>2. CacheBackedByRows'
    BY <1>1, CacheKept DEF SessionTimeout, Evict, memoryVars, IInv
  <2>3. HandsEmpty'
    BY <1>1 DEF SessionTimeout, Evict, memoryVars, IInv, HandsEmpty
  <2>4. HandInOrder' /\ ResumeSettled'
    BY <1>1, HandsWithdrawn DEF SessionTimeout, Evict, LeaveGroup, memoryVars
  <2>5. RequestsSettled'
    BY <1>1, RequestsDropped DEF SessionTimeout, Evict, LeaveGroup, memoryVars, IInv
  <2> QED
    BY <2>1, <2>2, <2>3, <2>4, <2>5 DEF IInv
<1>2. CASE Rejoin(c) \/ DlqDelivered(c) \/ DlqDeliveryFails(c)
  <2>1. HandsEmpty'
    BY <1>2 DEF Rejoin, DlqDelivered, DlqDeliveryFails, memoryVars, IInv, HandsEmpty
  <2> QED
    BY <1>2, <2>1, QuietStep DEF Rejoin, DlqDelivered, DlqDeliveryFails, groupVars, memoryVars
<1>3. CASE CommitLands(c) \/ CommitFails(c)
  <2>1. OnlyConfirmedCommitted'
    <3>1. CASE CommitLands(c)
      <4> SUFFICES ASSUME NEW p \in Partitions
                   PROVE  Before(p, committed'[p]) \subseteq Settled'
        BY DEF OnlyConfirmedCommitted
      <4>1. 1 \in 1 .. Len(inflight[c]) /\ Head(inflight[c]) = inflight[c][1]
        BY <3>1 DEF CommitLands, IInv, TypeOK
      <4>2. committed'[p] \in {committed[p], inflight[c][1][p]}
        BY <3>1, <4>1 DEF CommitLands
      <4> QED
        BY <4>1, <4>2 DEF IInv, OnlyConfirmedCommitted, RequestsSettled
    <3>2. CASE CommitFails(c)
      BY <3>2, CommittedKept DEF CommitFails, IInv
    <3> QED
      BY <1>3, <3>1, <3>2
  <2>2. CacheBackedByRows'
    BY <1>3, CacheKept DEF CommitLands, CommitFails, memoryVars, IInv
  <2>3. HandsEmpty'
    BY <1>3 DEF CommitLands, CommitFails, memoryVars, IInv, HandsEmpty
  <2>4. HandInOrder' /\ ResumeSettled'
    BY <1>3, HandsKept DEF CommitLands, CommitFails, memoryVars, IInv
  <2>5. RequestsSettled'
    BY <1>3, RequestsDropped DEF CommitLands, CommitFails, memoryVars, IInv
  <2> QED
    BY <2>1, <2>2, <2>3, <2>4, <2>5 DEF IInv
<1> QED
  BY <1>1, <1>2, <1>3

LEMMA RebalanceInv ==
    ASSUME IInv, TypeOK', Settled \subseteq Settled', RowIds \subseteq RowIds', Rebalance
    PROVE  IInv'
<1>1. OnlyConfirmedCommitted'
  BY CommittedKept DEF Rebalance, IInv
<1>2. CacheBackedByRows'
  BY DEF Rebalance, memoryVars, IInv, CacheBackedByRows
<1>3. HandsEmpty'
  BY DEF Rebalance, memoryVars, IInv, HandsEmpty
<1>4. \A p \in Partitions : owner'[p] \in Consumers /\ cur[owner'[p]] = NoMessage
  <2> SUFFICES ASSUME NEW p \in Partitions
               PROVE  owner'[p] \in Consumers /\ cur[owner'[p]] = NoMessage
    OBVIOUS
  <2>1. owner'[p] \in Members
    BY DEF Rebalance, Assignments
  <2>2. owner'[p] \in Consumers /\ pc[owner'[p]] \in {"connecting", "poll"}
    BY <2>1 DEF Rebalance, Members
  <2> QED
    BY <2>2 DEF IInv, HandsEmpty
<1>5. HandInOrder'
  <2> SUFFICES ASSUME NEW d \in Consumers, cur[d] # NoMessage
               PROVE  /\ Kind(cur[d]) \in Storable
                      /\ Before(cur[d][1], cur[d][2]) \subseteq Settled'
                      /\ owner'[cur[d][1]] # d
    BY DEF HandInOrder, Kind, Rebalance, memoryVars
  <2>1. cur[d][1] \in Partitions
    BY MessageParts DEF IInv, TypeOK
  <2> QED
    BY <1>4, <2>1 DEF IInv, HandInOrder
<1>6. ResumeSettled'
  <2> SUFFICES ASSUME NEW p \in Partitions
               PROVE  Before(p, Resume(owner[p], p)') \subseteq Settled'
    BY DEF ResumeSettled, Resume
  <2>1. Resume(owner[p], p)' = committed[p]
    BY <1>4 DEF Resume, Rebalance, memoryVars
  <2> QED
    BY <2>1 DEF IInv, OnlyConfirmedCommitted
<1>7. RequestsSettled'
  BY RequestsKept DEF Rebalance, memoryVars, IInv
<1> QED
  BY <1>1, <1>2, <1>3, <1>5, <1>6, <1>7 DEF IInv

LEMMA DatabaseInv ==
    ASSUME IInv, TypeOK', Settled \subseteq Settled', RowIds \subseteq RowIds',
           DbStops \/ DbStarts
    PROVE  IInv'
<1>1. HandsEmpty'
  BY DEF DbStops, DbStarts, memoryVars, IInv, HandsEmpty
<1> QED
  BY <1>1, QuietStep DEF DbStops, DbStarts, groupVars, memoryVars

LEMMA InvStep == IInv /\ [Next]_vars => IInv'
<1> SUFFICES ASSUME IInv, [Next]_vars PROVE IInv'
  OBVIOUS
<1>1. TypeOK' /\ Settled \subseteq Settled' /\ RowIds \subseteq RowIds'
  BY TypeStep, SettledStep DEF IInv
<1>2. CASE UNCHANGED vars
  <2>1. HandsEmpty'
    BY <1>2 DEF vars, memoryVars, IInv, HandsEmpty
  <2> QED
    BY <1>1, <1>2, <2>1, QuietStep DEF vars, groupVars, memoryVars
<1>3. CASE Next
  BY <1>1, <1>3, PollInv, InsertInv, ProcessInv, KafkaInv, RebalanceInv, DatabaseInv DEF Next
<1> QED
  BY <1>2, <1>3

LEMMA InvInit == Init => IInv
<1> SUFFICES ASSUME Init PROVE IInv
  OBVIOUS
<1>1. TypeOK
  BY NoOffsetsType, ConstantsAssumption DEF Init, TypeOK
<1>2. OnlyConfirmedCommitted
  BY EmptyPrefix DEF Init, NoOffsets, OnlyConfirmedCommitted
<1>3. CacheBackedByRows /\ HandsEmpty /\ HandInOrder
  BY DEF Init, CacheBackedByRows, HandsEmpty, HandInOrder
<1>4. ResumeSettled
  BY DEF Init, ResumeSettled
<1>5. RequestsSettled
  BY EmptyPrefix DEF Init, NoOffsets, RequestsSettled
<1> QED
  BY <1>1, <1>2, <1>3, <1>4, <1>5 DEF IInv

(* IInv is an invariant. *)
THEOREM Invariance == Spec => []IInv
  BY InvInit, InvStep, PTL DEF Spec

(* Nothing below a committed offset is without its outcome, for any number   *)
(* of consumers, any log and any faults.                                     *)
THEOREM NoLoss == Spec => []OnlyConfirmedCommitted
<1>1. IInv => OnlyConfirmedCommitted
  BY DEF IInv
<1> QED
  BY <1>1, Invariance, PTL

(* A cache hit never confirms an event that is not stored. *)
THEOREM CacheSound == Spec => []CacheBackedByRows
<1>1. IInv => CacheBackedByRows
  BY DEF IInv
<1> QED
  BY <1>1, Invariance, PTL

-----------------------------------------------------------------------------
(***************************************************************************)
(* The group implements AtLeastOnce.                                        *)
(***************************************************************************)

LEMMA PromiseBefore == ASSUME NEW p, NEW n \in Nat PROVE Promise!Before(p, n) = Before(p, n)
  BY DEF Before, Promise!Before

(* A record or a row settles its message and the message's duplicates. *)
LEMMA SettledBy ==
    ASSUME NEW m \in Messages,
           \/ Kind(m) \in Rejected /\ rows' = rows /\ Routed' = Routed \cup {m}
           \/ Kind(m) \in Storable /\ rows' = InsertRow(m) /\ Routed' = Routed
    PROVE  Settled' = Settled \cup SameEvent[m]
<1>1. CASE Kind(m) \in Rejected /\ rows' = rows /\ Routed' = Routed \cup {m}
  <2>1. SameEvent[m] = {m}
    BY <1>1 DEF SameEvent, Rejected, Storable
  <2>2. RowIds' = RowIds
    BY <1>1 DEF RowIds, Id
  <2> QED
    BY <1>1, <2>1, <2>2 DEF Settled, Outcome, Kind, Id
<1>2. CASE Kind(m) \in Storable /\ rows' = InsertRow(m) /\ Routed' = Routed
  <2>1. SameEvent[m] = { n \in Messages : Kind(n) \in Storable /\ Id(n) = Id(m) }
    BY <1>2 DEF SameEvent
  <2>2. RowIds' = RowIds \cup {Id(m)}
    BY <1>2 DEF InsertRow, RowIds, Id
  <2> QED
    BY <1>2, <2>1, <2>2 DEF Settled, Outcome, Kind, Id
<1> QED
  BY <1>1, <1>2

LEMMA PromiseStep ==
    IInv /\ [Next]_vars => [Promise!Next]_<<Settled, committed>>
<1> SUFFICES ASSUME IInv, [Next]_vars
             PROVE  Promise!Settle \/ Promise!Commit \/ UNCHANGED <<Settled, committed>>
  BY DEF Promise!Next
<1>1. IInv' /\ TypeOK /\ TypeOK'
  BY InvStep, TypeStep DEF IInv
<1>2. ASSUME NEW m \in Messages, Before(m[1], m[2]) \subseteq Settled, UNCHANGED committed,
             \/ Kind(m) \in Rejected /\ rows' = rows /\ Routed' = Routed \cup {m}
             \/ Kind(m) \in Storable /\ rows' = InsertRow(m) /\ Routed' = Routed
      PROVE  Promise!Settle
  <2>1. Promise!Before(m[1], m[2]) \subseteq Settled
    BY <1>2, PromiseBefore, MessageParts
  <2>2. Settled' = Settled \cup SameEvent[m]
    BY <1>2, SettledBy
  <2> QED
    BY <1>2, <2>1, <2>2 DEF Promise!Settle
<1>3. CASE \E c \in Consumers, m \in Messages :
             /\ Polled(c, m) /\ Kind(m) \in Rejected /\ UNCHANGED committed
             /\ rows' = rows /\ Routed' = Routed \cup {m}
  <2>1. PICK c \in Consumers, m \in Messages :
             /\ Polled(c, m) /\ Kind(m) \in Rejected /\ UNCHANGED committed
             /\ rows' = rows /\ Routed' = Routed \cup {m}
    BY <1>3
  <2>2. Resume(c, m[1]) = m[2] /\ owner[m[1]] = c /\ c # NoOne /\ m[1] \in Partitions
    BY <2>1, MessageParts, ConstantsAssumption DEF Polled, IInv, HandsEmpty, Resume
  <2>3. Before(m[1], m[2]) \subseteq Settled
    BY <2>2 DEF IInv, ResumeSettled
  <2> QED
    BY <1>2, <2>1, <2>3
<1>4. CASE \E c \in Consumers, m \in Messages :
             /\ cur[c] = m /\ Kind(m) \in Storable /\ UNCHANGED committed
             /\ rows' = InsertRow(m) /\ Routed' = Routed
  <2>1. PICK c \in Consumers, m \in Messages :
             /\ cur[c] = m /\ Kind(m) \in Storable /\ UNCHANGED committed
             /\ rows' = InsertRow(m) /\ Routed' = Routed
    BY <1>4
  <2>2. Before(m[1], m[2]) \subseteq Settled
    BY <2>1, MessageParts DEF IInv, HandInOrder
  <2> QED
    BY <1>2, <2>1, <2>2
<1>5. CASE rows' = rows /\ Routed' = Routed
  <2>1. Settled' = Settled
    BY <1>5 DEF Settled, Outcome, RowIds, Kind, Id
  <2>2. committed' \in [Partitions -> Nat]
    BY <1>1 DEF TypeOK, Offsets
  <2>3. \A p \in Partitions : Promise!Before(p, committed'[p]) \subseteq Settled
    BY <1>1, <2>1, <2>2, PromiseBefore DEF IInv, OnlyConfirmedCommitted
  <2> QED
    BY <2>1, <2>2, <2>3 DEF Promise!Commit
<1> QED
  BY <1>1, <1>3, <1>4, <1>5, EvidenceStep

(* Every behaviour of the group is one the promise allows: in order, one     *)
(* event at a time, committed only below what is settled.                    *)
THEOREM Refinement == Spec => KeepsPromise
<1>1. Init => Promise!Init
  <2> SUFFICES ASSUME Init PROVE Promise!Init
    OBVIOUS
  <2>1. Settled = {}
    BY DEF Init, Settled, Outcome, RowIds, Routed, Buffered
  <2> QED
    BY <2>1 DEF Init, NoOffsets, Promise!Init
<1> QED
  BY <1>1, Invariance, PromiseStep, PTL DEF Spec, KeepsPromise, Promise!Spec

-----------------------------------------------------------------------------
(***************************************************************************)
(* Records of the dead-letter queue.                                        *)
(***************************************************************************)

(* How a step treats the record queues: none loses a record ...              *)
AllSurvive == dlqTopic \subseteq dlqTopic' /\ \A c \in Consumers : QueueSurvives(c)

LEMMA QueuesUntouched ==
    ASSUME UNCHANGED <<dlqTopic, dlqBuf>>
    PROVE  AllSurvive
  BY DEF AllSurvive, QueueSurvives

(* ... and what one producer does concerns its own queue only.               *)
LEMMA OneQueueTouched ==
    ASSUME TypeOK, NEW c \in Consumers, NEW B, dlqBuf' = [dlqBuf EXCEPT ![c] = B],
           dlqTopic \subseteq dlqTopic'
    PROVE  /\ \A d \in Consumers : d # c => QueueSurvives(d)
           /\ dlqBuf[c] \subseteq B \cup dlqTopic' => AllSurvive
<1>1. dlqBuf'[c] = B /\ \A d \in Consumers : d # c => dlqBuf'[d] = dlqBuf[d]
  BY DEF TypeOK
<1> QED
  BY <1>1 DEF AllSurvive, QueueSurvives

(* A step without a death or a failed delivery keeps every record; those     *)
(* concern the queue of one process.                                         *)
LEMMA RejectsStep ==
    ASSUME TypeOK, [Next]_vars
    PROVE  /\ dlqTopic \subseteq dlqTopic'
           /\ \A c \in Consumers : QueueSurvives(c) \/ Killed(c) \/ NotTaken(c)
<1> DEFINE Goal == /\ dlqTopic \subseteq dlqTopic'
                   /\ \A c \in Consumers : QueueSurvives(c) \/ Killed(c) \/ NotTaken(c)
<1>1. ASSUME AllSurvive PROVE Goal
  BY <1>1 DEF AllSurvive
<1>2. ASSUME NEW c \in Consumers, LoseDlqBuffer(c), Killed(c) \/ NotTaken(c) PROVE Goal
  <2>1. dlqTopic' = dlqTopic /\ dlqBuf' = [dlqBuf EXCEPT ![c] = {}]
    BY <1>2 DEF LoseDlqBuffer
  <2> QED
    BY <1>2, <2>1, OneQueueTouched
<1>3. ASSUME NEW c \in Consumers, Poll(c) PROVE Goal
  <2>1. PICK m \in Messages :
            \/ PollReject(c, m) \/ PollOverflow(c, m) \/ PollRaises(c, m)
            \/ PollDuplicate(c, m) \/ PollNew(c, m)
    BY <1>3 DEF Poll
  <2>2. CASE PollReject(c, m)
    <3>1. dlqBuf' = [dlqBuf EXCEPT ![c] = @ \cup {m}] /\ dlqTopic' = dlqTopic
      BY <2>2 DEF PollReject
    <3>2. \A B : dlqBuf' = [dlqBuf EXCEPT ![c] = B] /\ dlqBuf[c] \subseteq B => AllSurvive
      BY <3>1, OneQueueTouched
    <3> QED
      BY <1>1, <3>1, <3>2
  <2>3. CASE PollOverflow(c, m) \/ PollRaises(c, m)
    <3>1. LoseDlqBuffer(c)
      BY <2>3 DEF PollOverflow, PollRaises, Dies
    <3> QED
      BY <1>2, <2>3, <3>1 DEF Killed
  <2>4. CASE PollDuplicate(c, m) \/ PollNew(c, m)
    BY <1>1, <2>4, QueuesUntouched DEF PollDuplicate, PollNew, dlqVars
  <2> QED
    BY <2>1, <2>2, <2>3, <2>4
<1>4. ASSUME NEW c \in Consumers, Insert(c) PROVE Goal
  BY <1>1, <1>4, QueuesUntouched DEF Insert, InsertSucceeds, InsertRetries, InsertGivesUp, dlqVars
<1>5. ASSUME NEW c \in Consumers, Crash(c) PROVE Goal
  <2>1. LoseDlqBuffer(c)
    BY <1>5 DEF Crash, Dies
  <2> QED
    BY <1>2, <1>5, <2>1 DEF Killed
<1>6. ASSUME NEW c \in Consumers, Exit(c) PROVE Goal
  <2>1. CASE dlqTopic' = dlqTopic \cup dlqBuf[c] /\ dlqBuf' = [dlqBuf EXCEPT ![c] = {}]
    BY <1>1, <2>1, OneQueueTouched
  <2>2. CASE FlushTimesOut(c)
    <3>1. LoseDlqBuffer(c)
      BY <2>2 DEF FlushTimesOut
    <3> QED
      BY <1>2, <1>6, <2>2, <3>1 DEF NotTaken
  <2> QED
    BY <1>6, <2>1, <2>2 DEF Exit, DlqClose
<1>7. ASSUME NEW c \in Consumers, DlqDelivered(c) PROVE Goal
  <2>1. PICK m \in dlqBuf[c] :
            dlqBuf' = [dlqBuf EXCEPT ![c] = @ \ {m}] /\ dlqTopic' = dlqTopic \cup {m}
    BY <1>7 DEF DlqDelivered
  <2> QED
    BY <1>1, <2>1, OneQueueTouched
<1>8. ASSUME NEW c \in Consumers, DlqDeliveryFails(c) PROVE Goal
  <2>1. PICK m \in dlqBuf[c] : dlqBuf' = [dlqBuf EXCEPT ![c] = @ \ {m}] /\ dlqTopic' = dlqTopic
    BY <1>8 DEF DlqDeliveryFails
  <2>2. \A d \in Consumers : d # c => QueueSurvives(d)
    BY <2>1, OneQueueTouched
  <2>3. NotTaken(c)
    BY <1>8 DEF NotTaken
  <2> QED
    BY <2>1, <2>2, <2>3
<1>9. ASSUME NEW c \in Consumers,
             \/ Start(c) \/ ConnectSucceeds(c) \/ ConnectGivesUp(c) \/ IdleFlush(c)
             \/ IdlePoll(c) \/ SessionTimeout(c) \/ Rejoin(c) \/ CommitLands(c)
             \/ Stop(c) \/ Evict(c) \/ CommitFails(c)
      PROVE  Goal
  BY <1>1, <1>9, QueuesUntouched DEF Start, ConnectSucceeds, ConnectGivesUp, IdleFlush, IdlePoll,
     SessionTimeout, Rejoin, CommitLands, Stop, Evict, CommitFails, vars, dlqVars
<1>10. CASE Rebalance \/ DbStops \/ DbStarts \/ UNCHANGED vars
  BY <1>1, <1>10, QueuesUntouched DEF Rebalance, DbStops, DbStarts, vars, dlqVars
<1> QED
  BY <1>3, <1>4, <1>5, <1>6, <1>7, <1>8, <1>9, <1>10 DEF Next

(* A record leaves a producer's queue for the topic, unless that process     *)
(* dies or the cluster fails to take it: no stop, give-up, eviction,         *)
(* rebalance, outage or failed commit loses one (main.py 418).               *)
THEOREM RecordsSurvive == Spec => RejectsSurvive
<1>1. IInv /\ [Next]_vars
        => [/\ dlqTopic \subseteq dlqTopic'
            /\ \A c \in Consumers : QueueSurvives(c) \/ Killed(c) \/ NotTaken(c)]_vars
  BY RejectsStep DEF IInv
<1> QED
  BY <1>1, Invariance, PTL DEF RejectsSurvive, Spec
=============================================================================
