------------------------------ MODULE Ingestion ------------------------------
(***************************************************************************)
(* The ingestion service: a Kafka consumer group whose members              *)
(* (ingestion/app/main.py) read ecommerce-events, reject what does not      *)
(* validate to the dead-letter queue, write the rest to PostgreSQL and      *)
(* commit the offsets of what they have finished, in batches and            *)
(* asynchronously.                                                          *)
(*                                                                          *)
(* Kafka, PostgreSQL and librdkafka are external: they are modelled as far  *)
(* as the code under ingestion/app relies on them.                          *)
(***************************************************************************)
EXTENDS Integers, Sequences, FiniteSets

CONSTANTS
    Consumers,        \* instances of the ingestion service, one group
    Partitions,       \* partitions of ecommerce-events
    NoOne,            \* owner of a partition that is assigned to nobody
    Ids,              \* event_ids
    Log,              \* the topic's contents: a sequence of messages per partition
    CommitBatchSize,  \* COMMIT_BATCH_SIZE
    DbRetryAttempts,  \* DB_RETRY_ATTEMPTS
    DedupCacheSize,   \* DEDUP_CACHE_SIZE
    DlqBufferSize,    \* local queue limit of the DLQ producer
    MaxInflight,      \* bound: commits a consumer may have on the wire
    MaxFaults,        \* bound: faults of a behaviour
    FaultKinds        \* the faults that may happen at all

(* What a message does to the consumer that reads it. *)
Rejected == {"unparseable", "invalid"}      \* sent to the DLQ
Storable == {"valid", "poison"}             \* handed to PostgreSQL, which always refuses poison
Kinds    == Rejected \cup Storable \cup {"crashing"}   \* crashing: main() raises

AllFaults == {"crash", "stop", "evict", "db", "dlq", "commit", "commit_call"}

ASSUME ConstantsAssumption ==
    /\ NoOne \notin Consumers
    /\ Log \in [Partitions -> Seq([kind : Kinds, id : Ids])]
    /\ CommitBatchSize \in Nat \ {0}
    /\ DbRetryAttempts \in Nat \ {0}
    /\ DedupCacheSize \in Nat \ {0}
    /\ DlqBufferSize \in Nat
    /\ MaxInflight \in Nat \ {0}
    /\ MaxFaults \in Nat
    /\ FaultKinds \subseteq AllFaults

(* A message is named by where it is: <<partition, offset>>. *)
Messages == UNION { {p} \X (0 .. Len(Log[p]) - 1) : p \in Partitions }
NoMessage == <<>>
Kind(m) == Log[m[1]][m[2] + 1].kind
Id(m)   == Log[m[1]][m[2] + 1].id

(* A commit request: the next offset to resume at, 0 for "not mentioned". *)
Offsets == [Partitions -> Nat]
NoOffsets == [p \in Partitions |-> 0]

VARIABLES
    \* Kafka
    committed,  \* the group's committed offset of each partition
    owner,      \* the member each partition is assigned to
    session,    \* each instance's standing with the group coordinator
    inflight,   \* commit requests issued by each instance and not yet answered
    \* an instance of the service
    pc,         \* where main() is
    position,   \* next offset the owner of a partition will be handed
    cur,        \* the message inside insert_with_retry
    attempt,    \* its attempt number
    pending,    \* pending_offsets
    since,      \* messages_since_commit
    cache,      \* ids the dedup cache holds
    conn,       \* its database connection
    \* the dead-letter queue
    dlqBuf,     \* records in the local queue of each instance's DLQ producer
    dlqTopic,   \* records on ecommerce-events-dlq
    dlqLost,    \* records that were sent and never arrived (no code reads it)
    \* PostgreSQL
    rows,       \* raw.events, each row named by its (kafka_partition, kafka_offset)
    dbUp,       \* the server accepts connections
    \* the environment
    faults      \* faults so far

groupVars  == <<committed, owner, session, inflight>>
memoryVars == <<cur, attempt, pending, since, cache, conn>>
dlqVars    == <<dlqBuf, dlqTopic, dlqLost>>
dbVars     == <<rows, dbUp>>
vars == <<groupVars, pc, position, memoryVars, dlqVars, dbVars, faults>>

TypeOK ==
    /\ committed \in Offsets
    /\ owner \in [Partitions -> Consumers \cup {NoOne}]
    /\ session \in [Consumers -> {"none", "joining", "stable"}]
    /\ inflight \in [Consumers -> Seq(Offsets)]
    /\ pc \in [Consumers -> {"down", "connecting", "poll", "inserting", "closing"}]
    /\ position \in Offsets
    /\ cur \in [Consumers -> Messages \cup {NoMessage}]
    /\ attempt \in [Consumers -> 0 .. DbRetryAttempts]
    /\ pending \in [Consumers -> Offsets]
    /\ since \in [Consumers -> 0 .. CommitBatchSize - 1]
    /\ cache \in [Consumers -> SUBSET Ids]
    /\ conn \in [Consumers -> {"open", "broken"}]
    /\ dlqBuf \in [Consumers -> SUBSET Messages]
    /\ dlqTopic \subseteq Messages
    /\ dlqLost \subseteq Messages
    /\ rows \subseteq Messages
    /\ dbUp \in BOOLEAN
    /\ faults \in 0 .. MaxFaults

Init ==
    /\ committed = NoOffsets
    /\ owner = [p \in Partitions |-> NoOne]
    /\ session = [c \in Consumers |-> "none"]
    /\ inflight = [c \in Consumers |-> <<>>]
    /\ pc = [c \in Consumers |-> "down"]
    /\ position = NoOffsets
    /\ cur = [c \in Consumers |-> NoMessage]
    /\ attempt = [c \in Consumers |-> 0]
    /\ pending = [c \in Consumers |-> NoOffsets]
    /\ since = [c \in Consumers |-> 0]
    /\ cache = [c \in Consumers |-> {}]
    /\ conn = [c \in Consumers |-> "broken"]
    /\ dlqBuf = [c \in Consumers |-> {}]
    /\ dlqTopic = {}
    /\ dlqLost = {}
    /\ rows = {}
    /\ dbUp = TRUE
    /\ faults = 0

(***************************************************************************)
(* What has become of a message.                                            *)
(***************************************************************************)
RowIds == { Id(m) : m \in rows }
Buffered == UNION { dlqBuf[c] : c \in Consumers }
Routed == dlqTopic \cup dlqLost \cup Buffered      \* dlq.send() was called for it

(* The outcome the code calls "confirmed": sent to the DLQ, or a row with its id. *)
Outcome(m) ==
    \/ m \in Routed
    \/ Kind(m) \in Storable /\ Id(m) \in RowIds

Settled == { m \in Messages : Outcome(m) }

Before(p, n) == {p} \X (0 .. n - 1)

(* Where c would have to resume p: the message it still holds, or the next one. *)
Resume(c, p) == IF cur[c] # NoMessage /\ cur[c][1] = p THEN cur[c][2] ELSE position[p]

Owned(c) == { p \in Partitions : owner[p] = c }

-----------------------------------------------------------------------------
(***************************************************************************)
(* Faults: each kind must be switched on, and a behaviour has MaxFaults.    *)
(***************************************************************************)
Fault(kind) ==
    /\ kind \in FaultKinds
    /\ faults < MaxFaults
    /\ faults' = faults + 1

(* The member leaves the group: its partitions go back, its commits are fenced. *)
LeaveGroup(c) ==
    /\ session' = [session EXCEPT ![c] = "none"]
    /\ owner' = [p \in Partitions |-> IF owner[p] = c THEN NoOne ELSE owner[p]]
    /\ inflight' = [inflight EXCEPT ![c] = <<>>]

DropPositions(c) == position' = [p \in Partitions |-> IF owner[p] = c THEN 0 ELSE position[p]]

(* Everything main() kept in local variables and in the dedup cache is gone. *)
LoseMemory(c) ==
    /\ pc' = [pc EXCEPT ![c] = "down"]
    /\ cur' = [cur EXCEPT ![c] = NoMessage]
    /\ attempt' = [attempt EXCEPT ![c] = 0]
    /\ pending' = [pending EXCEPT ![c] = NoOffsets]
    /\ since' = [since EXCEPT ![c] = 0]
    /\ cache' = [cache EXCEPT ![c] = {}]
    /\ conn' = [conn EXCEPT ![c] = "broken"]
    /\ DropPositions(c)

LoseDlqBuffer(c) ==
    /\ dlqBuf' = [dlqBuf EXCEPT ![c] = {}]
    /\ dlqLost' = dlqLost \cup dlqBuf[c]
    /\ UNCHANGED dlqTopic

(* Without close(): the coordinator still counts the member in, and a commit *)
(* request that is on the wire may still land.                               *)
Dies(c) ==
    /\ LoseMemory(c)
    /\ LoseDlqBuffer(c)
    /\ UNCHANGED <<groupVars, dbVars>>

-----------------------------------------------------------------------------
(***************************************************************************)
(* Offset commits: _flush_pending and _mark_confirmed.                      *)
(***************************************************************************)

StillPending(pend) == pend                    \* mutant: never cleared
OnceIssued(pend) == NoOffsets

(* commit_offsets() only issues the request; pending is cleared at once. A   *)
(* member the coordinator does not know gets an error back later, which      *)
(* on_commit logs. If the call itself raises KafkaException, pending is kept.*)
Flush(c, pend) ==
    /\ since' = [since EXCEPT ![c] = 0]
    /\ \/ /\ pend = NoOffsets
          /\ pending' = [pending EXCEPT ![c] = NoOffsets]
          /\ UNCHANGED inflight
       \/ /\ pend # NoOffsets
          /\ session[c] = "stable"
          /\ Len(inflight[c]) < MaxInflight
          /\ inflight' = [inflight EXCEPT ![c] = Append(@, pend)]
          /\ pending' = [pending EXCEPT ![c] = OnceIssued(pend)]
       \/ /\ pend # NoOffsets
          /\ session[c] # "stable"
          /\ pending' = [pending EXCEPT ![c] = OnceIssued(pend)]
          /\ UNCHANGED inflight
       \/ /\ pend # NoOffsets
          /\ "commit_call" \in FaultKinds
          /\ pending' = [pending EXCEPT ![c] = pend]
          /\ UNCHANGED inflight

(* The offset to resume at after m. *)
OffsetOfMessage(m) == m[2]                    \* mutant: commits the message, not its successor
OffsetAfterNext(m) == m[2] + 2                \* mutant: skips a message
NextOffset(m) == m[2] + 1

(* messages_since_commit reaches the batch size with the message in hand. *)
PartitionsPending(c) == Cardinality({ p \in Partitions : pending[c][p] # 0 }) >= CommitBatchSize
                                              \* mutant: counts pending_offsets instead
BatchFull(c) == since[c] + 1 >= CommitBatchSize

(* The commit interval may have elapsed at any message, so below the batch   *)
(* size both outcomes are possible; it has elapsed when the message took so  *)
(* long that c was evicted (max.poll.interval.ms is minutes).                *)
MarkConfirmed(c, m) ==
    LET pend == [pending[c] EXCEPT ![m[1]] = NextOffset(m)] IN
    \/ /\ ~BatchFull(c)
       /\ session[c] = "stable"
       /\ pending' = [pending EXCEPT ![c] = pend]
       /\ since' = [since EXCEPT ![c] = @ + 1]
       /\ UNCHANGED inflight
    \/ Flush(c, pend)

-----------------------------------------------------------------------------
(***************************************************************************)
(* The message loop of main().                                              *)
(***************************************************************************)

(* Start: subscribe, then connect to PostgreSQL. A restarted process waits   *)
(* for its predecessor's session to end before it is given partitions.       *)
Start(c) ==
    /\ pc[c] = "down"
    /\ session[c] = "none"
    /\ pc' = [pc EXCEPT ![c] = "connecting"]
    /\ session' = [session EXCEPT ![c] = "joining"]
    /\ UNCHANGED <<committed, owner, inflight, position, memoryVars, dlqVars, dbVars, faults>>

ConnectSucceeds(c) ==
    /\ pc[c] = "connecting"
    /\ dbUp
    /\ pc' = [pc EXCEPT ![c] = "poll"]
    /\ conn' = [conn EXCEPT ![c] = "open"]
    /\ UNCHANGED <<groupVars, position, cur, attempt, pending, since, cache,
                   dlqVars, dbVars, faults>>

(* _connect_with_retry returned None: close the consumer, exit(1). *)
ConnectGivesUp(c) ==
    /\ pc[c] = "connecting"
    /\ ~dbUp
    /\ LoseMemory(c)
    /\ LeaveGroup(c)
    /\ UNCHANGED <<committed, dlqVars, dbVars, faults>>

(* poll() hands c the message m. *)
Polled(c, m) ==
    /\ pc[c] = "poll"
    /\ owner[m[1]] = c
    /\ position[m[1]] = m[2]

Advance(m) == position' = [position EXCEPT ![m[1]] = m[2] + 1]

(* UNPARSEABLE and VALIDATION_FAILED: send to the DLQ, confirm. *)
PollReject(c, m) ==
    /\ Polled(c, m)
    /\ Kind(m) \in Rejected
    /\ Cardinality(dlqBuf[c]) < DlqBufferSize
    /\ Advance(m)
    /\ dlqBuf' = [dlqBuf EXCEPT ![c] = @ \cup {m}]
    /\ MarkConfirmed(c, m)
    /\ UNCHANGED <<committed, owner, session, pc, cur, attempt, cache, conn,
                   dlqTopic, dlqLost, dbVars, faults>>

(* produce() raises BufferError when the local queue is full; nothing catches it. *)
PollOverflow(c, m) ==
    /\ Polled(c, m)
    /\ Kind(m) \in Rejected
    /\ Cardinality(dlqBuf[c]) >= DlqBufferSize
    /\ Dies(c)
    /\ UNCHANGED faults

(* normalize_event or validate_event raises: only ValueError of the parser is caught. *)
PollRaises(c, m) ==
    /\ Polled(c, m)
    /\ Kind(m) = "crashing"
    /\ Dies(c)
    /\ UNCHANGED faults

(* contains() first drops what has outlived the TTL. *)
PollDuplicate(c, m) ==
    /\ Polled(c, m)
    /\ Kind(m) \in Storable
    /\ \E kept \in SUBSET cache[c] :
          /\ Id(m) \in kept
          /\ cache' = [cache EXCEPT ![c] = kept]
    /\ Advance(m)
    /\ MarkConfirmed(c, m)
    /\ UNCHANGED <<committed, owner, session, pc, cur, attempt, conn,
                   dlqVars, dbVars, faults>>

PollNew(c, m) ==
    /\ Polled(c, m)
    /\ Kind(m) \in Storable
    /\ \E kept \in SUBSET cache[c] :
          /\ Id(m) \notin kept
          /\ cache' = [cache EXCEPT ![c] = kept]
    /\ Advance(m)
    /\ pc' = [pc EXCEPT ![c] = "inserting"]
    /\ cur' = [cur EXCEPT ![c] = m]
    /\ attempt' = [attempt EXCEPT ![c] = 1]
    /\ UNCHANGED <<groupVars, pending, since, conn, dlqVars, dbVars, faults>>

(* INSERT ... ON CONFLICT (event_id) DO NOTHING, committed *)
InsertUncommitted(m) == rows                  \* mutant: no conn.commit()
InsertRow(m) == IF Id(m) \in RowIds THEN rows ELSE rows \cup {m}

(* add() keeps the id and, past max_size, drops others. *)
CacheAdd(ids, id) ==
    { kept \cup {id} : kept \in
        { k \in SUBSET (ids \ {id}) :
            \/ k = ids \ {id} /\ Cardinality(k) < DedupCacheSize
            \/ Cardinality(ids \ {id}) >= DedupCacheSize /\ Cardinality(k) = DedupCacheSize - 1 } }

(* The row is committed, or was there already: cache the id, confirm. *)
InsertSucceeds(c, m) ==
    /\ pc[c] = "inserting"
    /\ cur[c] = m
    /\ conn[c] = "open"
    /\ Kind(m) = "valid"
    /\ rows' = InsertRow(m)
    /\ \E ids \in CacheAdd(cache[c], Id(m)) : cache' = [cache EXCEPT ![c] = ids]
    /\ pc' = [pc EXCEPT ![c] = "poll"]
    /\ cur' = [cur EXCEPT ![c] = NoMessage]
    /\ attempt' = [attempt EXCEPT ![c] = 0]
    /\ MarkConfirmed(c, m)
    /\ UNCHANGED <<committed, owner, session, position, conn, dlqVars, dbUp, faults>>

(* insert_event raised: broken connection, refused row, or a transient error *)
(* after which the row may or may not be there.                              *)
AttemptFails(c, m) ==
    /\ pc[c] = "inserting"
    /\ cur[c] = m
    /\ \/ /\ conn[c] = "broken" \/ Kind(m) = "poison"
          /\ UNCHANGED <<rows, faults>>
       \/ /\ conn[c] = "open" /\ Kind(m) = "valid"
          /\ Fault("db")
          /\ rows' \in {rows, InsertRow(m)}

OneAttemptMore(c) == attempt[c] > DbRetryAttempts     \* mutant: off by one
LastAttempt(c) == attempt[c] = DbRetryAttempts

InsertRetries(c, m) ==
    /\ AttemptFails(c, m)
    /\ ~LastAttempt(c)
    /\ attempt' = [attempt EXCEPT ![c] = @ + 1]
    /\ conn' = [conn EXCEPT ![c] = IF dbUp THEN "open" ELSE "broken"]
    /\ UNCHANGED <<groupVars, pc, position, cur, pending, since, cache, dlqVars, dbUp>>

(* Flush what was confirmed before m and leave the loop without polling past it. *)
InsertGivesUp(c, m) ==
    /\ AttemptFails(c, m)
    /\ LastAttempt(c)
    /\ Flush(c, pending[c])
    /\ pc' = [pc EXCEPT ![c] = "closing"]
    /\ UNCHANGED <<committed, owner, session, position, cur, attempt, cache, conn,
                   dlqVars, dbUp>>

(* poll() timed out and the interval has elapsed. *)
NeverWhenIdle(c) == FALSE                     \* mutant: commits only on messages
IdleFlush(c) ==
    /\ pc[c] = "poll"
    /\ pending[c] # NoOffsets
    /\ Flush(c, pending[c])
    /\ UNCHANGED <<committed, owner, session, pc, position, cur, attempt, cache, conn,
                   dlqVars, dbVars, faults>>

(* poll() returned nothing, or an error that is only logged. *)
IdlePoll(c) ==
    /\ pc[c] = "poll"
    /\ UNCHANGED vars

(* SIGTERM or SIGINT, seen at the top of the loop: final flush, then close. *)
StopUnflushed(c) ==                           \* mutant: no flush on shutdown
    /\ pc[c] = "poll"
    /\ Fault("stop")
    /\ pc' = [pc EXCEPT ![c] = "closing"]
    /\ UNCHANGED <<groupVars, position, memoryVars, dlqVars, dbVars>>
Stop(c) ==
    /\ pc[c] = "poll"
    /\ Fault("stop")
    /\ Flush(c, pending[c])
    /\ pc' = [pc EXCEPT ![c] = "closing"]
    /\ UNCHANGED <<committed, owner, session, position, cur, attempt, cache, conn,
                   dlqVars, dbVars>>

(* dlq.close() flushes for at most 10 s and warns of what is left. *)
DlqNotFlushed(c) == LoseDlqBuffer(c) /\ UNCHANGED faults    \* mutant: no dlq.close()
FlushTimesOut(c) ==
    /\ dlqBuf[c] # {}
    /\ Fault("dlq")
    /\ LoseDlqBuffer(c)
DlqClose(c) ==
    \/ /\ dlqTopic' = dlqTopic \cup dlqBuf[c]
       /\ dlqBuf' = [dlqBuf EXCEPT ![c] = {}]
       /\ UNCHANGED <<dlqLost, faults>>
    \/ FlushTimesOut(c)

(* After the final flush: close the DLQ producer, the database and the       *)
(* consumer, which waits for the commits on the wire and leaves the group.   *)
Exit(c) ==
    /\ pc[c] = "closing"
    /\ inflight[c] = <<>>
    /\ DlqClose(c)
    /\ LoseMemory(c)
    /\ LeaveGroup(c)
    /\ UNCHANGED <<committed, dbVars>>

Crash(c) ==
    /\ pc[c] # "down"
    /\ Fault("crash")
    /\ Dies(c)

-----------------------------------------------------------------------------
(***************************************************************************)
(* Kafka: the group coordinator and the producer's deliveries.              *)
(***************************************************************************)

(* The broker forgets a member that died without leaving. *)
SessionTimeout(c) ==
    /\ pc[c] = "down"
    /\ session[c] # "none"
    /\ LeaveGroup(c)
    /\ UNCHANGED <<committed, pc, position, memoryVars, dlqVars, dbVars, faults>>

(* max.poll.interval.ms passes while c is inside insert_with_retry. *)
Evict(c) ==
    /\ pc[c] = "inserting"
    /\ session[c] = "stable"
    /\ Fault("evict")
    /\ LeaveGroup(c)
    /\ DropPositions(c)
    /\ UNCHANGED <<committed, pc, memoryVars, dlqVars, dbVars>>

(* The next poll() of an evicted member reports it (an error that is logged) and joins again. *)
Rejoin(c) ==
    /\ pc[c] = "poll"
    /\ session[c] = "none"
    /\ session' = [session EXCEPT ![c] = "joining"]
    /\ UNCHANGED <<committed, owner, inflight, pc, position, memoryVars, dlqVars, dbVars, faults>>

Members == { c \in Consumers : session[c] # "none" }
Share(a, c) == Cardinality({ p \in Partitions : a[p] = c })
Assignments == { a \in [Partitions -> Members] :
                   \A c, d \in Members : Share(a, c) <= Share(a, d) + 1 }

(* Eager rebalance, between polls: every member gives up all it has and      *)
(* fetches from the committed offsets. _on_revoke and _on_assign only log:   *)
(* pending is neither flushed nor cleared.                                   *)
Rebalance ==
    /\ Members # {}
    /\ \/ \E c \in Members : session[c] = "joining"
       \/ \E p \in Partitions : owner[p] = NoOne
    /\ \A c \in Members : pc[c] \in {"connecting", "poll"} /\ inflight[c] = <<>>
    /\ owner' \in Assignments
    /\ session' = [c \in Consumers |-> IF c \in Members THEN "stable" ELSE "none"]
    /\ position' = committed
    /\ UNCHANGED <<committed, inflight, pc, memoryVars, dlqVars, dbVars, faults>>

(* The broker stores whatever a member of the current generation asks for. *)
CommitLands(c) ==
    /\ inflight[c] # <<>>
    /\ LET request == Head(inflight[c]) IN
       committed' = [p \in Partitions |-> IF request[p] = 0 THEN committed[p] ELSE request[p]]
    /\ inflight' = [inflight EXCEPT ![c] = Tail(@)]
    /\ UNCHANGED <<owner, session, pc, position, memoryVars, dlqVars, dbVars, faults>>

CommitFails(c) ==
    /\ inflight[c] # <<>>
    /\ Fault("commit")
    /\ inflight' = [inflight EXCEPT ![c] = Tail(@)]
    /\ UNCHANGED <<committed, owner, session, pc, position, memoryVars, dlqVars, dbVars>>

DlqDelivered(c) ==
    /\ \E m \in dlqBuf[c] :
          /\ dlqBuf' = [dlqBuf EXCEPT ![c] = @ \ {m}]
          /\ dlqTopic' = dlqTopic \cup {m}
    /\ UNCHANGED <<groupVars, pc, position, memoryVars, dlqLost, dbVars, faults>>

(* _delivery_callback is given an error and logs it. *)
DlqDeliveryFails(c) ==
    /\ Fault("dlq")
    /\ \E m \in dlqBuf[c] :
          /\ dlqBuf' = [dlqBuf EXCEPT ![c] = @ \ {m}]
          /\ dlqLost' = dlqLost \cup {m}
    /\ UNCHANGED <<groupVars, pc, position, memoryVars, dlqTopic, dbVars>>

(***************************************************************************)
(* PostgreSQL. A connection outlives no outage.                             *)
(***************************************************************************)
DbStops ==
    /\ dbUp
    /\ Fault("db")
    /\ dbUp' = FALSE
    /\ conn' = [c \in Consumers |-> "broken"]
    /\ UNCHANGED <<groupVars, pc, position, cur, attempt, pending, since, cache, dlqVars, rows>>

DbStarts ==
    /\ ~dbUp
    /\ dbUp' = TRUE
    /\ UNCHANGED <<groupVars, pc, position, memoryVars, dlqVars, rows, faults>>

-----------------------------------------------------------------------------
Poll(c) == \E m \in Messages :
    \/ PollReject(c, m)
    \/ PollOverflow(c, m)
    \/ PollRaises(c, m)
    \/ PollDuplicate(c, m)
    \/ PollNew(c, m)

Insert(c) == \E m \in Messages :
    \/ InsertSucceeds(c, m)
    \/ InsertRetries(c, m)
    \/ InsertGivesUp(c, m)

Next ==
    \/ \E c \in Consumers :
         \/ Start(c) \/ ConnectSucceeds(c) \/ ConnectGivesUp(c)
         \/ Poll(c) \/ Insert(c) \/ IdleFlush(c) \/ IdlePoll(c)
         \/ Stop(c) \/ Exit(c) \/ Crash(c)
         \/ SessionTimeout(c) \/ Evict(c) \/ Rejoin(c)
         \/ CommitLands(c) \/ CommitFails(c)
         \/ DlqDelivered(c) \/ DlqDeliveryFails(c)
    \/ Rebalance
    \/ DbStops
    \/ DbStarts

Spec == Init /\ [][Next]_vars

(* Faults are finitely many, and what is not a fault happens in the end: the *)
(* loop runs, containers restart, brokers answer, PostgreSQL comes back.     *)
Fairness ==
    /\ \A c \in Consumers :
         /\ WF_vars(Start(c))
         /\ WF_vars(ConnectSucceeds(c) \/ ConnectGivesUp(c))
         /\ WF_vars(Poll(c))
         /\ WF_vars(Insert(c))
         /\ WF_vars(IdleFlush(c))
         /\ WF_vars(Exit(c))
         /\ WF_vars(SessionTimeout(c))
         /\ WF_vars(Rejoin(c))
         /\ WF_vars(CommitLands(c))
         /\ WF_vars(DlqDelivered(c))
    /\ WF_vars(Rebalance)
    /\ WF_vars(DbStarts)

FairSpec == Spec /\ Fairness

-----------------------------------------------------------------------------
(***************************************************************************)
(* Safety.                                                                  *)
(***************************************************************************)

(* An offset is committed only after its outcome is confirmed: every message *)
(* below a committed offset has a row or was sent to the DLQ, whatever       *)
(* crashes, evictions, rebalances and failed commits came before             *)
(* (main.py 225-256, 345-389).                                               *)
OnlyConfirmedCommitted == \A p \in Partitions : Before(p, committed[p]) \subseteq Settled

(* The dedup cache may forget but never lies: an id it holds is in raw.events*)
(* so a cache hit may confirm the offset without asking PostgreSQL           *)
(* (main.py 322-333, 364-368).                                               *)
CacheBackedByRows == \A c \in Consumers : cache[c] \subseteq RowIds

(* Why OnlyConfirmedCommitted holds: whatever a consumer will resume from, has pending *)
(* or has asked to commit is settled below, and it holds a message only      *)
(* after everything before it (main.py 213-256, 258-389).                    *)
HandsEmpty == \A c \in Consumers :
    pc[c] \in {"down", "connecting", "poll"} => cur[c] = NoMessage

HandInOrder == \A c \in Consumers :
    cur[c] # NoMessage =>
        /\ Kind(cur[c]) \in Storable
        /\ Before(cur[c][1], cur[c][2]) \subseteq Settled
        /\ owner[cur[c][1]] = c => position[cur[c][1]] = cur[c][2] + 1

ResumeSettled == \A p \in Partitions :
    owner[p] # NoOne => Before(p, Resume(owner[p], p)) \subseteq Settled

RequestsSettled == \A c \in Consumers : \A p \in Partitions :
    /\ Before(p, pending[c][p]) \subseteq Settled
    /\ \A i \in 1 .. Len(inflight[c]) : Before(p, inflight[c][i][p]) \subseteq Settled

IInv ==
    /\ TypeOK
    /\ OnlyConfirmedCommitted
    /\ CacheBackedByRows
    /\ HandsEmpty
    /\ HandInOrder
    /\ ResumeSettled
    /\ RequestsSettled

(* A rejected message's record leaves its producer's queue for the topic,    *)
(* unless that very process dies or the cluster fails to take the record: no *)
(* signal, give-up, eviction, rebalance, outage or failed commit loses one,  *)
(* nor the death of another member (main.py 418: dlq.close() after the final *)
(* flush).                                                                   *)
Killed(c) == Crash(c) \/ \E m \in Messages : PollOverflow(c, m) \/ PollRaises(c, m)
NotTaken(c) == DlqDeliveryFails(c) \/ (Exit(c) /\ FlushTimesOut(c))
QueueSurvives(c) == dlqBuf[c] \subseteq dlqBuf'[c] \cup dlqTopic'

RejectsSurvive ==
    [][/\ dlqTopic \subseteq dlqTopic'
       /\ \A c \in Consumers : QueueSurvives(c) \/ Killed(c) \/ NotTaken(c)]_vars

(* What the comment "already safely in Postgres or DLQ'd" says: a rejected   *)
(* message whose offset is committed is on the DLQ topic or still in a       *)
(* living producer's queue (main.py 229-236).                                *)
CommittedRejectSurvives ==
    \A m \in Messages :
        Kind(m) \in Rejected /\ m[2] < committed[m[1]] => m \in dlqTopic \cup Buffered

(* A consumer with nothing pending and nothing on the wire has committed all *)
(* it has finished, on every partition it owns: no earlier commit is missing *)
(* (main.py 229-243).                                                        *)
QuiescentMeansCommitted ==
    \A c \in Consumers :
        pending[c] = NoOffsets /\ inflight[c] = <<>> /\ pc[c] \in {"poll", "inserting"}
            => \A p \in Owned(c) : committed[p] = Resume(c, p)

(* messages_since_commit, not the size of pending_offsets, drives the batch: *)
(* with nothing on the wire a consumer that died now would be redelivered    *)
(* less than a batch of finished messages, on all its partitions together    *)
(* (main.py 213-223, 249-256).                                               *)
Redelivered(c) == { m \in Messages : /\ owner[m[1]] = c
                                     /\ committed[m[1]] <= m[2]
                                     /\ m[2] < Resume(c, m[1]) }

RedeliveryBounded ==
    \A c \in Consumers :
        inflight[c] = <<>> /\ pc[c] \in {"poll", "inserting"}
            => Cardinality(Redelivered(c)) < CommitBatchSize

(* A committed offset is superseded by higher ones only (main.py 233-236).   *)
CommittedMonotonic == [][\A p \in Partitions : committed[p] <= committed'[p]]_vars

(* Leaving the loop commits everything finished and nothing else: after a    *)
(* signal up to the last message, after giving up to the stuck message,      *)
(* which is the first one redelivered (main.py 345-362, 402-420).            *)
ExitsWithAllCommitted ==
    \A c \in Consumers : Exit(c) => \A p \in Owned(c) : committed[p] = Resume(c, p)

ExitCommitsWhatIsDone == [][ExitsWithAllCommitted]_vars

(* The group keeps the promise of AtLeastOnce: in-order, one event at a      *)
(* time, committed only below what is settled.                               *)
SameEvent == [m \in Messages |->
    IF Kind(m) \in Storable THEN { n \in Messages : Kind(n) \in Storable /\ Id(n) = Id(m) }
                            ELSE {m}]

Promise == INSTANCE AtLeastOnce WITH settled <- Settled

KeepsPromise == Promise!Spec

(***************************************************************************)
(* Liveness.                                                                *)
(***************************************************************************)

(* Every message gets its outcome in the end (FAILURE_SCENARIOS.md 17-21).   *)
EventuallyHandled == \A m \in Messages : <>Outcome(m)

(* ... and the group ends with the whole topic committed.                    *)
EventuallyDrained == <>[](\A p \in Partitions : committed[p] = Len(Log[p]))
=============================================================================
