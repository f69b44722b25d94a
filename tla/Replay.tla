------------------------------- MODULE Replay -------------------------------
(***************************************************************************)
(* The way back from the dead-letter queue: an operator runs                *)
(* tests/kafka/replay_dlq.py, which copies DLQ records to the retry topic,  *)
(* or publishes a corrected record there; the retry consumer                *)
(* (ingestion/app/retry_main.py) attempts each record once more and sends   *)
(* what fails again back to the DLQ with its retry_count incremented.       *)
(*                                                                          *)
(* Both topics have one partition and the retry consumer one instance. The  *)
(* attempts of one insert are the business of InsertRetry.                  *)
(***************************************************************************)
EXTENDS Integers, Sequences, FiniteSets

CONSTANTS
    Messages,       \* messages that ingestion rejects, and corrected ones
    Kind,           \* what each message does to the consumer that reads it
    MaxRetryCount,  \* --max-retry-count
    Habits,         \* the ways operators use the replay tool, each a set of its filters
    DlqBufferSize,  \* local queue limit of the DLQ producer
    MaxRejects,     \* bound: messages that ingestion rejects
    MaxDlq,         \* bound: records sent to the DLQ
    MaxRetry,       \* bound: records on the retry topic
    MaxReplays,     \* bound: runs of the replay tool
    MaxFaults,      \* bound: faults of a behaviour
    FaultKinds      \* the faults that may happen at all

(* mangled: not UTF-8, hence unparseable for ingestion, while the decoded    *)
(* text that the DLQ record carries parses and validates. The rest comes     *)
(* from records that an operator writes: poison validates and is refused by  *)
(* PostgreSQL, garbage is no JSON at all, and raising parses to something    *)
(* that is not an object.                                                    *)
RejectedKinds == {"unparseable", "invalid", "mangled"}
CorrectedKinds == {"valid", "invalid", "poison", "garbage", "raising"}

ASSUME ReplayAssumption ==
    /\ Kind \in [Messages -> RejectedKinds \cup CorrectedKinds]
    /\ MaxRetryCount \in Nat
    /\ Habits \subseteq SUBSET {"all", "one", "unexhausted"}
    /\ DlqBufferSize \in Nat
    /\ MaxRejects \in Nat
    /\ MaxDlq \in Nat
    /\ MaxRetry \in Nat
    /\ MaxReplays \in Nat
    /\ MaxFaults \in Nat
    /\ FaultKinds \subseteq {"crash", "stop", "evict", "db", "dlq", "commit", "tool"}

(* A DLQ record; its dlq_id is its place on the DLQ topic. *)
Records == [msg : Messages, retries : Nat]

VARIABLES
    dlq,        \* ecommerce-events-dlq
    retry,      \* ecommerce-events-retry
    habit,      \* the filters that this operator uses
    selected,   \* places on the DLQ that the replay tool still has to produce from
    replays,    \* runs of the replay tool
    \* the retry consumer
    pc,         \* "down", "poll", "inserting" or "closing"
    position,   \* next offset it will be handed
    inflight,   \* commits issued and not answered
    committed,  \* the group's committed offset
    cache,      \* ids the dedup cache holds
    buffer,     \* records in the local queue of its DLQ producer
    lost,       \* records that were sent to the DLQ and never arrived (no code reads it)
    rows,       \* messages stored in raw.events
    faults

topicVars == <<dlq, retry>>
toolVars == <<habit, selected, replays>>
groupVars == <<inflight, committed>>
vars == <<topicVars, toolVars, pc, position, groupVars, cache, buffer, lost, rows, faults>>

TypeOK ==
    /\ dlq \in Seq(Records)
    /\ retry \in Seq(Records)
    /\ habit \in Habits
    /\ selected \subseteq 1 .. Len(dlq)
    /\ replays \in 0 .. MaxReplays
    /\ pc \in {"down", "poll", "inserting", "closing"}
    /\ position \in 0 .. Len(retry)
    /\ inflight \in Seq(0 .. Len(retry))
    /\ committed \in 0 .. Len(retry)
    /\ cache \subseteq Messages
    /\ buffer \in Seq(Records)
    /\ lost \in Seq(Records)
    /\ rows \subseteq Messages
    /\ faults \in 0 .. MaxFaults

Init ==
    /\ dlq = <<>>
    /\ retry = <<>>
    /\ habit \in Habits
    /\ selected = {}
    /\ replays = 0
    /\ pc = "down"
    /\ position = 0
    /\ inflight = <<>>
    /\ committed = 0
    /\ cache = {}
    /\ buffer = <<>>
    /\ lost = <<>>
    /\ rows = {}
    /\ faults = 0

Fault(kind) ==
    /\ kind \in FaultKinds
    /\ faults < MaxFaults
    /\ faults' = faults + 1

(* How often a log or a queue holds one of a set of records, or a record. *)
Hits(set, s) == Cardinality({ i \in 1 .. Len(s) : s[i] \in set })
Times(r, s) == Hits({r}, s)

-----------------------------------------------------------------------------
(* Ingestion rejects a message (Ingestion!PollReject): retry_count 0. *)
Reject(m) ==
    /\ Kind[m] \in RejectedKinds
    /\ Cardinality({ i \in 1 .. Len(dlq) : dlq[i].retries = 0 }) < MaxRejects
    /\ dlq' = Append(dlq, [msg |-> m, retries |-> 0])
    /\ UNCHANGED <<retry, toolVars, pc, position, groupVars, cache, buffer, lost, rows, faults>>

(* An operator publishes a corrected record of his own. *)
PublishCorrected(m) ==
    /\ Kind[m] \in CorrectedKinds
    /\ Len(retry) < MaxRetry
    /\ retry' = Append(retry, [msg |-> m, retries |-> 0])
    /\ UNCHANGED <<dlq, toolVars, pc, position, groupVars, cache, buffer, lost, rows, faults>>

(* replay_dlq.py reads the whole DLQ from its low watermark and keeps what   *)
(* matches: everything, one dlq_id, or what is not exhausted.                *)
ExhaustedIncluded(r) == TRUE                  \* mutant: --skip-exhausted ignored
NotExhausted(r) == r.retries < MaxRetryCount

Everything == 1 .. Len(dlq)
SkipExhausted == { i \in 1 .. Len(dlq) : NotExhausted(dlq[i]) }

StartReplay ==
    /\ replays < MaxReplays
    /\ selected = {}
    /\ \/ "all" \in habit /\ selected' = Everything
       \/ "one" \in habit /\ \E i \in 1 .. Len(dlq) : selected' = {i}
       \/ "unexhausted" \in habit /\ selected' = SkipExhausted
    /\ selected' # {}
    /\ Len(retry) + Cardinality(selected') <= MaxRetry
    /\ replays' = replays + 1
    /\ UNCHANGED <<habit, topicVars, pc, position, groupVars, cache, buffer, lost, rows, faults>>

(* The next record, in the order of the DLQ, reaches the retry topic. *)
ReplayOne ==
    /\ \E i \in selected :
          /\ \A j \in selected : i <= j
          /\ retry' = Append(retry, dlq[i])
          /\ selected' = selected \ {i}
    /\ UNCHANGED <<dlq, habit, replays, pc, position, groupVars, cache, buffer, lost, rows, faults>>

(* The tool ends before the rest is delivered. *)
ReplayCutShort ==
    /\ selected # {}
    /\ Fault("tool")
    /\ selected' = {}
    /\ UNCHANGED <<topicVars, habit, replays, pc, position, groupVars, cache, buffer, lost, rows>>

-----------------------------------------------------------------------------
(***************************************************************************)
(* The retry consumer.                                                      *)
(***************************************************************************)
Current == retry[position + 1]
Handed == pc = "poll" /\ position < Len(retry)

(* The group gives the partition to a new process once the session of the    *)
(* old one is over: its last commit has landed or never will.                *)
Start ==
    /\ pc = "down"
    /\ inflight = <<>>
    /\ pc' = "poll"
    /\ position' = committed
    /\ UNCHANGED <<topicVars, toolVars, groupVars, cache, buffer, lost, rows, faults>>

(* _safe_commit: asynchronous, the message just handled. *)
CommitEarly(n) == n + 2                       \* mutant: commits past the message
CommitNext(n) == n + 1

SafeCommit ==
    /\ inflight' = Append(inflight, CommitNext(position))
    /\ position' = position + 1

(* _requeue_to_dlq adds one to retry_count. *)
CountedTwice(r) == [r EXCEPT !.retries = @ + 2]   \* mutant: incremented by dlq.send too
OneMore(r) == [r EXCEPT !.retries = @ + 1]

RequeueOnce(r) ==                             \* mutant: not if the same record is there
    IF Times(OneMore(r), dlq \o buffer) > 0 THEN buffer ELSE Append(buffer, OneMore(r))
Requeue(r) == Append(buffer, OneMore(r))

Fails(r) == Kind[r.msg] \in {"unparseable", "invalid"}
Inserts(r) == Kind[r.msg] \in {"valid", "mangled", "poison"}

(* Not the JSON of a DLQ record: skipped. *)
PollSkips ==
    /\ Handed
    /\ Kind[Current.msg] = "garbage"
    /\ SafeCommit
    /\ UNCHANGED <<topicVars, toolVars, pc, committed, cache, buffer, lost, rows, faults>>

(* The payload does not parse, or the event does not validate. *)
PollFails ==
    /\ Handed
    /\ Fails(Current)
    /\ Len(buffer) < DlqBufferSize
    /\ Len(dlq \o buffer \o lost) < MaxDlq
    /\ buffer' = Requeue(Current)
    /\ SafeCommit
    /\ UNCHANGED <<topicVars, toolVars, pc, committed, cache, lost, rows, faults>>

(* A cache hit counts as recovered. *)
PollDuplicate ==
    /\ Handed
    /\ Inserts(Current)
    /\ \E kept \in SUBSET cache : Current.msg \in kept /\ cache' = kept
    /\ SafeCommit
    /\ UNCHANGED <<topicVars, toolVars, pc, committed, buffer, lost, rows, faults>>

PollNew ==
    /\ Handed
    /\ Inserts(Current)
    /\ \E kept \in SUBSET cache : Current.msg \notin kept /\ cache' = kept
    /\ pc' = "inserting"
    /\ UNCHANGED <<topicVars, toolVars, position, groupVars, buffer, lost, rows, faults>>

NothingStored(m) == rows                      \* mutant: the row is not committed
RowStored(m) == rows \cup {m}

Recovered ==
    /\ pc = "inserting"
    /\ Kind[Current.msg] # "poison"
    /\ rows' = RowStored(Current.msg)
    /\ cache' = cache \cup {Current.msg}
    /\ SafeCommit
    /\ pc' = "poll"
    /\ UNCHANGED <<topicVars, toolVars, committed, buffer, lost, faults>>

(* insert_with_retry returned None: leave the loop without committing. The   *)
(* row may be there all the same.                                            *)
GivesUp ==
    /\ pc = "inserting"
    /\ \/ /\ Kind[Current.msg] = "poison"
          /\ UNCHANGED <<rows, faults>>
       \/ /\ Kind[Current.msg] # "poison"
          /\ Fault("db")
          /\ rows' \in {rows, RowStored(Current.msg)}
    /\ pc' = "closing"
    /\ UNCHANGED <<topicVars, toolVars, position, groupVars, cache, buffer, lost>>

(* A signal, seen between two messages. *)
Stop ==
    /\ pc = "poll"
    /\ Fault("stop")
    /\ pc' = "closing"
    /\ UNCHANGED <<topicVars, toolVars, position, groupVars, cache, buffer, lost, rows>>

(* dlq.close() flushes, for 10 s at most; consumer.close() waits for commits. *)
NotFlushed ==                                 \* mutant: no dlq.close()
    /\ buffer' = <<>>
    /\ lost' = lost \o buffer
    /\ UNCHANGED <<dlq, faults>>
FlushTimesOut ==
    /\ buffer # <<>>
    /\ Fault("dlq")
    /\ buffer' = <<>>
    /\ lost' = lost \o buffer
    /\ UNCHANGED dlq
DlqClose ==
    \/ /\ dlq' = dlq \o buffer
       /\ buffer' = <<>>
       /\ UNCHANGED <<lost, faults>>
    \/ FlushTimesOut

Exit ==
    /\ pc = "closing"
    /\ inflight = <<>>
    /\ DlqClose
    /\ pc' = "down"
    /\ cache' = {}
    /\ UNCHANGED <<retry, toolVars, position, groupVars, rows>>

(* The process ends without dlq.close(): what its DLQ producer had queued is *)
(* gone, and so may be the commits that had not left.                        *)
Dies ==
    /\ pc' = "down"
    /\ cache' = {}
    /\ buffer' = <<>>
    /\ lost' = lost \o buffer
    /\ \E sent \in 0 .. Len(inflight) : inflight' = SubSeq(inflight, 1, sent)
    /\ UNCHANGED <<topicVars, toolVars, position, committed, rows>>

Crash ==
    /\ pc # "down"
    /\ Fault("crash")
    /\ Dies

(* normalize_event needs an object: the exception leaves main. *)
PollRaises ==
    /\ Handed
    /\ Kind[Current.msg] = "raising"
    /\ Dies
    /\ UNCHANGED faults

(* produce() raises BufferError, which nothing catches. *)
PollOverflow ==
    /\ Handed
    /\ Fails(Current)
    /\ Len(buffer) >= DlqBufferSize
    /\ Dies
    /\ UNCHANGED faults

(* The coordinator takes the partition away from a process that was too long *)
(* between two polls and gives it back; commits under way fail.              *)
Evicted ==
    /\ pc = "poll"
    /\ Fault("evict")
    /\ inflight' = <<>>
    /\ position' = committed
    /\ UNCHANGED <<topicVars, toolVars, pc, committed, cache, buffer, lost, rows>>

-----------------------------------------------------------------------------
DlqDelivered ==
    /\ buffer # <<>>
    /\ dlq' = Append(dlq, Head(buffer))
    /\ buffer' = Tail(buffer)
    /\ UNCHANGED <<retry, toolVars, pc, position, groupVars, cache, lost, rows, faults>>

DlqDeliveryFails ==
    /\ buffer # <<>>
    /\ Fault("dlq")
    /\ lost' = Append(lost, Head(buffer))
    /\ buffer' = Tail(buffer)
    /\ UNCHANGED <<topicVars, toolVars, pc, position, groupVars, cache, rows>>

CommitLands ==
    /\ inflight # <<>>
    /\ committed' = Head(inflight)
    /\ inflight' = Tail(inflight)
    /\ UNCHANGED <<topicVars, toolVars, pc, position, cache, buffer, lost, rows, faults>>

CommitFails ==
    /\ inflight # <<>>
    /\ Fault("commit")
    /\ inflight' = Tail(inflight)
    /\ UNCHANGED <<topicVars, toolVars, pc, position, committed, cache, buffer, lost, rows>>

Poll == PollSkips \/ PollFails \/ PollDuplicate \/ PollNew \/ PollRaises \/ PollOverflow
Insert == Recovered \/ GivesUp

Next ==
    \/ \E m \in Messages : Reject(m) \/ PublishCorrected(m)
    \/ StartReplay \/ ReplayOne \/ ReplayCutShort
    \/ Start \/ Poll \/ Insert \/ Stop \/ Exit \/ Crash \/ Evicted
    \/ DlqDelivered \/ DlqDeliveryFails
    \/ CommitLands \/ CommitFails

Spec == Init /\ [][Next]_vars

(* The container restarts, brokers answer, the tool that was started ends. *)
FairSpec ==
    /\ Spec
    /\ WF_vars(ReplayOne)
    /\ WF_vars(Start) /\ WF_vars(Poll) /\ WF_vars(Insert) /\ WF_vars(Exit)
    /\ WF_vars(DlqDelivered) /\ WF_vars(CommitLands)

-----------------------------------------------------------------------------
(***************************************************************************)
(* Properties.                                                              *)
(***************************************************************************)
(* What was sent to the DLQ, wherever it is now. *)
Sent(set) == Hits(set, dlq) + Hits(set, buffer) + Hits(set, lost)
SentBack(r) == Sent({r})

(* Recovered, or recorded as a failure with its count incremented. *)
Settled(r) ==
    \/ r.msg \in rows
    \/ Fails(r) /\ SentBack(OneMore(r)) > 0
    \/ Kind[r.msg] = "garbage"

SettledBelow(n) == \A i \in 1 .. n : Settled(retry[i])

(* A commit of the retry group says of every record below it that it was     *)
(* recovered into raw.events or sent back to the DLQ with its retry_count    *)
(* incremented, whatever stopped the process in between                      *)
(* (retry_main.py: _safe_commit, the give-up break).                         *)
RetryConfirmed == SettledBelow(committed)

SentBackBelow(n) ==
    \A i \in 1 .. Len(retry) :
        Fails(retry[i]) =>
            Times(retry[i], SubSeq(retry, 1, n)) <= SentBack(OneMore(retry[i]))

(* Each committed failure has a record of its own that was sent back, also   *)
(* when the same record is on the retry topic several times: stops,          *)
(* evictions and redeliveries add records and skip none                      *)
(* (_requeue_to_dlq before _safe_commit).                                    *)
FailuresSentBack == SentBackBelow(committed)

(* A record on the DLQ or queued for it stays there, unless the process dies *)
(* or the cluster fails to take it: no stop, give-up, eviction, outage,      *)
(* failed commit or interrupted replay loses one (dlq.close at the end of    *)
(* main, before consumer.close).                                             *)
OnItsWay(r) == Times(r, dlq) + Times(r, buffer)
Killed == Crash \/ PollRaises \/ PollOverflow
NotTaken == DlqDeliveryFails \/ (Exit /\ FlushTimesOut)

FailuresSurvive ==
    [][\/ Killed \/ NotTaken
       \/ \A s \in {dlq, buffer} : \A i \in 1 .. Len(s) :
             OnItsWay(s[i]) <= OnItsWay(s[i])']_vars

(* retry_count never overstates: a record that says k failed attempts has k  *)
(* records of failed attempts of its message, through replays of old        *)
(* records, redeliveries and lost deliveries (_requeue_to_dlq).              *)
Failures(m) == { r \in Records : r.msg = m /\ r.retries > 0 }
Backed == { r \in Records : r.retries <= Sent(Failures(r.msg)) }

CountNeverOverstated == {dlq, buffer, lost} \subseteq Seq(Backed)

(* An operator who always passes --skip-exhausted never pushes a record past *)
(* --max-retry-count, however often he replays; the first attempt at a       *)
(* corrected record is nobody's replay (replay_dlq.py main).                 *)
Limited == { r \in Records : r.retries \in 0 .. MaxRetryCount \cup {1} }

ExhaustedStays == habit = {"unexhausted"} => {dlq, buffer, lost} \subseteq Seq(Limited)

(* Why these hold: what is true below the committed offset is true below     *)
(* every commit under way and below the position, the retry topic counts no  *)
(* higher than the DLQ, and the cache holds what is stored (retry_main.py:   *)
(* the order of the calls in main).                                          *)
Confirmed == { n \in 0 .. Len(retry) : SettledBelow(n) /\ SentBackBelow(n) }

CommitsInOrder ==
    /\ committed \in Confirmed
    /\ inflight \in Seq(Confirmed)
    /\ pc # "down" => position \in Confirmed

InHand == pc = "inserting" => position < Len(retry) /\ Inserts(Current)

CountsBacked == CountNeverOverstated /\ retry \in Seq(Backed)

Replayable == { r \in Records : r.retries = 0 \/ NotExhausted(r) }

LimitKept ==
    /\ ExhaustedStays
    /\ habit = {"unexhausted"} =>
          /\ \A i \in selected : NotExhausted(dlq[i])
          /\ retry \in Seq(Replayable)

IInv ==
    /\ TypeOK
    /\ cache \subseteq rows
    /\ InHand
    /\ CommitsInOrder
    /\ CountsBacked
    /\ LimitKept

(* Every record on the retry topic is settled in the end, unless one that    *)
(* stops each process that reads it is there too                             *)
(* (retry_main.py: the loop of main, and the restart after a give-up).       *)
Blocks(r) == Kind[r.msg] \in {"poison", "raising"}

EventuallySettled ==
    \A i \in 1 .. MaxRetry :
        i <= Len(retry) ~> \/ i <= Len(retry) /\ Settled(retry[i])
                          \/ \E j \in 1 .. Len(retry) : Blocks(retry[j])

(* retry_main.py step 2: an attempt parses and validates exactly as main.py  *)
(* does, so what ingestion rejects is not recovered unless it is corrected.  *)
SameVerdict == \A m \in rows : Kind[m] \notin RejectedKinds
=============================================================================
