# A TLA+ model of the Kafka e-commerce pipeline

This directory holds a formal model of the pipeline in this repository: TLA+
modules translated from the source, TLC configurations that check them on small
instances, and proofs that TLAPS checks for every value of the constants.
`PROJECT.json` maps each definition to the lines of source it stands for, and
lists the runs, the mutants, the findings, the hazards and the theorems.

The question behind most of it is the one the repository's own documents ask:
*does an event ever get lost, and what does each failure cost instead?*

To check a run: `tlc -config MCIngestion_group.cfg MCIngestion`.
To check a proof: `tlapm IngestionProofs.tla`.

## 1. Inventory

| Part | Source | State it keeps | Operations | Talks to |
|---|---|---|---|---|
| Event generator | `producer/app/event_generator.py`, `schemas.py` | last event, random generator | build, corrupt, repeat | producer (call) |
| Event producer | `producer/app/kafka_producer.py`, `main.py` | librdkafka queue, three counters, shutdown flag | send, delivery callback, flush | Kafka |
| Ingestion service | `ingestion/app/main.py` | `pending_offsets`, `messages_since_commit`, last commit time, shutdown flag | one loop: poll, parse, validate, dedup, insert, confirm, commit | all below |
| Kafka consumer wrapper | `ingestion/app/kafka_consumer.py` | assignment, positions, commits under way | poll, `commit`, `commit_offsets`, rebalance and commit callbacks, close | group coordinator |
| Validator | `ingestion/app/validator.py` | none | `normalize_event`, `validate_event` | pure |
| Dedup cache | `ingestion/app/dedup_cache.py` | an OrderedDict of ids and times | add, contains, expire | clock |
| Insert pipeline, database | `ingestion/app/pipeline.py`, `database.py` | one connection, attempt number | `insert_with_retry`, `insert_event`, reconnect | PostgreSQL |
| DLQ producer | `ingestion/app/dlq.py` | librdkafka queue | send, delivery callback, flush, close | Kafka |
| Retry consumer | `ingestion/app/retry_main.py` | as ingestion, without batching | one loop: parse, validate, dedup, insert, requeue, commit | Kafka, PostgreSQL |
| Replay tool | `tests/kafka/replay_dlq.py` | selected records | read the whole DLQ, filter, republish | Kafka |
| Topics | `kafka/init/create_topics.sh` | logs, group offsets | created once: 3, 1 and 1 partitions | |
| `raw.events` | `postgres/init/*.sql` | rows, keyed by `event_id` | insert | |
| dbt models | `dbt/`, `scripts/run_dbt.sh` | `analytics.sales_by_interval` | rebuild every 15 min | PostgreSQL |
| Backups | `scripts/backup_postgres.sh` | dump files | dump, check, prune | PostgreSQL |
| Scripts, CI, monitoring | `scripts/`, `.github/`, `prometheus/`, `grafana/` | configuration | | |

What is hard here:

- **Asynchrony.** Offset commits and DLQ records are issued, not awaited. Their
  answers come from callbacks that only log. Everything between "issued" and
  "arrived" is a window for a crash.
- **Several owners over time.** A consumer may be evicted inside
  `insert_with_retry`, lose its partitions at a rebalance with offsets still
  pending, die and be replaced. Its local state survives a rebalance and does
  not survive a restart.
- **Batching.** One offset commit speaks for many messages of several
  partitions, with a counter, a clock and an idle flush deciding when.
- **Ambiguous outcomes.** A COMMIT may arrive when its answer does not.
- **Messages nobody planned for**: what the parser, the validator, the cache
  and PostgreSQL each make of the same value.
- **Feedback.** The replay tool reads a log that the retry consumer appends to.
- **Bounded queues nobody watches.** Both producers raise `BufferError` into code
  that does not catch it, and give up a flush after ten seconds.
- **Jobs that share a database.** dbt renames a table that a dump may hold, and a
  dump that fails leaves its file among those that pruning chooses from.

The correctness properties of each part are in section 3; the hazards behind
them, with their lines, are under `hazards` in `PROJECT.json`.

## 2. Modules

                       Producer ----> events topic
                                          |
    AtLeastOnce        abstract: the promise of an in-order consumer group
      ^ implemented by                    v
    Ingestion          the service, its group, its DLQ producer, PostgreSQL
      | assumes                        | assumes              | message kinds from
    ForgetfulSet       abstract: cache | an attempt or answer | EventPath
      ^ implemented by                 v
    DedupCache         the OrderedDict InsertRetry            Replay: DLQ -> retry topic -> DLQ
                                       |
                                   raw.events ----> Warehouse: dbt, backups

`MC*` modules give TLC its instances; `*Proofs` modules hold theorems, one for
each module with actions and a second one, `SoleInstanceProofs`, for what
`Ingestion` does only as a group of one instance.

### Ingestion (and AtLeastOnce)

One action per outcome of an iteration of `main()`'s loop, because the process
is single-threaded and nothing it does between two polls is visible elsewhere,
with two exceptions that are split: `insert_with_retry`, during which the
process can be evicted, can die, and other members act (`PollNew`, then
`InsertSucceeds`, `InsertRetries` or `InsertGivesUp`), and shutdown (`Stop`
flushes, `Exit` closes).

| Code | Model |
|---|---|
| `pending_offsets` | `pending[c]`, 0 where there is no entry |
| `messages_since_commit` | `since[c]` |
| `_flush_pending` / `commit_offsets(asynchronous=True)` | `Flush`: append to `inflight[c]`, clear `pending` at once |
| `_mark_confirmed` | `MarkConfirmed`, part of the action that confirms |
| commit interval elapsed | a nondeterministic choice to flush, forced after an eviction |
| `on_commit` | `CommitLands` / `CommitFails`; the code only logs |
| rebalance callbacks | `Rebalance`: they only log, so `pending` is untouched |
| `dlq.send` | the record goes to `dlqBuf[c]`; `DlqDelivered` moves it to the topic later |
| cache | `cache[c]`: a lookup may forget, an add keeps the new id |
| a message | its partition and offset; `Kind` says what it does to the consumer |

Kinds: `unparseable` and `invalid` go to the DLQ, `valid` is stored, `poison`
validates and is always refused by PostgreSQL, `crashing` makes `deserialize`,
`normalize_event`, `validate_event` or the cache lookup raise something that
`main` does not catch. `EventPath` shows which payloads are which.

Faults are actions guarded by a budget and by a set of kinds, so that each run
says what may go wrong: `crash` (SIGKILL), `stop` (SIGTERM), `evict`
(max.poll.interval.ms), `db` (an outage, or one failed attempt), `dlq` (a
delivery or the final flush fails), `commit` (a request fails), `commit_call`
(the call itself raises `KafkaException`).

`AtLeastOnce` is what the documents promise: outcomes in order per partition,
one event at a time, an offset committed only when everything below has its
outcome. `KeepsPromise` says that `Ingestion` implements it, with `settled`
mapped to the messages that have a row with their id or that `dlq.send` was
called for. That last phrase is deliberate: it is what the code means by
"confirmed", and it includes records that are lost afterwards. Whether the DLQ
*really* holds them is a property of its own, `CommittedRejectSurvives`.

Simplifications, all on the side of more behaviours unless noted:
`InsertGivesUp` issues one commit where the code issues one there and finds
nothing pending in the final flush; the DLQ buffer is a set, since only
membership matters; a message is in one of two copies of a duplicated event and
rows are named by the message that made them; a row whose COMMIT arrived without
its answer appears in the failing attempt, the later arrival being a matter for
`InsertRetry`; a member that was evicted does not process messages it had
prefetched (the client discards them at the next poll).

### DedupCache (and ForgetfulSet)

The OrderedDict as a sequence of entries, with the clock. `ForgetfulSet` is
exactly what `Ingestion` assumes of it; `Forgets` shows that it is implemented.

### InsertRetry

Processes (ingestion and retry consumers alike) call `insert_with_retry`. Each
attempt is split at the points where the connection may break: before or after
the statement arrives, before or after the COMMIT arrives. PostgreSQL is
external: sessions, an open or aborted transaction each, the row it holds
uncommitted (others inserting the same key wait), and sessions whose client is
gone, which end with or without the COMMIT that was on the wire. `credited` is
history that no code keeps.

### Replay

The life of a rejected message: DLQ record, replay by an operator, one attempt by
the retry consumer, back to the DLQ with `retry_count + 1` or recovered.
Operators may also publish corrected records of any kind. Both topics have one
partition, as created, and the compose file runs one retry consumer, so
positions are numbers.

| Code | Model |
|---|---|
| `selected` in `replay_dlq.py` | the places in the DLQ not yet produced; `ReplayOne` takes the first |
| `--skip-exhausted`, `--dlq-id` or no filter | `habit`: which of them this operator ever uses, fixed for a behaviour |
| a Ctrl-C, or `flush(10)` timing out | `ReplayCutShort` |
| `_safe_commit` after each record | `SafeCommit`, part of the action that handles it |
| `_requeue_to_dlq` | `Requeue`: the DLQ producer's queue, `DlqDelivered` later |
| `BufferError` of that queue | `PollOverflow`: the process dies, uncommitted |
| give-up | `GivesUp`: no commit, `dlq.close`, the container restarts |

`lost` is history that no code keeps: the records that were queued for the DLQ
and never arrived. `RetryConfirmed` speaks of what the code confirms, queueing
the record; `FailuresSurvive` speaks of what becomes of it afterwards.

### Producer

One process with its three counters, librdkafka's queue per partition and the
broker. `Send` is `next_event` and the whole of `send`: the repeat of the last
event or a new one, keyed or not, `produce`, the count, `poll(0)` with the
callbacks. A message is identified by its call, so that two sends of one event
are two messages, as they are for Kafka. External: the broker writes any prefix
of a queue (`Receive`), acknowledges it later or never, and of what it already
has keeps one copy; the client gives a message up, written or not
(`DeliveryFails`). `QueueLimit` counts unserved reports too, as librdkafka does.

### Warehouse

The two cron jobs. Time is counted in periods of the backup's crontab line. A
dump file has the time its run started, which is what it holds, and the time of
its last write, which is what `find -mtime` looks at. `CronBackup` creates the
file; `DumpEnds`, `DumpFails`, `Prune` and `PruneFails` are what `set -e` leaves
possible, and what a period brings without them is a fault: `missed` (the
machine is down) or `slow` (the dump runs on into the next period, beside the
next one). `BuildTable` and `ReplaceTable` are dbt's: the table is built from a
snapshot of `raw.events` and renamed later, when no dump holds the old one.

### EventPath

One event, from the generator's tables or from elsewhere, through
normalization and validation to the columns of `raw.events`. A JSON value is one
of about thirty classes that the code or PostgreSQL tells apart (an integer past
INTEGER, one past a float, NaN, a string that reads as a number, a list, ...).

## 3. Runs and what they show

All bounds are small sets of model values and counters named in the `CONSTANTS`.

| Run | Instance | Properties |
|---|---|---|
| `group` | 2 consumers, 2 partitions with a reject, a valid message, one PostgreSQL refuses and one that makes `main` raise, a DLQ queue of 1, 1 fault of any kind | `TypeOK`, `OnlyConfirmedCommitted`, `CacheBackedByRows`, `KeepsPromise`, `RejectsSurvive` |
| `live` | 1 consumer, 2 partitions that share an event, 2 faults but no failed commit, fair scheduling | `QuiescentMeansCommitted`, `RedeliveryBounded`, `CommittedMonotonic`, `ExitCommitsWhatIsDone`, `EventuallyHandled`, `EventuallyDrained` |
| `cache` | 3 ids, size 2, time to live 1, clock to 4 | `InOrder`, `LookupIsExact`, `Forgets` |
| `inserts` | 2 processes, 2 events (one refused), 3 sessions, 2 faults, fair scheduling | `IInv`, `AnswerMeansStored`, `CleanTransaction`, `CreditedOnce`, `CallsEnd` |
| `retry` | a message of every kind, 2 replays by a careless or a careful operator, limit 1, 2 faults of any kind, fair scheduling | `TypeOK`, `RetryConfirmed`, `FailuresSentBack`, `CountNeverOverstated`, `ExhaustedStays`, `FailuresSurvive`, `EventuallySettled` |
| `verdicts` | all generated and corrupted events, about 234000 foreign payloads | `TypeOK`, `GeneratorAgrees`, `SalesNeverNegative` |
| `producer` | 4 calls, 2 users, 2 partitions, a queue of 2, 2 kills or failed deliveries | `TypeOK`, `CountersAgree`, `DeliveredIsStored`, `InCallOrder`, `NothingDropped`, `StopEnds` |
| `jobs` | 2 orders of one interval, 5 periods, 2 a day, retention 0 days, 3 faults of any kind | `TypeOK`, `LossBounded`, `StorageBounded`, `WholeDumpRemains`, `EventuallyCounted` |

The comment above each property says what it means and which code it is about.

Why the bounds are enough to be interesting: two partitions are needed for a
commit that names one and not the other, two consumers for a stale offset after
a rebalance, a batch of two for a commit that covers several messages, a cache
of one for eviction, two faults for a fault during the recovery from another. A
producer queue of two is full after two calls, so that four calls meet an empty,
a partly written and a full one; five periods with the shortest retention prune
twice, with failures in between; two replays and a limit of one take a record to
the limit and try to take it past. Every mutant in `PROJECT.json` - a dropped
flush, a commit one too far, a transaction never committed, a batch counted
wrongly, a table that forgets a field, a prune without `set -e` - is caught
within these bounds.

`MaxDlq` in `retry` is large enough that the DLQ never fills up before the
replays and the faults are spent, except in a loop of restarts on a record that
makes the process raise.

Some properties only hold without certain faults. Where a run can leave them
out it does, by its `FaultKinds`: `QuiescentMeansCommitted` and
`EventuallyDrained` need commits that succeed, and `CommittedMonotonic` holds
for one consumer only. Where the faults matter to the property it names them:
`RejectsSurvive` and `FailuresSurvive` say which steps may take a record out of a
DLQ producer's queue without putting it on the topic: the death of that very
process (a kill, a message that makes it raise, a full queue) and the
cluster's failure to take it (a delivery report with an error, a final flush that
times out). No other fault is excused: not a stop, a give-up, an eviction, an
outage, a failed commit or a replay cut short, which these runs contain, and in
`RejectsSurvive` not the death of the other member. `NothingDropped` excuses its
process's kill, a full queue, a failed delivery and the end of a flush. The runs
below show what the excused steps cost.

### Where the code differs from what it says

Each of these is a run in which TLC finds the counterexample; `findings` has the
quotes. They blame the code and not the models: an outcome that would satisfy the
property is within the model's terms (in `poison`, a record on the DLQ or a row
for the refused message, `Outcome`).

| Run | What happens |
|---|---|
| `dlq_lost` | A crash between the asynchronous send to the DLQ and its delivery loses a rejected message whose offset is committed. |
| `stale_offset` | Offsets pending across a rebalance move the group's offset back (with no fault at all). It costs redelivery. |
| `poison` | A message that validates and that PostgreSQL refuses stops its partition for ever. |
| `verdict` | A payload that is not UTF-8 is unparseable for ingestion, and stored altered by a replay. |

Further disagreements met while modelling. The models contain the behaviour; no
run is spent on showing it:

- A failed commit is not covered by the next successful one when that one is for
  another partition (`main.py` 232-236).
- A payload that makes `normalize_event` or `validate_event` raise kills every
  incarnation of the consumer (`main.py` 297).
- So does a message without a value: `main.py` 271 provides for it, `deserialize`
  promises a ValueError (`kafka_consumer.py` 162) and raises an AttributeError
  (168), which `main` does not catch.
- The cache evicts the oldest addition, where its comment says the least
  recently seen id (`dedup_cache.py` 32-34; `__contains__`, 37, moves nothing).
- A lost acknowledgement makes `insert_with_retry` answer False, "already
  there", for the row the same call wrote (`pipeline.py` 20-24).
- `retry_count` is that of the replayed record plus one, so replaying an old
  record restarts it (`retry_main.py` 185, `dlq.py` 27-29).
- The record of a failed retry names the original topic, not the topic it was
  read from (`retry_main.py` 189, `dlq.py` 19-20).
- A corrected record that PostgreSQL refuses blocks the retry topic
  (`retry_main.py` 243, 29-31).
- A quantity that is no number validates when its event type does not require
  one (`validator.py` 109, `docs/design.md` 318).
- A queued event is "queued, not dropped" during an outage
  (`docs/FAILURE_SCENARIOS.md` 91) only until the queue is full, which kills the
  producer, or until a stop's ten seconds of flush are over
  (`kafka_producer.py` 85, 100).
- The check for an empty dump (`backup_postgres.sh` 60-64) is not reached when
  `pg_dump` fails: `set -e` ends the script at line 58 and the empty or truncated
  file stays.
- "older than N days" keeps a dump for up to a day more
  (`backup_postgres.sh` 13-14, 70: `-mtime +N` counts whole days).
- A price of NaN validates and is stored (`validator.py` 116,
  `docs/design.md` 319).

## 4. Fairness

Liveness is stated under weak fairness of what keeps happening in a deployment:
the loop of a running process, brokers answering what they were sent, the
coordinator ending dead sessions and assigning partitions, PostgreSQL coming
back, and restarts of containers that ended (`restart: unless-stopped` for the
three services, `docker-compose.yml` 242, 259, 282). Faults are not fair and
finitely many. Nothing says that a commit succeeds or that `poll` returns a
message of a partition before others. In `InsertRetry`, PostgreSQL drops a
session whose client is gone (TCP keepalive), and `Reconnect` is strongly fair
only so that the bound on the number of sessions refuses nobody for ever. In
`Replay`, only a replay that was started is driven to its end; operators are
never obliged to do anything. In `Producer` nothing is assumed of the broker:
`StopEnds` needs only that `flush` returns, which its timeout guarantees. In
`Warehouse` cron starts dbt again and again and a running `pg_dump` ends; the
rename is strongly fair, because PostgreSQL queues it behind the locks of the
dump and grants it before those of the next one. `EventuallySettled` excepts the
case that a record which stops every process that reads it is on the retry topic
too.

Deadlock is checked except where the system stops by itself: `Replay` (the
operator is done) and `EventPath` (the event is at its end).

## 5. Proofs

The assumptions are the `ASSUME`s on the constants, nothing else: any number of
consumers, partitions, events, faults, sessions, any log, any queue size, any
retention. The one exception is `SoleInstanceProofs`, whose theorems state what
they need as hypotheses. Every inductive invariant was checked by TLC on the
instances of section 3 before it was proved, those of `InsertRetry` and
`DedupCache` as properties of their runs.

**IngestionProofs.** `TypeCorrect`, `NoLoss` (`OnlyConfirmedCommitted`),
`CacheSound` (`CacheBackedByRows`), `Refinement` (`KeepsPromise`),
`RecordsSurvive` (`RejectsSurvive`), all from `Invariance`: every property
of the run `group`. `RecordsSurvive` goes through the actions one by one: each
leaves every queue as it is or longer, moves its record to the topic, or is a
death or a failed delivery of the one queue that it touches.
`OnlyConfirmedCommitted` alone is not inductive: a commit lands
because of a request issued earlier, a request was made from `pending`, and
`pending` from the message in hand. So `IInv` says of each link that everything
below it is settled: requests under way and pending offsets
(`RequestsSettled`), the message in hand (`HandInOrder`), and the place each
owner would resume from (`ResumeSettled`), which a rebalance sets to the
committed offset. `Settled` only grows (`SettledStep`), which carries all
these through the steps that do not touch them; the rest is one lemma per group
of actions. `Refinement` then needs one fact per step: what newly settles is a
message with everything before it settled, and its duplicates.

**SoleInstanceProofs.** The safety properties of the run `live`:
`CommitsIncrease` (`CommittedMonotonic`), `NothingForgotten`
(`QuiescentMeansCommitted`), `RedeliveryIsBounded` (`RedeliveryBounded`) and
`ExitCommits` (`ExitCommitsWhatIsDone`), for any log, batch size and number of
partitions. They are about a group of one instance, which is what
`docker-compose.yml` deploys (244-246, a fixed container name), and are false
without the hypotheses:

- `Sole(c)`: `c` is the only member and no commit call raises. With two members,
  offsets pending across a rebalance go back behind the other's (run
  `stale_offset`). A call that raises keeps `pending_offsets` (`main.py` 242),
  also when the member was evicted, which resumes at the committed offset and
  then overwrites a pending offset by a lower one.
- `"commit" \notin FaultKinds`, for all but the first: what a failed request named
  is neither pending nor committed until its partition has a later message
  (`main.py` 232-236).

Crashes, stops, evictions, database and DLQ faults stay in any number.
`OrderInv` gives the offsets an order that holds on each partition: committed,
then the requests under way, each at least the one before, then what is pending,
then the offset to resume at. It needs that an eviction or a death takes the
pending offsets and the requests along (`NothingPending`, `HoldsAllOrNone`).
`DoneInv` adds that one of these *is* the offset to resume at (`Reaches`), and that
the finished messages which no request covers are at most `messages_since_commit`
(`Unrequested`), a count over all partitions that a flush empties. With nothing
on the wire these messages are what a death redelivers.

**DedupCacheProofs.** `CacheInOrder`, `LookupExact`, `CacheForgets`. The order
of ages is what makes looking at the front enough (`FrontSuffices`). The lemmas
say that removing an entry, dropping a prefix and appending with the current
time keep a sequence ordered and without repeated ids; cardinalities come from
the injection of positions into ids.

**InsertRetryProofs.** `Invariance`, `AnswersAreStored`, `AttemptsStartClean`,
`FreshOnce`. The invariant says what an open transaction holds for its client
(`HoldsWhatItInserted`): the uncommitted row of the event it wants, or nothing
when the event was there already. With the primary key (`KeyHeldOnce`) an
uncommitted row is never also a committed one, hence no second call can be told
that it inserted it.

**ReplayProofs.** `TypeCorrect`, `CommitsConfirmed` (`RetryConfirmed`),
`FailuresReturn` (`FailuresSentBack`), `CountsAreBacked` (`CountNeverOverstated`), `LimitHolds`
(`ExhaustedStays`), `QueuedSurvive` (`FailuresSurvive`), all from `Invariance`:
every safety property of the run `retry`. A commit lands long after its record
was handled, so `CommitsInOrder` says that every offset on its way, and the
position, is `Confirmed` (settled below, and a record of its own sent back for
each failure below). A replay takes counts from the DLQ to the retry topic and
an attempt takes them back with one more, so `CountsBacked` and `LimitKept` speak
of both topics. What was sent back is counted over the DLQ, the queue and `lost`
together (`Sent`); lemmas say how `Hits` counts in an appended, shortened or
joined sequence, hence that `Sent` never shrinks.

**ProducerProofs.** `UserOrder` (`InCallOrder`), `AcceptedStays`
(`NothingDropped`), `CountersAddUp` (`CountersAgree`), `DeliveredAreStored`
(`DeliveredIsStored`), `TypeCorrect` (the types and the queue's limit), from
`Invariance`: every safety property of the run `producer`. `InCallOrder` speaks of the topic only,
and a message reaches it from a queue of which the broker already has a part.
`Sound` says of each partition that the queue is in order too, that its written
part is on the topic and that its unwritten part is newer than everything there;
so appending what is not yet written keeps the order, and a message leaves the
queue only once it is on the topic or given up. The counters need two more
facts. What is outstanding is counted as places of the queues, so that one
message more or less is one element of a set (`PlacesCounted`). And
`DeliveredIsStored` counts calls on the topic against reports, with the answer
in between: `WrittenIsStored` adds the places that the broker has but has not
answered for. A request adds as many calls as places (`NewCallsCounted`, an
injection of the ones into the others), and none of them was there before,
because partitions share no call (`Apart`) and the unwritten part is newer.

**WarehouseProofs.** `LossIsBounded` (`LossBounded`), `DumpRemains`
(`WholeDumpRemains`), from `Invariance`. `LossBounded` is not inductive: a period
passes and nothing else changes. `IInv` adds that without a running dump the
newest whole one is a period better, that a running one has cost no more periods
than there were faults, and that a script prunes in the period its own dump
became whole. The period that may pass for nothing is then the one whose dump
has just been started, and pruning keeps the pruning script's own dump, whatever
the retention.

`StorageIsBounded` (`StorageBounded`) and `TypeCorrect` rest on it too. A bound on
a directory is not inductive while a file may enter it: `StorageInv` says which
script still has to prune, and that a dump is last written to no later after its
start than there were faults. So what a prune keeps was started in the retained
periods or in as many before them as there were faults, and no two files were
started in the same period (`StartsCount`, an injection of files into periods); a
prune therefore ends below the bound whatever was there before, and each other
step adds a file only in the place of one that it counts.

**EventPathProofs.** `TypeCorrect`, `GeneratorAndValidatorAgree`
(`GeneratorAgrees`), `SalesStayNonNegative` (`SalesNeverNegative`), from an
invariant that says what each stage still knows of the payload: until the verdict
an event is one its builder or its corruption made (`Built`, `Broken`), after it
one without errors. The lemmas are the two tables of fields against each other:
what `build_fields` makes has no errors and is left alone by `normalize_event`,
what `_corrupt` makes has one that normalization does not repair. TLC enumerates
one choice of foreign values; the proof covers every choice, and says which part
of the code each verdict rests on.

Model-checked only: the liveness properties `EventuallyHandled`,
`EventuallyDrained`, `CallsEnd`, `EventuallySettled`, `StopEnds` and
`EventuallyCounted`, because liveness under fairness is out of the prover's reach,
as are `ENABLED` and induction over data. Every other property of a passing run is
a theorem.

## 6. Not modelled

- Logging, metrics, statistics lines, wording of errors.
- Kafka beyond its clients' view: replication, retention, topic creation.
- Zombie consumption: an evicted member handling messages it had prefetched.
- A request of either producer that is still on the wire when its process dies
  and reaches the broker after the restart.
- Runs of `run_dbt.sh` that overlap (cron starts one while another waits for a
  dump's lock): the model has one table under construction. That dumps keep dbt
  from its rename for ever is excluded by assumption (section 4).
- Several retry consumers, or a retry topic with more than one partition.
- The sums of units and revenue in `sales_by_interval` (its rows are modelled by
  the orders they count), dbt's own tests, and the restore of a dump, which is a
  manual procedure.
- The weights and the pace of the event generator, and defaults and environment
  variables of every `config.py`: constants of the models stand for them.
- Setup, run and deploy scripts, CI, monitoring: sequences of shell commands and
  configuration, without a state of their own.

## 7. Plan

Done, in this order: `Ingestion` with `AtLeastOnce` and its proofs, `DedupCache`
with `ForgetfulSet` and its proofs, `InsertRetry` and its proofs, `Replay`,
`EventPath`, `Producer` and its proofs, `Warehouse` and its proofs, the proofs of
`Replay`, of `EventPath` and of a group of one instance.

Next:

1. `Pipeline`: producer, ingestion and replay composed over abstract
   `AtLeastOnce`, stating the end-to-end claim of `FAILURE_SCENARIOS.md`: each
   produced event ends in `raw.events` or on the DLQ.
2. `SoleInstanceProofs`: what a failed commit costs one instance, in place of the
   hypothesis that none fails: at most the messages its request named.
3. A retry group of two, on a retry topic of several partitions.
