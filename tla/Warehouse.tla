------------------------------ MODULE Warehouse ------------------------------
(***************************************************************************)
(* The two cron jobs behind raw.events: scripts/run_dbt.sh rebuilds         *)
(* analytics.sales_by_interval, and scripts/backup_postgres.sh dumps the    *)
(* database and prunes old dumps. They meet in PostgreSQL's locks: a table  *)
(* that pg_dump holds cannot be replaced.                                   *)
(*                                                                          *)
(* Time is counted in periods of the backup's crontab line.                 *)
(***************************************************************************)
EXTENDS Integers, FiniteSets

CONSTANTS
    Orders,         \* PURCHASE events
    Intervals,      \* 15-minute buckets
    IntervalOf,     \* the bucket of an order's event_timestamp
    NotBuilt,       \* no dbt run has a table to put in place
    PeriodsPerDay,  \* runs of the backup in a day
    RetentionDays,  \* BACKUP_RETENTION_DAYS
    MaxClock,       \* bound: periods
    MaxFaults,      \* bound: faults of a behaviour
    FaultKinds      \* the faults that may happen at all

ASSUME WarehouseAssumption ==
    /\ IntervalOf \in [Orders -> Intervals]
    /\ NotBuilt \notin [Intervals -> SUBSET Orders]
    /\ PeriodsPerDay \in Nat \ {0}
    /\ RetentionDays \in Nat
    /\ MaxClock \in Nat
    /\ MaxFaults \in Nat
    /\ FaultKinds \subseteq {"dbt", "dump", "prune", "missed", "slow"}

Tables == [Intervals -> SUBSET Orders]

(* A file in backups/postgres: named by when its run started, which is also  *)
(* the time whose rows it holds if it is whole, and as old as the last write *)
(* to it. "dumped" is whole, its script about to prune.                      *)
Files == [started : 1 .. MaxClock, touched : 1 .. MaxClock,
          state : {"dumping", "empty", "truncated", "dumped", "kept"}]

VARIABLES
    raw,        \* orders in raw.events
    sales,      \* analytics.sales_by_interval: the orders that each row counts
    built,      \* the table that a dbt run has built and not put in place
    clock,
    files,
    faults

vars == <<raw, sales, built, clock, files, faults>>

TypeOK ==
    /\ raw \subseteq Orders
    /\ sales \in Tables
    /\ built \in Tables \cup {NotBuilt}
    /\ clock \in 0 .. MaxClock
    /\ files \subseteq Files
    /\ \A f, g \in files : f.started = g.started => f = g
    /\ faults \in 0 .. MaxFaults

Init ==
    /\ raw = {}
    /\ sales = [i \in Intervals |-> {}]
    /\ built = NotBuilt
    /\ clock = 0
    /\ files = {}
    /\ faults = 0

Fault(kind) ==
    /\ kind \in FaultKinds
    /\ faults < MaxFaults
    /\ faults' = faults + 1

(* Ingestion stores an order, in whatever order they come. *)
Insert(o) ==
    /\ o \notin raw
    /\ raw' = raw \cup {o}
    /\ UNCHANGED <<sales, built, clock, files, faults>>

-----------------------------------------------------------------------------
(***************************************************************************)
(* dbt run: the view stg_events passes everything on, the table is built    *)
(* anew and then put in the place of the old one.                           *)
(***************************************************************************)
OnlyNewIntervals(rows) ==                     \* mutant: incremental, full buckets are left alone
    [i \in Intervals |-> IF sales[i] # {} THEN sales[i] ELSE { o \in rows : IntervalOf[o] = i }]
GroupByInterval(rows) == [i \in Intervals |-> { o \in rows : IntervalOf[o] = i }]

BuildTable ==
    /\ built = NotBuilt
    /\ built' = GroupByInterval(raw)
    /\ UNCHANGED <<raw, sales, clock, files, faults>>

(* The rename waits for the locks of a pg_dump that is running. *)
ReplaceTable ==
    /\ built # NotBuilt
    /\ \A f \in files : f.state # "dumping"
    /\ sales' = built
    /\ built' = NotBuilt
    /\ UNCHANGED <<raw, clock, files, faults>>

DbtFails ==
    /\ built # NotBuilt
    /\ Fault("dbt")
    /\ built' = NotBuilt
    /\ UNCHANGED <<raw, sales, clock, files>>

-----------------------------------------------------------------------------
(***************************************************************************)
(* backup_postgres.sh. With set -e a pg_dump that fails ends the script:    *)
(* neither the check of the file nor the pruning is reached.                *)
(***************************************************************************)
(* What follows the dump in the script takes no time that cron would notice. *)
Passes ==
    /\ clock < MaxClock
    /\ \A f \in files : f.state # "dumped"
    /\ clock' = clock + 1

(* Cron starts the script, which creates its file at once; pg_dump takes its *)
(* snapshot. A dump takes less than a period, or is one of the faults.       *)
CronBackup ==
    /\ Passes
    /\ IF \E f \in files : f.state = "dumping" THEN Fault("slow") ELSE UNCHANGED faults
    /\ files' = files \cup
        {[started |-> clock + 1, touched |-> clock + 1, state |-> "dumping"]}
    /\ UNCHANGED <<raw, sales, built>>

(* The machine is down when the script is due. *)
CronMisses ==
    /\ Passes
    /\ Fault("missed")
    /\ UNCHANGED <<raw, sales, built, files>>

EndsAsNew(f, state) ==                        \* mutant: a second file instead of the same one
    files' = files \cup {[f EXCEPT !.state = state, !.touched = clock]}
Ends(f, state) == files' = (files \ {f}) \cup {[f EXCEPT !.state = state, !.touched = clock]}

DumpEnds(f) ==
    /\ f.state = "dumping"
    /\ Ends(f, "dumped")
    /\ UNCHANGED <<raw, sales, built, clock, faults>>

(* find -mtime +RETENTION_DAYS: more than so many whole days. What is being  *)
(* written is not old.                                                       *)
NeverOld(f) == FALSE                          \* mutant: a name that matches no dump
Young(f) == (clock - f.touched) \div PeriodsPerDay <= RetentionDays    \* mutant: ! -mtime
Old(f) == f.state # "dumping" /\ (clock - f.touched) \div PeriodsPerDay > RetentionDays

Pruned(set) == { f \in set : ~Old(f) }

(* The file stays: empty, or with what was written of it. *)
PrunesAllTheSame(f) ==                        \* mutant: no set -e, and the file is not empty
    /\ f.state = "dumping"
    /\ Fault("dump")
    /\ files' = Pruned(files \ {f}) \cup {[f EXCEPT !.state = "truncated", !.touched = clock]}
    /\ UNCHANGED <<raw, sales, built, clock>>
DumpFails(f) ==
    /\ f.state = "dumping"
    /\ Fault("dump")
    /\ \E state \in {"empty", "truncated"} : Ends(f, state)
    /\ UNCHANGED <<raw, sales, built, clock>>

Prune(f) ==
    /\ f.state = "dumped"
    /\ files' = Pruned((files \ {f}) \cup {[f EXCEPT !.state = "kept"]})
    /\ UNCHANGED <<raw, sales, built, clock, faults>>

PruneFails(f) ==
    /\ f.state = "dumped"
    /\ Fault("prune")
    /\ files' = (files \ {f}) \cup {[f EXCEPT !.state = "kept"]}
    /\ UNCHANGED <<raw, sales, built, clock>>

Next ==
    \/ \E o \in Orders : Insert(o)
    \/ BuildTable \/ ReplaceTable \/ DbtFails
    \/ CronBackup \/ CronMisses
    \/ \E f \in files : DumpEnds(f) \/ DumpFails(f) \/ Prune(f) \/ PruneFails(f)

Spec == Init /\ [][Next]_vars

(* Cron starts dbt again and again, a dump that runs comes to its end, and   *)
(* the rename gets its turn between two dumps.                               *)
FairSpec ==
    /\ Spec
    /\ WF_vars(BuildTable)
    /\ SF_vars(ReplaceTable)
    /\ WF_vars(\E f \in files : DumpEnds(f))

-----------------------------------------------------------------------------
(***************************************************************************)
(* Properties.                                                              *)
(***************************************************************************)
Whole(f) == f.state \in {"dumped", "kept"}

(* A restore gives back all but the last n periods. *)
AtMostLost(n) == clock <= n \/ \E f \in files : Whole(f) /\ clock - f.started <= n

(* The newest whole dump is from this period or the one before, plus one for *)
(* each run that failed, was slow or was missed: the documented recovery     *)
(* point holds for good runs and degrades by a period for each bad one       *)
(* (FAILURE_SCENARIOS.md 301-305, backup_postgres.sh 58-70).                 *)
LossBounded == AtMostLost(1 + faults)

(* Why that is so: each period that a dump runs on for is one of the faults, *)
(* the period that is one more is the one whose dump is running, and a       *)
(* script prunes as soon as its own dump is whole                            *)
(* (backup_postgres.sh 58-70).                                               *)
Running == { f \in files : f.state = "dumping" }

IInv ==
    /\ TypeOK
    /\ \A f \in files : f.started <= clock
    /\ \A f \in files : f.state = "dumped" => f.touched = clock
    /\ \A f \in files : f.state \in {"dumping", "dumped"} => clock - f.started <= faults
    /\ Running = {} => AtMostLost(faults)
    /\ LossBounded

(* Once there is a whole dump there always is one, however long the runs     *)
(* fail after it: nothing is pruned unless a newer whole dump is there       *)
(* (backup_postgres.sh 34, 58, 70).                                          *)
WholeDumpRemains == [][(\E f \in files : Whole(f)) => \E f \in files' : Whole(f)]_vars

(* A dump outlives its retention by less than a day, so the directory stays  *)
(* bounded; a run that fails before it prunes adds one file at most          *)
(* (backup_postgres.sh 13-14, 70).                                           *)
StorageBounded ==
    Cardinality(files) <= (RetentionDays + 1) * PeriodsPerDay + 1 + faults

(* Why that is so: a file is last written to no later after its start than   *)
(* there were faults, so a prune leaves what was started in the retained     *)
(* periods and in that many before them; the one file more is that of a      *)
(* script which this period has started and which has not pruned yet.        *)
Retained == (RetentionDays + 1) * PeriodsPerDay
ToBePruned == \E f \in files : f.started = clock /\ f.state \in {"dumping", "dumped"}

StorageInv ==
    /\ \A f \in files : f.state # "dumping" => f.touched - f.started <= faults
    /\ Cardinality(files) <= Retained + faults + (IF ToBePruned THEN 1 ELSE 0)

(* Every stored order is counted in the end, also one that arrives after its *)
(* interval was built, and dumps that hold the table up do not hold it for   *)
(* ever (sales_by_interval.sql 11-27, run_dbt.sh 37-39).                     *)
EventuallyCounted == \A o \in Orders : o \in raw ~> o \in sales[IntervalOf[o]]
=============================================================================
