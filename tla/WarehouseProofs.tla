--------------------------- MODULE WarehouseProofs ---------------------------
(***************************************************************************)
(* Warehouse, for every retention, every schedule and every number of       *)
(* orders and faults: how old the newest whole dump is, that pruning never  *)
(* takes the last one, and how many files the directory holds.              *)
(***************************************************************************)
EXTENDS Warehouse, FiniteSetTheorems, FunctionTheorems, TLAPS

LEMMA FileParts ==
    ASSUME TypeOK, NEW f \in files
    PROVE  /\ f \in Files
           /\ f.started \in 1 .. MaxClock /\ f.touched \in 1 .. MaxClock
           /\ f.started \in Nat /\ f.touched \in Nat
           /\ clock \in Nat /\ faults \in Nat
  BY WarehouseAssumption DEF TypeOK, Files

LEMMA FaultCounts ==
    ASSUME TypeOK, NEW kind, Fault(kind)
    PROVE  faults \in Nat /\ faults' = faults + 1 /\ faults' \in 0 .. MaxFaults
  BY WarehouseAssumption DEF Fault, TypeOK

(* A file that was written in this period is not old. *)
LEMMA FreshIsYoung ==
    ASSUME TypeOK, NEW f, f.touched = clock
    PROVE  ~Old(f)
<1>1. clock - f.touched = 0
  BY DEF TypeOK
<1>2. 0 \div PeriodsPerDay = 0
  BY WarehouseAssumption
<1> QED
  BY <1>1, <1>2, WarehouseAssumption DEF Old

(* Files are told apart by when their run started; replacing one by its      *)
(* later self keeps it so, and so does pruning.                              *)
Distinct(set) == \A f, g \in set : f.started = g.started => f = g

LEMMA ReplacedStayDistinct ==
    ASSUME NEW set, set \subseteq Files, Distinct(set),
           NEW f \in set, NEW g \in Files, g.started = f.started
    PROVE  /\ (set \ {f}) \cup {g} \subseteq Files
           /\ Distinct((set \ {f}) \cup {g})
  BY DEF Distinct

LEMMA PrunedStayDistinct ==
    ASSUME NEW set, set \subseteq Files, Distinct(set)
    PROVE  Pruned(set) \subseteq Files /\ Distinct(Pruned(set))
  BY DEF Distinct, Pruned

LEMMA InitEstablishes == Init => IInv
<1> SUFFICES ASSUME Init PROVE IInv
  OBVIOUS
<1>1. sales \in Tables
  BY DEF Init, Tables
<1>2. clock = 0 /\ faults = 0 /\ files = {}
  BY DEF Init
<1>3. TypeOK
  BY <1>1, <1>2, WarehouseAssumption DEF TypeOK, Init
<1> QED
  BY <1>2, <1>3 DEF IInv, AtMostLost, LossBounded

(* The jobs that have nothing to do with dumps.                              *)
LEMMA TablesKeep ==
    ASSUME IInv,
           \/ \E o \in Orders : Insert(o)
           \/ BuildTable
           \/ ReplaceTable
    PROVE  UNCHANGED <<clock, files, faults>> /\ IInv'
<1>1. UNCHANGED <<clock, files, faults>>
  BY DEF Insert, BuildTable, ReplaceTable
<1>2. TypeOK'
  <2>1. CASE \E o \in Orders : Insert(o)
    BY <1>1, <2>1 DEF IInv, TypeOK, Insert
  <2>2. CASE BuildTable
    <3>1. GroupByInterval(raw) \in Tables
      BY DEF GroupByInterval, Tables, IInv, TypeOK
    <3> QED
      BY <1>1, <2>2, <3>1 DEF IInv, TypeOK, BuildTable
  <2>3. CASE ReplaceTable
    BY <1>1, <2>3 DEF IInv, TypeOK, ReplaceTable
  <2> QED
    BY <2>1, <2>2, <2>3
<1> QED
  BY <1>1, <1>2 DEF IInv, AtMostLost, LossBounded, Running

(* A fault more leaves room for a period less, and so does nothing at all.   *)
LEMMA FailedBuildKeeps ==
    ASSUME IInv, DbtFails
    PROVE  IInv'
<1>1. faults \in Nat /\ faults' = faults + 1 /\ faults' \in 0 .. MaxFaults
  BY FaultCounts DEF IInv, DbtFails
<1>2. UNCHANGED <<raw, sales, clock, files>> /\ built' = NotBuilt
  BY DEF DbtFails
<1>3. TypeOK'
  BY <1>1, <1>2 DEF IInv, TypeOK
<1>4. \A f \in files : f.started \in Nat /\ clock \in Nat
  BY FileParts DEF IInv
<1>5. clock \in Nat
  BY DEF IInv, TypeOK
<1>6. AtMostLost(1 + faults)'
  BY <1>1, <1>2, <1>4, <1>5 DEF IInv, LossBounded, AtMostLost, Whole
<1>7. Running' = {} => AtMostLost(faults)'
  BY <1>1, <1>2, <1>6 DEF IInv, LossBounded, AtMostLost, Whole
<1> QED
  BY <1>1, <1>2, <1>3, <1>4, <1>5, <1>6, <1>7 DEF IInv, LossBounded

-----------------------------------------------------------------------------
(***************************************************************************)
(* How much is lost.                                                        *)
(***************************************************************************)
(* A period that passes makes every dump older by one.                       *)
LEMMA PeriodLosesOne ==
    ASSUME TypeOK, NEW n \in Nat, AtMostLost(n), clock' = clock + 1, files \subseteq files'
    PROVE  clock' <= n + 1 \/ \E f \in files' : Whole(f) /\ clock' - f.started <= n + 1
<1>1. CASE clock <= n
  BY <1>1 DEF TypeOK
<1>2. CASE \E f \in files : Whole(f) /\ clock - f.started <= n
  <2>1. PICK f \in files : Whole(f) /\ clock - f.started <= n
    BY <1>2
  <2>2. f.started \in Nat /\ clock \in Nat
    BY FileParts
  <2>3. clock' - f.started <= n + 1
    BY <2>1, <2>2
  <2> QED
    BY <2>1, <2>3
<1> QED
  BY <1>1, <1>2 DEF AtMostLost

(* A step that keeps the whole dumps keeps what they give back.              *)
LEMMA KeptGivesBack ==
    ASSUME TypeOK, NEW n \in Nat, NEW m \in Nat, n <= m, AtMostLost(n),
           clock' = clock, \A f \in files : Whole(f) => f \in files'
    PROVE  clock' <= m \/ \E f \in files' : Whole(f) /\ clock' - f.started <= m
<1>1. \A f \in files : f.started \in Nat
  BY FileParts
<1> QED
  BY <1>1 DEF AtMostLost, TypeOK

-----------------------------------------------------------------------------
(* A period passes. The one that may go by for nothing is the one whose dump *)
(* has just been started.                                                    *)
LEMMA StartKeeps ==
    ASSUME IInv, CronBackup
    PROVE  IInv'
<1> DEFINE new == [started |-> clock + 1, touched |-> clock + 1, state |-> "dumping"]
<1>1. /\ clock \in Nat /\ faults \in Nat /\ clock < MaxClock /\ clock' = clock + 1
      /\ clock' \in 0 .. MaxClock /\ clock' \in 1 .. MaxClock
      /\ files' = files \cup {new}
      /\ UNCHANGED <<raw, sales, built>>
      /\ \A f \in files : f.state # "dumped"
  BY WarehouseAssumption DEF CronBackup, Passes, IInv, TypeOK
<1>2. new \in Files /\ new.started = clock + 1 /\ new.state = "dumping"
  BY <1>1 DEF Files
<1> HIDE DEF new
<1>3. \A f \in files : f \in Files /\ f.started \in Nat /\ f.started <= clock
  BY FileParts DEF IInv
<1>4. /\ faults' \in 0 .. MaxFaults
      /\ \/ Running = {} /\ faults' = faults
         \/ Running # {} /\ faults' = faults + 1
  <2>1. CASE \E f \in files : f.state = "dumping"
    BY <2>1, FaultCounts DEF CronBackup, IInv, Running
  <2>2. CASE ~ \E f \in files : f.state = "dumping"
    BY <2>2 DEF CronBackup, IInv, TypeOK, Running
  <2> QED
    BY <2>1, <2>2
<1>5. TypeOK'
  <2>1. files' \subseteq Files
    BY <1>1, <1>2, <1>3
  <2>2. ASSUME NEW f \in files', NEW g \in files', f.started = g.started
        PROVE  f = g
    BY <2>2, <1>1, <1>2, <1>3 DEF IInv, TypeOK
  <2> QED
    BY <1>1, <1>4, <2>1, <2>2 DEF IInv, TypeOK
<1>6. \A f \in files' : f.started <= clock'
  BY <1>1, <1>2, <1>3
<1>7. \A f \in files' : f.state # "dumped"
  BY <1>1, <1>2
<1>8. ASSUME NEW f \in files', f.state = "dumping"
      PROVE  clock' - f.started <= faults'
  <2>1. CASE f = new
    BY <2>1, <1>1, <1>2, <1>4
  <2>2. CASE f \in files
    BY <2>2, <1>1, <1>3, <1>4, <1>8 DEF IInv, Running
  <2> QED
    BY <2>1, <2>2, <1>1
<1>9. AtMostLost(1 + faults)'
  <2>1. CASE Running = {} /\ faults' = faults
    BY <2>1, <1>1, PeriodLosesOne DEF IInv, AtMostLost
  <2>2. CASE faults' = faults + 1
    <3>1. 1 + faults \in Nat /\ (1 + faults) + 1 = 1 + faults'
      BY <2>2, <1>1
    <3> QED
      BY <3>1, <1>1, PeriodLosesOne DEF IInv, AtMostLost, LossBounded
  <2> QED
    BY <2>1, <2>2, <1>4
<1>10. Running' # {}
  BY <1>1, <1>2 DEF Running
<1> QED
  BY <1>5, <1>6, <1>7, <1>8, <1>9, <1>10 DEF IInv, LossBounded

LEMMA MissKeeps ==
    ASSUME IInv, CronMisses
    PROVE  IInv'
<1>1. /\ clock \in Nat /\ faults \in Nat /\ clock' = clock + 1 /\ clock' \in 0 .. MaxClock
      /\ UNCHANGED <<raw, sales, built, files>>
      /\ \A f \in files : f.state # "dumped"
      /\ faults' = faults + 1 /\ faults' \in 0 .. MaxFaults
  BY WarehouseAssumption, FaultCounts DEF CronMisses, Passes, IInv, TypeOK
<1>2. TypeOK'
  BY <1>1 DEF IInv, TypeOK
<1>3. \A f \in files : f.started \in Nat
  BY FileParts DEF IInv
<1>4. AtMostLost(1 + faults)'
  <2>1. 1 + faults \in Nat /\ (1 + faults) + 1 = 1 + faults'
    BY <1>1
  <2> QED
    BY <2>1, <1>1, PeriodLosesOne DEF IInv, AtMostLost, LossBounded
<1>5. ASSUME Running = {}
      PROVE  AtMostLost(faults)'
  BY <1>1, <1>5, PeriodLosesOne DEF IInv, AtMostLost
<1> QED
  BY <1>1, <1>2, <1>3, <1>4, <1>5 DEF IInv, LossBounded, Running

-----------------------------------------------------------------------------
(* What a dump that ends gives back: it has cost no more periods than there  *)
(* were faults.                                                              *)
LEMMA EndKeeps ==
    ASSUME IInv, NEW f \in files, DumpEnds(f)
    PROVE  IInv'
<1> DEFINE g == [f EXCEPT !.state = "dumped", !.touched = clock]
<1>1. /\ files' = (files \ {f}) \cup {g}
      /\ UNCHANGED <<raw, sales, built, clock, faults>>
      /\ f.state = "dumping" /\ clock - f.started <= faults /\ f.started <= clock
  BY DEF DumpEnds, Ends, IInv
<1>2. /\ f \in Files /\ clock \in 1 .. MaxClock /\ f.started \in Nat
      /\ clock \in Nat /\ faults \in Nat
  BY <1>1, FileParts, WarehouseAssumption DEF IInv, TypeOK
<1>3. g \in Files /\ g.started = f.started /\ g.touched = clock /\ g.state = "dumped"
  BY <1>2 DEF Files
<1> HIDE DEF g
<1>4. TypeOK'
  BY <1>1, <1>2, <1>3, ReplacedStayDistinct DEF IInv, TypeOK, Distinct
<1>5. AtMostLost(faults)' /\ AtMostLost(1 + faults)'
  <2>1. g \in files' /\ Whole(g) /\ clock' - g.started <= faults'
    BY <1>1, <1>3 DEF Whole
  <2>2. clock' - g.started <= 1 + faults'
    BY <2>1, <1>1, <1>2, <1>3
  <2> QED
    BY <2>1, <2>2 DEF AtMostLost
<1> QED
  BY <1>1, <1>3, <1>4, <1>5 DEF IInv, LossBounded

LEMMA FailureKeeps ==
    ASSUME IInv, NEW f \in files, DumpFails(f)
    PROVE  IInv'
<1>1. PICK state \in {"empty", "truncated"} : Ends(f, state)
  BY DEF DumpFails
<1> DEFINE g == [f EXCEPT !.state = state, !.touched = clock]
<1>2. /\ files' = (files \ {f}) \cup {g}
      /\ UNCHANGED <<raw, sales, built, clock>>
      /\ f.state = "dumping" /\ f.started <= clock
      /\ faults' = faults + 1 /\ faults' \in 0 .. MaxFaults
  BY <1>1, FaultCounts DEF DumpFails, Ends, IInv
<1>3. /\ f \in Files /\ clock \in 1 .. MaxClock /\ f.started \in Nat
      /\ clock \in Nat /\ faults \in Nat
  BY <1>2, FileParts, WarehouseAssumption DEF IInv, TypeOK
<1>4. g \in Files /\ g.started = f.started /\ g.state = state
  BY <1>3 DEF Files
<1> HIDE DEF g
<1>5. TypeOK'
  BY <1>2, <1>3, <1>4, ReplacedStayDistinct DEF IInv, TypeOK, Distinct
<1>6. \A h \in files : Whole(h) => h \in files'
  BY <1>2 DEF Whole
<1>7. AtMostLost(faults)'
  BY <1>2, <1>3, <1>6, KeptGivesBack DEF IInv, LossBounded, AtMostLost
<1>8. AtMostLost(1 + faults)'
  <2>1. 1 + faults \in Nat /\ 1 + faults' \in Nat /\ 1 + faults <= 1 + faults'
    BY <1>2, <1>3
  <2> QED
    BY <2>1, <1>2, <1>6, KeptGivesBack DEF IInv, LossBounded, AtMostLost
<1>9. \A h \in files : h.started \in Nat
  BY FileParts DEF IInv
<1> QED
  BY <1>2, <1>3, <1>4, <1>5, <1>7, <1>8, <1>9 DEF IInv, LossBounded

-----------------------------------------------------------------------------
(* The dump whose script prunes is from this period, so that it stays.       *)
LEMMA PruningKeepsTheNew ==
    ASSUME IInv, NEW f \in files, f.state = "dumped"
    PROVE  /\ [f EXCEPT !.state = "kept"] \in Files
           /\ [f EXCEPT !.state = "kept"].started = f.started
           /\ [f EXCEPT !.state = "kept"].touched = f.touched
           /\ [f EXCEPT !.state = "kept"].state = "kept"
           /\ ~Old([f EXCEPT !.state = "kept"])
<1> DEFINE g == [f EXCEPT !.state = "kept"]
<1>1. f \in Files /\ f.touched \in 1 .. MaxClock /\ f.touched = clock
  BY FileParts DEF IInv
<1>2. g \in Files /\ g.started = f.started /\ g.touched = f.touched /\ g.state = "kept"
  BY <1>1 DEF Files
<1> HIDE DEF g
<1>3. ~Old(g)
  BY <1>1, <1>2, FreshIsYoung DEF IInv
<1> QED
  BY <1>2, <1>3 DEF g

LEMMA ScriptEndKeeps ==
    ASSUME IInv, NEW f \in files, Prune(f) \/ PruneFails(f)
    PROVE  IInv'
<1> DEFINE g == [f EXCEPT !.state = "kept"]
           ended == (files \ {f}) \cup {g}
<1>1. /\ files' = ended \/ files' = Pruned(ended)
      /\ UNCHANGED <<raw, sales, built, clock>>
      /\ f.state = "dumped" /\ f.started <= clock /\ clock - f.started <= faults
      /\ faults \in Nat /\ clock \in Nat
      /\ faults' \in 0 .. MaxFaults /\ faults' \in Nat /\ faults <= faults'
  <2>1. CASE Prune(f)
    BY <2>1, WarehouseAssumption DEF Prune, IInv, TypeOK
  <2>2. CASE PruneFails(f)
    BY <2>2, FaultCounts, WarehouseAssumption DEF PruneFails, IInv, TypeOK
  <2> QED
    BY <2>1, <2>2
<1>2. f \in Files /\ f.started \in Nat
  BY FileParts DEF IInv
<1>3. g \in Files /\ g.started = f.started /\ g.state = "kept" /\ ~Old(g)
  BY <1>1, PruningKeepsTheNew
<1> HIDE DEF g
<1>4. ended \subseteq Files /\ Distinct(ended)
  BY <1>2, <1>3, ReplacedStayDistinct DEF IInv, TypeOK, Distinct
<1>5. g \in ended /\ \A h \in ended : h = g \/ h \in files
  OBVIOUS
<1> HIDE DEF ended
<1>6. files' \subseteq Files /\ Distinct(files')
  BY <1>1, <1>4, PrunedStayDistinct
<1>7. g \in files' /\ \A h \in files' : h = g \/ h \in files
  BY <1>1, <1>3, <1>5 DEF Pruned
<1>8. TypeOK'
  BY <1>1, <1>6 DEF IInv, TypeOK, Distinct
<1>9. AtMostLost(faults)' /\ AtMostLost(1 + faults)'
  <2>1. clock' - g.started <= faults' /\ clock' - g.started <= 1 + faults'
    BY <1>1, <1>2, <1>3
  <2> QED
    BY <2>1, <1>3, <1>7 DEF AtMostLost, Whole
<1>10. \A h \in files' : h.started <= clock' /\ (h.state = "dumped" => h.touched = clock')
  BY <1>1, <1>3, <1>7 DEF IInv
<1>11. ASSUME NEW h \in files', h.state \in {"dumping", "dumped"}
       PROVE  clock' - h.started <= faults'
  <2>1. h \in files /\ clock - h.started <= faults
    BY <1>3, <1>7, <1>11 DEF IInv
  <2>2. h.started \in Nat
    BY <2>1, FileParts DEF IInv
  <2> QED
    BY <1>1, <2>1, <2>2
<1> QED
  BY <1>8, <1>9, <1>10, <1>11 DEF IInv, LossBounded

-----------------------------------------------------------------------------
LEMMA NextKeeps == IInv /\ [Next]_vars => IInv'
<1> SUFFICES ASSUME IInv, [Next]_vars PROVE IInv'
  OBVIOUS
<1>1. CASE (\E o \in Orders : Insert(o)) \/ BuildTable \/ ReplaceTable
  BY <1>1, TablesKeep
<1>2. CASE DbtFails
  BY <1>2, FailedBuildKeeps
<1>3. CASE CronBackup
  BY <1>3, StartKeeps
<1>4. CASE CronMisses
  BY <1>4, MissKeeps
<1>5. CASE \E f \in files : DumpEnds(f)
  BY <1>5, EndKeeps
<1>6. CASE \E f \in files : DumpFails(f)
  BY <1>6, FailureKeeps
<1>7. CASE \E f \in files : Prune(f) \/ PruneFails(f)
  BY <1>7, ScriptEndKeeps
<1>8. CASE UNCHANGED vars
  BY <1>8 DEF vars, IInv, TypeOK, LossBounded, AtMostLost, Running
<1> QED
  BY <1>1, <1>2, <1>3, <1>4, <1>5, <1>6, <1>7, <1>8 DEF Next

(* The inductive invariant: how old the newest whole dump is while a dump    *)
(* runs, while none does, and when a script prunes (backup_postgres.sh       *)
(* 58-70).                                                                   *)
THEOREM Invariance == Spec => []IInv
  BY InitEstablishes, NextKeeps, PTL DEF Spec

(* For every schedule and retention, the newest whole dump is from this      *)
(* period or the one before, plus one for each fault (backup_postgres.sh     *)
(* 58-70, FAILURE_SCENARIOS.md 301-305).                                     *)
THEOREM LossIsBounded == Spec => []LossBounded
<1>1. IInv => LossBounded
  BY DEF IInv
<1> QED
  BY <1>1, Invariance, PTL

(* Pruning never takes the last whole dump, for every retention, that of no  *)
(* days included (backup_postgres.sh 34, 58, 70).                            *)
THEOREM DumpRemains == Spec => WholeDumpRemains
<1>1. IInv /\ [Next]_vars
        => [(\E f \in files : Whole(f)) => \E f \in files' : Whole(f)]_vars
  <2> SUFFICES ASSUME IInv, Next, NEW h \in files, Whole(h)
               PROVE  \E f \in files' : Whole(f)
    OBVIOUS
  <2>1. CASE UNCHANGED files
    BY <2>1
  <2>2. CASE CronBackup
    BY <2>2 DEF CronBackup
  <2>3. CASE \E f \in files : DumpEnds(f) \/ DumpFails(f)
    <3>1. PICK f \in files : DumpEnds(f) \/ DumpFails(f)
      BY <2>3
    <3>2. f.state = "dumping" /\ files \ {f} \subseteq files'
      BY <3>1 DEF DumpEnds, DumpFails, Ends
    <3> QED
      BY <3>2 DEF Whole
  <2>4. CASE \E f \in files : Prune(f) \/ PruneFails(f)
    <3>1. PICK f \in files : Prune(f) \/ PruneFails(f)
      BY <2>4
    <3>2. f.state = "dumped"
      BY <3>1 DEF Prune, PruneFails
    <3> DEFINE g == [f EXCEPT !.state = "kept"]
    <3>3. g.state = "kept" /\ ~Old(g)
      BY <3>2, PruningKeepsTheNew
    <3>4. g \in files'
      BY <3>1, <3>3 DEF Prune, PruneFails, Pruned
    <3> HIDE DEF g
    <3> QED
      BY <3>3, <3>4 DEF Whole
  <2> QED
    BY <2>1, <2>2, <2>3, <2>4
       DEF Next, Insert, BuildTable, ReplaceTable, DbtFails, CronMisses
<1> QED
  BY <1>1, Invariance, PTL DEF Spec, WholeDumpRemains

(* The variables keep their types, in particular no two files have the name  *)
(* of the same run (backup_postgres.sh 34).                                  *)
THEOREM TypeCorrect == Spec => []TypeOK
<1>1. IInv => TypeOK
  BY DEF IInv
<1> QED
  BY <1>1, Invariance, PTL

-----------------------------------------------------------------------------
(***************************************************************************)
(* How many files there are. Runs differ in when they started, so a set of  *)
(* files that started in an interval is no larger than the interval.        *)
(***************************************************************************)
LEMMA StartsCount ==
    ASSUME NEW set, set \subseteq Files, Distinct(set), NEW a \in Int, NEW n \in Nat,
           \A f \in set : f.started \in (a + 1) .. (a + n)
    PROVE  IsFiniteSet(set) /\ Cardinality(set) \in Nat /\ Cardinality(set) <= n
<1> DEFINE started == [f \in set |-> f.started]
           interval == (a + 1) .. (a + n)
<1>1. started \in Injection(set, interval)
  <2>1. started \in [set -> interval]
    OBVIOUS
  <2>2. \A f, g \in set : started[f] = started[g] => f = g
    BY DEF Distinct
  <2> HIDE DEF started, interval
  <2> QED
    BY <2>1, <2>2, Fun_IsInj
<1>2. IsFiniteSet(interval) /\ Cardinality(interval) <= n
  <2> DEFINE lo == a + 1
             hi == a + n
  <2>1. lo \in Int /\ hi \in Int /\ (IF lo > hi THEN 0 ELSE hi - lo + 1) = n
    OBVIOUS
  <2> HIDE DEF lo, hi
  <2>2. IsFiniteSet(lo .. hi) /\ Cardinality(lo .. hi) = n
    BY <2>1, FS_Interval
  <2>3. Cardinality(interval) = n
    BY <2>2 DEF interval, lo, hi
  <2> QED
    BY <2>2, <2>3 DEF interval, lo, hi
<1> HIDE DEF started, interval
<1>3. IsFiniteSet(set) /\ Cardinality(set) <= Cardinality(interval)
  BY <1>1, <1>2, FS_Injection
<1>4. Cardinality(set) \in Nat /\ Cardinality(interval) \in Nat
  BY <1>2, <1>3, FS_CardinalityType
<1> QED
  BY <1>2, <1>3, <1>4

LEMMA DistinctFinite ==
    ASSUME NEW set, set \subseteq Files, Distinct(set)
    PROVE  IsFiniteSet(set) /\ Cardinality(set) \in Nat
<1>1. 0 \in Int /\ MaxClock \in Nat
  BY WarehouseAssumption
<1>2. \A f \in set : f.started \in (0 + 1) .. (0 + MaxClock)
  BY <1>1 DEF Files
<1> QED
  BY <1>1, <1>2, StartsCount

LEMMA FilesFinite ==
    ASSUME TypeOK
    PROVE  IsFiniteSet(files) /\ Cardinality(files) \in Nat
  BY DistinctFinite DEF TypeOK, Distinct

(* A file that takes the place of another adds nothing to the count.         *)
LEMMA ReplacedCount ==
    ASSUME NEW set, IsFiniteSet(set), NEW f \in set, NEW g
    PROVE  /\ IsFiniteSet((set \ {f}) \cup {g})
           /\ Cardinality((set \ {f}) \cup {g}) \in Nat
           /\ Cardinality((set \ {f}) \cup {g}) <= Cardinality(set)
<1>1. IsFiniteSet(set \ {f}) /\ Cardinality(set \ {f}) = Cardinality(set) - 1
  BY FS_RemoveElement
<1>2. /\ IsFiniteSet((set \ {f}) \cup {g})
      /\ Cardinality((set \ {f}) \cup {g})
            = IF g \in set \ {f} THEN Cardinality(set \ {f}) ELSE Cardinality(set \ {f}) + 1
  BY <1>1, FS_AddElement
<1>3. Cardinality(set) \in Nat /\ Cardinality((set \ {f}) \cup {g}) \in Nat
  BY <1>2, FS_CardinalityType
<1> QED
  BY <1>1, <1>2, <1>3

LEMMA RetainedType == Retained \in Nat \ {0}
<1>1. \A x, y \in Nat : y # 0 => (x + 1) * y \in Nat \ {0}
  OBVIOUS
<1> QED
  BY <1>1, WarehouseAssumption DEF Retained

(* What find -mtime leaves was written to in the retained periods.           *)
LEMMA DaysOfPeriods ==
    ASSUME NEW x \in Int, NEW p \in Nat \ {0}, NEW r \in Nat, x \div p <= r
    PROVE  x < (r + 1) * p
<1> DEFINE q == x \div p
<1>1. q \in Int /\ x < (q + 1) * p
  OBVIOUS
<1> HIDE DEF q
<1>2. (q + 1) * p <= (r + 1) * p
  <2>1. q <= r
    BY DEF q
  <2> QED
    BY <1>1, <2>1
<1> QED
  BY <1>1, <1>2

LEMMA KeptIsRecent ==
    ASSUME TypeOK, NEW f \in Files, ~Old(f), f.state # "dumping"
    PROVE  clock - f.touched < Retained
<1>1. clock - f.touched \in Int
  BY DEF TypeOK, Files
<1>2. (clock - f.touched) \div PeriodsPerDay <= RetentionDays
  <2>1. (clock - f.touched) \div PeriodsPerDay \in Int
    BY <1>1, WarehouseAssumption
  <2> QED
    BY <2>1, WarehouseAssumption DEF Old
<1> QED
  BY <1>1, <1>2, DaysOfPeriods, WarehouseAssumption DEF Retained

(* A prune leaves what was started in the retained periods, and in as many   *)
(* before them as there were faults.                                         *)
LEMMA PrunedCount ==
    ASSUME TypeOK, NEW set, set \subseteq Files, Distinct(set),
           \A f \in set : /\ f.started <= clock
                          /\ f.state = "dumping" => clock - f.started <= faults
                          /\ f.state # "dumping" => f.touched - f.started <= faults
    PROVE  Cardinality(Pruned(set)) <= Retained + faults
<1>1. clock \in Nat /\ faults \in Nat /\ Retained \in Nat \ {0}
  BY RetainedType DEF TypeOK
<1> DEFINE a == clock - Retained - faults
           n == Retained + faults
<1>2. ASSUME NEW f \in Pruned(set)
      PROVE  f.started \in (a + 1) .. (a + n)
  <2>1. f \in set /\ f \in Files /\ ~Old(f) /\ f.started \in Nat /\ f.touched \in Nat
    BY <1>2 DEF Pruned, Files
  <2>2. CASE f.state = "dumping"
    BY <2>1, <2>2, <1>1
  <2>3. CASE f.state # "dumping"
    <3>1. clock - f.touched < Retained /\ f.touched - f.started <= faults /\ f.started <= clock
      BY <2>1, <2>3, KeptIsRecent
    <3> QED
      BY <3>1, <2>1, <1>1
  <2> QED
    BY <2>2, <2>3
<1>3. a \in Int /\ n \in Nat
  BY <1>1
<1>4. Pruned(set) \subseteq Files /\ Distinct(Pruned(set))
  BY PrunedStayDistinct
<1> HIDE DEF a, n
<1>5. Cardinality(Pruned(set)) <= n
  BY <1>2, <1>3, <1>4, StartsCount
<1> QED
  BY <1>5 DEF n

-----------------------------------------------------------------------------
LEMMA StorageInit == Init => StorageInv
<1> SUFFICES ASSUME Init PROVE StorageInv
  OBVIOUS
<1>1. files = {} /\ faults = 0 /\ Cardinality(files) = 0
  BY FS_EmptySet DEF Init
<1>2. ~ToBePruned
  BY <1>1 DEF ToBePruned
<1> QED
  BY <1>1, <1>2, RetainedType DEF StorageInv

(* A step that adds no file may end the period's script only by a fault.     *)
LEMMA CountKeeps ==
    ASSUME TypeOK, TypeOK', StorageInv, Cardinality(files') <= Cardinality(files),
           \/ faults' = faults + 1
           \/ faults' = faults /\ (ToBePruned => ToBePruned')
    PROVE  Cardinality(files') <= Retained + faults' + (IF ToBePruned' THEN 1 ELSE 0)
<1> DEFINE count == Cardinality(files)
           later == Cardinality(files')
           pruned == IF ToBePruned THEN 1 ELSE 0
           prunes == IF ToBePruned' THEN 1 ELSE 0
<1>1. count \in Nat /\ later \in Nat
  <2>1. IsFiniteSet(files) /\ count \in Nat
    BY FilesFinite
  <2>2. files' \subseteq Files /\ Distinct(files')
    BY DEF TypeOK, Distinct
  <2> QED
    BY <2>1, <2>2, DistinctFinite
<1>2. faults \in Nat /\ Retained \in Nat
  BY RetainedType DEF TypeOK
<1>3. count <= Retained + faults + pruned /\ later <= count
  BY DEF StorageInv
<1>4. /\ pruned \in {0, 1} /\ prunes \in {0, 1}
      /\ \/ faults' = faults + 1
         \/ faults' = faults /\ pruned <= prunes
  OBVIOUS
<1> HIDE DEF count, later, pruned, prunes
<1>5. later <= Retained + faults' + prunes
  BY <1>1, <1>2, <1>3, <1>4
<1> QED
  BY <1>5 DEF later, prunes

LEMMA StartStores ==
    ASSUME IInv, IInv', StorageInv, CronBackup
    PROVE  StorageInv'
<1> DEFINE new == [started |-> clock + 1, touched |-> clock + 1, state |-> "dumping"]
<1>1. /\ clock \in Nat /\ faults \in Nat /\ Retained \in Nat
      /\ clock' = clock + 1 /\ files' = files \cup {new}
      /\ \A f \in files : f.state # "dumped"
  BY RetainedType DEF CronBackup, Passes, IInv, TypeOK
<1>2. \/ ToBePruned /\ faults' = faults + 1
      \/ ~ToBePruned /\ faults' \in {faults, faults + 1}
  BY <1>1 DEF ToBePruned, CronBackup, Fault
<1>3. new.state = "dumping" /\ new.started = clock'
  BY <1>1
<1> HIDE DEF new
<1>4. ToBePruned'
  BY <1>1, <1>3 DEF ToBePruned
<1>5. Cardinality(files') <= Cardinality(files) + 1 /\ Cardinality(files) \in Nat
      /\ Cardinality(files') \in Nat
  <2>1. IsFiniteSet(files) /\ Cardinality(files) \in Nat
    BY FilesFinite DEF IInv
  <2>2. IsFiniteSet(files \cup {new})
        /\ Cardinality(files \cup {new})
             = IF new \in files THEN Cardinality(files) ELSE Cardinality(files) + 1
    BY <2>1, FS_AddElement
  <2> HIDE DEF new
  <2> DEFINE count == Cardinality(files)
             later == Cardinality(files \cup {new})
  <2>3. later \in {count, count + 1} /\ count \in Nat
    BY <2>1, <2>2
  <2> HIDE DEF count, later
  <2>4. later <= count + 1 /\ count \in Nat /\ later \in Nat
    BY <2>3
  <2> QED
    BY <2>4, <1>1 DEF count, later
<1>6. Cardinality(files) <= Retained + faults + (IF ToBePruned THEN 1 ELSE 0)
  BY DEF StorageInv
<1>7. Cardinality(files') <= Retained + faults' + 1
  <2>1. CASE ToBePruned
    <3>1. Cardinality(files) <= Retained + faults + 1 /\ faults' = faults + 1
      BY <2>1, <1>2, <1>6
    <3> QED
      BY <3>1, <1>1, <1>5
  <2>2. CASE ~ToBePruned
    <3>1. Cardinality(files) <= Retained + faults /\ faults <= faults' /\ faults' \in Nat
      BY <2>2, <1>1, <1>2, <1>6
    <3> QED
      BY <3>1, <1>1, <1>5
  <2> QED
    BY <2>1, <2>2
<1>8. ASSUME NEW f \in files', f.state # "dumping"
      PROVE  f.touched - f.started <= faults'
  <2>1. f \in files /\ f.touched - f.started <= faults
    BY <1>1, <1>3, <1>8 DEF StorageInv
  <2>2. f.touched \in Nat /\ f.started \in Nat
    BY <2>1, FileParts DEF IInv
  <2> QED
    BY <2>1, <2>2, <1>1, <1>2
<1> QED
  BY <1>4, <1>7, <1>8 DEF StorageInv

(* A dump ends, well or not, at most as many periods after its start as      *)
(* there were faults.                                                        *)
LEMMA EndStores ==
    ASSUME IInv, IInv', StorageInv, NEW f \in files, DumpEnds(f) \/ DumpFails(f)
    PROVE  StorageInv'
<1>1. PICK state \in {"dumped", "empty", "truncated"} :
         /\ Ends(f, state)
         /\ state = "dumped" => faults' = faults
         /\ state # "dumped" => faults' = faults + 1
  BY DEF DumpEnds, DumpFails, Fault
<1> DEFINE g == [f EXCEPT !.state = state, !.touched = clock]
<1>2. files' = (files \ {f}) \cup {g} /\ clock' = clock /\ f.state = "dumping"
  BY <1>1 DEF Ends, DumpEnds, DumpFails
<1>3. f \in Files /\ f.started \in Nat /\ clock \in Nat /\ faults \in Nat
  BY FileParts DEF IInv
<1>4. g.started = f.started /\ g.touched = clock /\ g.state = state
  BY <1>3 DEF Files
<1>5. clock - f.started <= faults
  BY <1>2 DEF IInv
<1> HIDE DEF g
<1>6. faults' = faults \/ faults' = faults + 1
  BY <1>1
<1>7. ASSUME NEW h \in files', h.state # "dumping"
      PROVE  h.touched - h.started <= faults'
  <2>1. CASE h = g
    BY <2>1, <1>3, <1>4, <1>5, <1>6
  <2>2. CASE h \in files
    <3>1. h.touched \in Nat /\ h.started \in Nat
      BY <2>2, FileParts DEF IInv
    <3>2. h.touched - h.started <= faults
      BY <2>2, <1>7 DEF StorageInv
    <3> QED
      BY <3>1, <3>2, <1>3, <1>6
  <2> QED
    BY <2>1, <2>2, <1>2
<1>8. Cardinality(files') <= Cardinality(files)
  <2>1. IsFiniteSet(files)
    BY FilesFinite DEF IInv
  <2>2. Cardinality((files \ {f}) \cup {g}) <= Cardinality(files)
    BY <2>1, ReplacedCount
  <2> QED
    BY <2>2, <1>2
<1>9. state = "dumped" /\ ToBePruned => ToBePruned'
  <2> SUFFICES ASSUME state = "dumped", NEW h \in files, h.started = clock,
                      h.state \in {"dumping", "dumped"}
               PROVE  \E k \in files' : k.started = clock /\ k.state \in {"dumping", "dumped"}
    BY <1>2 DEF ToBePruned
  <2>1. CASE h = f
    <3>1. g \in files' /\ g.started = clock /\ g.state = "dumped"
      BY <2>1, <1>2, <1>4
    <3> QED
      BY <3>1
  <2>2. CASE h # f
    BY <2>2, <1>2
  <2> QED
    BY <2>1, <2>2
<1>10. Cardinality(files') <= Retained + faults' + (IF ToBePruned' THEN 1 ELSE 0)
  BY <1>1, <1>8, <1>9, CountKeeps DEF IInv
<1> QED
  BY <1>7, <1>10 DEF StorageInv

LEMMA PruneStores ==
    ASSUME IInv, IInv', StorageInv, NEW f \in files, Prune(f)
    PROVE  StorageInv'
<1> DEFINE g == [f EXCEPT !.state = "kept"]
           ended == (files \ {f}) \cup {g}
<1>1. files' = Pruned(ended) /\ f.state = "dumped" /\ faults' = faults /\ clock' = clock
  BY DEF Prune
<1>2. f \in Files /\ faults \in Nat /\ Retained \in Nat
  BY FileParts, RetainedType DEF IInv
<1>3. g \in Files /\ g.started = f.started /\ g.touched = f.touched /\ g.state = "kept"
  BY <1>1, PruningKeepsTheNew
<1> HIDE DEF g
<1>4. ended \subseteq Files /\ Distinct(ended)
  BY <1>2, <1>3, ReplacedStayDistinct DEF IInv, TypeOK, Distinct
<1>5. ASSUME NEW h \in ended
      PROVE  /\ h.started <= clock
             /\ h.state = "dumping" => clock - h.started <= faults
             /\ h.state # "dumping" => h.touched - h.started <= faults
  <2>1. CASE h = g
    BY <2>1, <1>1, <1>3 DEF IInv, StorageInv
  <2>2. CASE h \in files
    BY <2>2 DEF IInv, StorageInv
  <2> QED
    BY <2>1, <2>2
<1> HIDE DEF ended
<1>6. Cardinality(Pruned(ended)) <= Retained + faults
  BY <1>4, <1>5, PrunedCount DEF IInv
<1>7. Cardinality(files') \in Nat
  <2>1. files' \subseteq Files /\ Distinct(files')
    BY DEF IInv, TypeOK, Distinct
  <2> QED
    BY <2>1, DistinctFinite
<1>8. Cardinality(files') <= Retained + faults' + (IF ToBePruned' THEN 1 ELSE 0)
  <2> DEFINE later == Cardinality(files')
             prunes == IF ToBePruned' THEN 1 ELSE 0
  <2>1. later \in Nat /\ later <= Retained + faults /\ prunes \in {0, 1}
    BY <1>1, <1>6, <1>7
  <2> HIDE DEF later, prunes
  <2>2. later <= Retained + faults + prunes
    BY <2>1, <1>2
  <2> QED
    BY <2>2, <1>1 DEF later, prunes
<1>9. \A h \in files' : h.state # "dumping" => h.touched - h.started <= faults'
  BY <1>1, <1>5 DEF Pruned
<1> QED
  BY <1>8, <1>9 DEF StorageInv

LEMMA PruneFailureStores ==
    ASSUME IInv, IInv', StorageInv, NEW f \in files, PruneFails(f)
    PROVE  StorageInv'
<1> DEFINE g == [f EXCEPT !.state = "kept"]
<1>1. /\ files' = (files \ {f}) \cup {g} /\ f.state = "dumped"
      /\ faults' = faults + 1 /\ clock' = clock
  BY DEF PruneFails, Fault
<1>2. f \in Files /\ faults \in Nat
  BY FileParts DEF IInv
<1>3. g \in Files /\ g.started = f.started /\ g.touched = f.touched /\ g.state = "kept"
  BY <1>1, PruningKeepsTheNew
<1> HIDE DEF g
<1>4. Cardinality(files') <= Cardinality(files)
  <2>1. IsFiniteSet(files)
    BY FilesFinite DEF IInv
  <2>2. Cardinality((files \ {f}) \cup {g}) <= Cardinality(files)
    BY <2>1, ReplacedCount
  <2> QED
    BY <2>2, <1>1
<1>5. Cardinality(files') <= Retained + faults' + (IF ToBePruned' THEN 1 ELSE 0)
  BY <1>1, <1>4, CountKeeps DEF IInv
<1>6. ASSUME NEW h \in files', h.state # "dumping"
      PROVE  h.touched - h.started <= faults'
  <2>1. PICK k \in files : k.state # "dumping" /\ k.touched = h.touched /\ k.started = h.started
    BY <1>1, <1>3, <1>6
  <2>2. k.touched \in Nat /\ k.started \in Nat /\ k.touched - k.started <= faults
    BY <2>1, FileParts DEF IInv, StorageInv
  <2> QED
    BY <2>1, <2>2, <1>1, <1>2
<1> QED
  BY <1>5, <1>6 DEF StorageInv

(* A build or a run that fails or is missed leaves the files alone.          *)
LEMMA OthersStore ==
    ASSUME IInv, IInv', StorageInv, DbtFails \/ CronMisses
    PROVE  StorageInv'
<1>1. files' = files /\ faults' = faults + 1
  BY DEF DbtFails, CronMisses, Fault
<1>2. Cardinality(files') <= Cardinality(files)
  <2>1. Cardinality(files) \in Nat
    BY FilesFinite DEF IInv
  <2> QED
    BY <2>1, <1>1
<1>3. Cardinality(files') <= Retained + faults' + (IF ToBePruned' THEN 1 ELSE 0)
  BY <1>1, <1>2, CountKeeps DEF IInv
<1>4. ASSUME NEW f \in files', f.state # "dumping"
      PROVE  f.touched - f.started <= faults'
  <2>1. f.touched \in Nat /\ f.started \in Nat /\ faults \in Nat
    BY <1>1, FileParts DEF IInv
  <2>2. f.touched - f.started <= faults
    BY <1>1, <1>4 DEF StorageInv
  <2> QED
    BY <2>1, <2>2, <1>1
<1> QED
  BY <1>3, <1>4 DEF StorageInv

LEMMA NextStores == IInv /\ IInv' /\ StorageInv /\ [Next]_vars => StorageInv'
<1> SUFFICES ASSUME IInv, IInv', StorageInv, [Next]_vars PROVE StorageInv'
  OBVIOUS
<1>1. CASE (\E o \in Orders : Insert(o)) \/ BuildTable \/ ReplaceTable
  <2>1. UNCHANGED <<clock, files, faults>>
    BY <1>1, TablesKeep
  <2> QED
    BY <2>1 DEF StorageInv, ToBePruned
<1>2. CASE DbtFails \/ CronMisses
  BY <1>2, OthersStore
<1>3. CASE CronBackup
  BY <1>3, StartStores
<1>4. CASE \E f \in files : DumpEnds(f) \/ DumpFails(f)
  BY <1>4, EndStores
<1>5. CASE \E f \in files : Prune(f)
  BY <1>5, PruneStores
<1>6. CASE \E f \in files : PruneFails(f)
  BY <1>6, PruneFailureStores
<1>7. CASE UNCHANGED vars
  BY <1>7 DEF vars, StorageInv, ToBePruned
<1> QED
  BY <1>1, <1>2, <1>3, <1>4, <1>5, <1>6, <1>7 DEF Next

(* For every retention and schedule, the directory holds the files of the    *)
(* retained periods, one for each fault, and that of the run which has not   *)
(* pruned yet (backup_postgres.sh 13-14, 58-70).                             *)
THEOREM StorageIsBounded == Spec => []StorageBounded
<1>1. IInv /\ StorageInv => StorageBounded
  <2> SUFFICES ASSUME IInv, StorageInv PROVE StorageBounded
    OBVIOUS
  <2> DEFINE count == Cardinality(files)
             pruned == IF ToBePruned THEN 1 ELSE 0
  <2>1. count \in Nat /\ faults \in Nat /\ Retained \in Nat
    BY FilesFinite, RetainedType DEF IInv, TypeOK
  <2>2. count <= Retained + faults + pruned /\ pruned \in {0, 1}
    BY DEF StorageInv
  <2> HIDE DEF count, pruned
  <2>3. count <= Retained + 1 + faults
    BY <2>1, <2>2
  <2> QED
    BY <2>3 DEF count, StorageBounded, Retained
<1> QED
  BY <1>1, Invariance, StorageInit, NextStores, PTL DEF Spec
=============================================================================
