----------------------------- MODULE DedupCache -----------------------------
(***************************************************************************)
(* ingestion/app/dedup_cache.py: the bounded cache with a time to live that *)
(* sits in front of PostgreSQL. _seen is an OrderedDict: a sequence of      *)
(* entries, the front first.                                                *)
(***************************************************************************)
EXTENDS Integers, Sequences

CONSTANTS
    Ids,        \* event_ids
    MaxSize,    \* max_size
    Ttl,        \* ttl_seconds
    MaxTime     \* bound: how far the monotonic clock runs

ASSUME CacheAssumption ==
    /\ MaxSize \in Nat \ {0}
    /\ Ttl \in Nat
    /\ MaxTime \in Nat

VARIABLES
    seen,       \* _seen
    now         \* time.monotonic()

vars == <<seen, now>>

Ext == INSTANCE SequencesExt

Entries == [id : Ids, at : 0 .. MaxTime]

TypeOK ==
    /\ seen \in Seq(Entries)
    /\ now \in 0 .. MaxTime

Init ==
    /\ seen = <<>>
    /\ now = 0

Held == { seen[i].id : i \in 1 .. Len(seen) }

Tick ==
    /\ now < MaxTime
    /\ now' = now + 1
    /\ UNCHANGED seen

(* _evict_expired: drop from the front up to the first entry that is young enough. *)
Expired(e) == e.at < now - Ttl
ExpiredPrefix(s, k) ==
    /\ \A i \in 1 .. k : Expired(s[i])
    /\ k < Len(s) => ~Expired(s[k + 1])

(* A lookup moves nothing: the order is that of the additions. *)
Contains(id) ==
    /\ \E k \in 0 .. Len(seen) :
          /\ ExpiredPrefix(seen, k)
          /\ seen' = SubSeq(seen, k + 1, Len(seen))
    /\ UNCHANGED now

(* Assigning to a key keeps its place in the dict; move_to_end does not. *)
InPlace(s, id, t) ==                          \* mutant: no move_to_end
    IF \E i \in 1 .. Len(s) : s[i].id = id
    THEN [i \in 1 .. Len(s) |-> IF s[i].id = id THEN [s[i] EXCEPT !.at = t] ELSE s[i]]
    ELSE Append(s, [id |-> id, at |-> t])
Doubled(s, id, t) == Append(s, [id |-> id, at |-> t])      \* mutant: a list, not a dict
ToEnd(s, id, t) ==
    LET rest == IF \E i \in 1 .. Len(s) : s[i].id = id
                THEN Ext!RemoveAt(s, CHOOSE i \in 1 .. Len(s) : s[i].id = id)
                ELSE s
    IN  Append(rest, [id |-> id, at |-> t])

(* popitem(last=False) until the size fits *)
KeepFewer(s) ==                               \* mutant: popitem while len >= max_size
    IF Len(s) >= MaxSize THEN SubSeq(s, Len(s) - MaxSize + 2, Len(s)) ELSE s
KeepLast(s) == IF Len(s) > MaxSize THEN SubSeq(s, Len(s) - MaxSize + 1, Len(s)) ELSE s

Add(id) ==
    /\ seen' = KeepLast(ToEnd(seen, id, now))
    /\ UNCHANGED now

Next == Tick \/ \E id \in Ids : Contains(id) \/ Add(id)

Spec == Init /\ [][Next]_vars

-----------------------------------------------------------------------------
(* Looking at the front alone finds every expired entry only because the     *)
(* entries stand in the order of their ages, each id once, and no more of    *)
(* them than max_size (dedup_cache.py 28-53).                                *)
FrontIsOldest == \A i, j \in 1 .. Len(seen) : i <= j => seen[i].at <= seen[j].at
EachIdOnce == \A i, j \in 1 .. Len(seen) : seen[i].id = seen[j].id => i = j
FitsMaxSize == Len(seen) <= MaxSize

InOrder ==
    /\ TypeOK
    /\ FrontIsOldest
    /\ EachIdOnce
    /\ FitsMaxSize
    /\ \A i \in 1 .. Len(seen) : seen[i].at <= now

(* A lookup never finds an id whose last addition is older than the time to  *)
(* live, and loses none that is younger: what is behind the expired front is *)
(* all that is young, wherever it stands (dedup_cache.py 37-39, 47-53).      *)
LookupIsExact ==
    \A k \in 0 .. Len(seen) :
        ExpiredPrefix(seen, k) => k + 1 .. Len(seen) = { j \in 1 .. Len(seen) : ~Expired(seen[j]) }

(* The ids the cache holds behave as ForgetfulSet, which is all that main()  *)
(* relies on (main.py 322-333, 364-368).                                     *)
Set == INSTANCE ForgetfulSet WITH held <- Held
Forgets == Set!Spec
=============================================================================
