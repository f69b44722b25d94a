-------------------------- MODULE SoleInstanceProofs --------------------------
(***************************************************************************)
(* Ingestion with a group of one instance, which is what docker-compose.yml *)
(* deploys (lines 244-246 give the container a fixed name): what it commits *)
(* and how much of it is redelivered. With two instances these properties   *)
(* do not hold, because pending_offsets outlives a rebalance.               *)
(***************************************************************************)
EXTENDS IngestionProofs, FiniteSetTheorems

(* c is the only member, and a commit call does not raise. *)
Sole(c) == Consumers = {c} /\ "commit_call" \notin FaultKinds

-----------------------------------------------------------------------------
(***************************************************************************)
(* Committed offsets, a queue of commit requests, pending_offsets and the   *)
(* offsets to resume at: how they are ordered. An offset 0 says nothing.    *)
(***************************************************************************)
(* A request never goes back behind what is committed or was asked before.  *)
Rises(com, queue) == \A p \in Partitions : \A i \in 1 .. Len(queue) :
    queue[i][p] # 0 =>
        /\ com[p] <= queue[i][p]
        /\ \A j \in 1 .. i : queue[j][p] <= queue[i][p]

(* Nor does pending_offsets.                                                 *)
Above(com, queue, pend) == \A p \in Partitions :
    pend[p] # 0 =>
        /\ com[p] <= pend[p]
        /\ \A i \in 1 .. Len(queue) : queue[i][p] <= pend[p]

Ordered(com, queue, pend) == Rises(com, queue) /\ Above(com, queue, pend)

(* Nothing unfinished is committed, asked for or pending ...                 *)
Below(com, queue, pend, next) == \A p \in Partitions :
    /\ com[p] <= next[p]
    /\ pend[p] <= next[p]
    /\ \A i \in 1 .. Len(queue) : queue[i][p] <= next[p]

(* ... and all that is finished is.                                          *)
Reaches(com, queue, pend, next) == \A p \in Partitions :
    \/ com[p] = next[p]
    \/ pend[p] = next[p]
    \/ \E i \in 1 .. Len(queue) : queue[i][p] = next[p]

(* What is finished and neither committed nor asked for.                     *)
Unrequested(com, queue, next) == { m \in Messages :
    /\ com[m[1]] <= m[2]
    /\ m[2] < next[m[1]]
    /\ \A i \in 1 .. Len(queue) : queue[i][m[1]] <= m[2] }

LEMMA NothingRequested ==
    ASSUME NEW com \in Offsets
    PROVE  /\ Ordered(com, <<>>, NoOffsets)
           /\ Below(com, <<>>, NoOffsets, com)
           /\ Reaches(com, <<>>, NoOffsets, com)
  BY DEF Ordered, Rises, Above, Below, Reaches, NoOffsets, Offsets

LEMMA ForgettingOrders ==
    ASSUME NEW com, NEW queue, NEW pend, Ordered(com, queue, pend)
    PROVE  Ordered(com, queue, NoOffsets)
  BY DEF Ordered, Above, NoOffsets

LEMMA AppendParts ==
    ASSUME NEW queue \in Seq(Offsets), NEW pend \in Offsets
    PROVE  /\ Len(Append(queue, pend)) = Len(queue) + 1
           /\ Len(queue) \in Nat
           /\ Append(queue, pend)[Len(queue) + 1] = pend
           /\ \A i \in 1 .. Len(queue) : Append(queue, pend)[i] = queue[i]
  OBVIOUS

(* The pending offsets are asked for.                                        *)
LEMMA IssueOrders ==
    ASSUME NEW com \in Offsets, NEW queue \in Seq(Offsets), NEW pend \in Offsets,
           Ordered(com, queue, pend)
    PROVE  Ordered(com, Append(queue, pend), NoOffsets)
<1> DEFINE later == Append(queue, pend)
           n == Len(queue)
<1>1. /\ Len(later) = n + 1 /\ n \in Nat /\ later[n + 1] = pend
      /\ \A i \in 1 .. n : later[i] = queue[i]
  BY AppendParts
<1>2. \A p \in Partitions : pend[p] \in Nat
  BY DEF Offsets
<1> HIDE DEF later, n
<1>3. ASSUME NEW p \in Partitions, NEW i \in 1 .. Len(later), later[i][p] # 0
      PROVE  com[p] <= later[i][p] /\ \A j \in 1 .. i : later[j][p] <= later[i][p]
  <2>1. CASE i \in 1 .. n
    <3>1. \A j \in 1 .. i : j \in 1 .. n
      BY <1>1, <2>1
    <3> QED
      BY <1>1, <1>3, <2>1, <3>1 DEF Ordered, Rises, n
  <2>2. CASE i = n + 1
    <3>1. \A j \in 1 .. i : j \in 1 .. n \/ j = n + 1
      BY <1>1, <2>2
    <3>2. later[i] = pend
      BY <1>1, <2>2
    <3>3. com[p] <= pend[p] /\ \A j \in 1 .. n : queue[j][p] <= pend[p]
      BY <1>3, <3>2 DEF Ordered, Above, n
    <3>4. \A j \in 1 .. i : later[j][p] <= pend[p]
      BY <1>1, <1>2, <3>1, <3>3
    <3> QED
      BY <3>2, <3>3, <3>4
  <2> QED
    BY <1>1, <2>1, <2>2
<1> QED
  BY <1>3 DEF Ordered, Rises, Above, NoOffsets, later

LEMMA IssueReaches ==
    ASSUME NEW com \in Offsets, NEW queue \in Seq(Offsets), NEW pend \in Offsets,
           NEW next \in Offsets, Below(com, queue, pend, next)
    PROVE  /\ Below(com, Append(queue, pend), NoOffsets, next)
           /\ Reaches(com, queue, pend, next) => Reaches(com, Append(queue, pend), NoOffsets, next)
<1> DEFINE later == Append(queue, pend)
           n == Len(queue)
<1>1. /\ Len(later) = n + 1 /\ n \in Nat /\ later[n + 1] = pend
      /\ \A i \in 1 .. n : later[i] = queue[i]
  BY AppendParts
<1>2. /\ \A i \in 1 .. Len(later) : i \in 1 .. n \/ i = n + 1
      /\ n + 1 \in 1 .. Len(later) /\ \A i \in 1 .. n : i \in 1 .. Len(later)
  BY <1>1
<1>3. \A p \in Partitions : next[p] \in Nat /\ 0 <= next[p] /\ NoOffsets[p] = 0
  BY DEF Offsets, NoOffsets
<1> HIDE DEF later
<1>4. Below(com, later, NoOffsets, next)
  BY <1>1, <1>2, <1>3 DEF Below
<1>5. Reaches(com, queue, pend, next) => Reaches(com, later, NoOffsets, next)
  BY <1>1, <1>2 DEF Reaches
<1> QED
  BY <1>4, <1>5 DEF later

(* A message is finished whose partition was to resume at it.                *)
LEMMA ConfirmOrders ==
    ASSUME NEW com \in Offsets, NEW queue \in Seq(Offsets), NEW pend \in Offsets,
           NEW next \in Offsets, NEW m \in Messages, next[m[1]] = m[2],
           Ordered(com, queue, pend), Below(com, queue, pend, next)
    PROVE  LET more == [pend EXCEPT ![m[1]] = m[2] + 1]
               after == [next EXCEPT ![m[1]] = m[2] + 1]
           IN  /\ more \in Offsets /\ after \in Offsets
               /\ Ordered(com, queue, more)
               /\ Below(com, queue, more, after)
               /\ Reaches(com, queue, pend, next) => Reaches(com, queue, more, after)
               /\ Unrequested(com, queue, after) \subseteq Unrequested(com, queue, next) \cup {m}
<1> DEFINE more == [pend EXCEPT ![m[1]] = m[2] + 1]
           after == [next EXCEPT ![m[1]] = m[2] + 1]
<1>1. m[1] \in Partitions /\ m[2] \in Nat /\ m = <<m[1], m[2]>>
  BY MessageParts
<1>2. more \in Offsets /\ after \in Offsets
  BY <1>1 DEF Offsets
<1>3. /\ more[m[1]] = m[2] + 1 /\ after[m[1]] = m[2] + 1
      /\ \A p \in Partitions : p # m[1] => more[p] = pend[p] /\ after[p] = next[p]
  BY <1>1 DEF Offsets
<1>4. /\ \A p \in Partitions : com[p] \in Nat /\ next[p] \in Nat
      /\ \A i \in 1 .. Len(queue) : \A p \in Partitions : queue[i][p] \in Nat
  BY ElementOfSeq DEF Offsets
<1> HIDE DEF more, after
<1>5. com[m[1]] <= m[2] + 1 /\ \A i \in 1 .. Len(queue) : queue[i][m[1]] <= m[2] + 1
  <2>1. com[m[1]] <= m[2] /\ \A i \in 1 .. Len(queue) : queue[i][m[1]] <= m[2]
    BY <1>1 DEF Below
  <2> QED
    BY <1>1, <1>4, <2>1
<1>6. Ordered(com, queue, more)
  BY <1>3, <1>5 DEF Ordered, Above
<1>7. Below(com, queue, more, after)
  <2>1. more[m[1]] <= after[m[1]]
    BY <1>1, <1>3
  <2> QED
    BY <1>3, <1>5, <2>1 DEF Below
<1>8. Reaches(com, queue, pend, next) => Reaches(com, queue, more, after)
  BY <1>3 DEF Reaches
<1>9. Unrequested(com, queue, after) \subseteq Unrequested(com, queue, next) \cup {m}
  <2> SUFFICES ASSUME NEW k \in Unrequested(com, queue, after), k # m
               PROVE  k \in Unrequested(com, queue, next)
    OBVIOUS
  <2>1. k \in Messages /\ k[1] \in Partitions /\ k[2] \in Nat /\ k = <<k[1], k[2]>>
    BY MessageParts DEF Unrequested
  <2>2. k[2] < next[k[1]]
    <3>1. CASE k[1] = m[1]
      <4>1. k[2] # m[2]
        BY <1>1, <2>1, <3>1
      <4>2. k[2] < m[2] + 1
        BY <1>3, <3>1 DEF Unrequested
      <4> QED
        BY <1>1, <2>1, <3>1, <4>1, <4>2
    <3>2. CASE k[1] # m[1]
      BY <1>3, <2>1, <3>2 DEF Unrequested
    <3> QED
      BY <3>1, <3>2
  <2> QED
    BY <2>1, <2>2 DEF Unrequested
<1> QED
  BY <1>2, <1>6, <1>7, <1>8, <1>9 DEF more, after

(* The broker answers the first request: it is stored, or dropped.           *)
Stored(com, request) == [p \in Partitions |-> IF request[p] = 0 THEN com[p] ELSE request[p]]

LEMMA TailParts ==
    ASSUME NEW queue \in Seq(Offsets), queue # <<>>
    PROVE  /\ Tail(queue) \in Seq(Offsets) /\ Head(queue) = queue[1] /\ queue[1] \in Offsets
           /\ 1 \in 1 .. Len(queue)
           /\ \A i \in 1 .. Len(Tail(queue)) : i + 1 \in 1 .. Len(queue) /\ Tail(queue)[i] = queue[i + 1]
           /\ \A i \in 1 .. Len(queue) : i = 1 \/ (i - 1 \in 1 .. Len(Tail(queue)) /\ Tail(queue)[i - 1] = queue[i])
<1>1. /\ Tail(queue) \in Seq(Offsets) /\ Head(queue) = queue[1]
      /\ Len(queue) \in Nat \ {0} /\ Len(Tail(queue)) = Len(queue) - 1
  OBVIOUS
<1>2. \A i \in 1 .. Len(queue) - 1 : Tail(queue)[i] = queue[i + 1]
  OBVIOUS
<1>3. queue[1] \in Offsets
  BY <1>1, ElementOfSeq
<1>4. \A i \in 1 .. Len(Tail(queue)) : i + 1 \in 1 .. Len(queue) /\ Tail(queue)[i] = queue[i + 1]
  BY <1>1, <1>2
<1>5. \A i \in 1 .. Len(queue) : i = 1 \/ (i - 1 \in 1 .. Len(Tail(queue)) /\ (i - 1) + 1 = i)
  BY <1>1
<1>6. \A i \in 1 .. Len(queue) :
         i = 1 \/ (i - 1 \in 1 .. Len(Tail(queue)) /\ Tail(queue)[i - 1] = queue[i])
  BY <1>4, <1>5
<1> QED
  BY <1>1, <1>3, <1>4, <1>6

LEMMA DropOrders ==
    ASSUME NEW com \in Offsets, NEW queue \in Seq(Offsets), queue # <<>>, NEW pend \in Offsets,
           Ordered(com, queue, pend)
    PROVE  /\ Ordered(com, Tail(queue), pend)
           /\ \A next \in Offsets :
                 Below(com, queue, pend, next) => Below(com, Tail(queue), pend, next)
<1> DEFINE rest == Tail(queue)
<1>1. /\ \A i \in 1 .. Len(rest) : i + 1 \in 1 .. Len(queue) /\ rest[i] = queue[i + 1]
  BY TailParts
<1>2. ASSUME NEW i \in 1 .. Len(rest), NEW j \in 1 .. i
      PROVE  j \in 1 .. Len(rest) /\ j + 1 \in 1 .. i + 1
  <2>1. Len(rest) \in Nat
    BY TailParts, LenProperties
  <2> QED
    BY <2>1
<1> HIDE DEF rest
<1>3. Rises(com, rest)
  <2> SUFFICES ASSUME NEW p \in Partitions, NEW i \in 1 .. Len(rest), rest[i][p] # 0
               PROVE  com[p] <= rest[i][p] /\ \A j \in 1 .. i : rest[j][p] <= rest[i][p]
    BY DEF Rises
  <2>1. com[p] <= queue[i + 1][p] /\ \A j \in 1 .. i + 1 : queue[j][p] <= queue[i + 1][p]
    BY <1>1 DEF Ordered, Rises
  <2> QED
    BY <1>1, <1>2, <2>1
<1>4. Above(com, rest, pend)
  BY <1>1 DEF Ordered, Above
<1>5. ASSUME NEW next \in Offsets, Below(com, queue, pend, next)
      PROVE  Below(com, rest, pend, next)
  BY <1>1, <1>5 DEF Below
<1> QED
  BY <1>3, <1>4, <1>5 DEF Ordered, rest

LEMMA LandOrders ==
    ASSUME NEW com \in Offsets, NEW queue \in Seq(Offsets), queue # <<>>, NEW pend \in Offsets,
           Ordered(com, queue, pend)
    PROVE  LET then == Stored(com, Head(queue))
           IN  /\ then \in Offsets
               /\ \A p \in Partitions : com[p] <= then[p]
               /\ \A p \in Partitions : queue[1][p] <= then[p] /\ then[p] \in {com[p], queue[1][p]}
               /\ Ordered(then, Tail(queue), pend)
<1> DEFINE then == Stored(com, queue[1])
           rest == Tail(queue)
<1>1. Head(queue) = queue[1] /\ queue[1] \in Offsets /\ 1 \in 1 .. Len(queue)
  BY TailParts
<1>2. \A p \in Partitions : then[p] = IF queue[1][p] = 0 THEN com[p] ELSE queue[1][p]
  BY DEF Stored
<1>3. \A p \in Partitions : queue[1][p] \in Nat /\ com[p] \in Nat
  BY <1>1 DEF Offsets
<1>4. then \in Offsets
  BY <1>2, <1>3 DEF Stored, Offsets
<1>5. \A p \in Partitions : com[p] <= then[p]
  BY <1>1, <1>2, <1>3 DEF Ordered, Rises
<1>6. \A p \in Partitions : queue[1][p] <= then[p] /\ then[p] \in {com[p], queue[1][p]}
  BY <1>2, <1>3
<1> HIDE DEF then, rest
<1>7. Ordered(com, rest, pend)
  BY DropOrders DEF rest
<1>8. ASSUME NEW p \in Partitions, NEW i \in 1 .. Len(rest), rest[i][p] # 0
      PROVE  then[p] <= rest[i][p]
  <2>1. i + 1 \in 1 .. Len(queue) /\ rest[i] = queue[i + 1] /\ 1 \in 1 .. i + 1
    BY TailParts DEF rest
  <2>2. com[p] <= queue[i + 1][p] /\ queue[1][p] <= queue[i + 1][p]
    BY <1>8, <2>1 DEF Ordered, Rises
  <2> QED
    BY <1>6, <2>1, <2>2
<1>9. ASSUME NEW p \in Partitions, pend[p] # 0
      PROVE  then[p] <= pend[p]
  BY <1>1, <1>6, <1>9 DEF Ordered, Above
<1>10. Ordered(then, rest, pend)
  BY <1>7, <1>8, <1>9 DEF Ordered, Rises, Above
<1> QED
  BY <1>1, <1>4, <1>5, <1>6, <1>10 DEF then, rest

LEMMA LandReaches ==
    ASSUME NEW com \in Offsets, NEW queue \in Seq(Offsets), queue # <<>>, NEW pend \in Offsets,
           NEW next \in Offsets, Ordered(com, queue, pend), Below(com, queue, pend, next)
    PROVE  LET then == Stored(com, Head(queue))
           IN  /\ Below(then, Tail(queue), pend, next)
               /\ Reaches(com, queue, pend, next) => Reaches(then, Tail(queue), pend, next)
               /\ Unrequested(then, Tail(queue), next) \subseteq Unrequested(com, queue, next)
<1> DEFINE then == Stored(com, Head(queue))
           rest == Tail(queue)
<1>1. /\ then \in Offsets
      /\ \A p \in Partitions : com[p] <= then[p]
      /\ \A p \in Partitions : queue[1][p] <= then[p] /\ then[p] \in {com[p], queue[1][p]}
  BY LandOrders
<1> HIDE DEF then
<1>2. /\ 1 \in 1 .. Len(queue)
      /\ \A i \in 1 .. Len(queue) : i = 1 \/ (i - 1 \in 1 .. Len(rest) /\ rest[i - 1] = queue[i])
  BY TailParts
<1>3. /\ \A p \in Partitions : then[p] \in Nat /\ com[p] \in Nat /\ next[p] \in Nat
      /\ \A i \in 1 .. Len(queue) : \A p \in Partitions : queue[i][p] \in Nat
  BY <1>1, ElementOfSeq DEF Offsets
<1>4. Below(then, rest, pend, next)
  <2>1. Below(com, rest, pend, next)
    BY DropOrders
  <2>2. \A p \in Partitions : then[p] <= next[p]
    BY <1>1, <1>2 DEF Below
  <2> QED
    BY <2>1, <2>2 DEF Below
<1> HIDE DEF rest
<1>5. ASSUME Reaches(com, queue, pend, next), NEW p \in Partitions
      PROVE  \/ then[p] = next[p]
             \/ pend[p] = next[p]
             \/ \E i \in 1 .. Len(rest) : rest[i][p] = next[p]
  <2>1. then[p] <= next[p]
    BY <1>4 DEF Below
  <2>2. CASE com[p] = next[p]
    BY <1>1, <1>3, <2>1, <2>2
  <2>3. CASE pend[p] = next[p]
    BY <2>3
  <2>4. CASE \E i \in 1 .. Len(queue) : queue[i][p] = next[p]
    <3>1. PICK i \in 1 .. Len(queue) : queue[i][p] = next[p]
      BY <2>4
    <3>2. CASE i = 1
      <4>1. next[p] <= then[p]
        BY <1>1, <3>1, <3>2
      <4> QED
        BY <1>3, <2>1, <4>1
    <3>3. CASE i # 1
      BY <1>2, <3>1, <3>3
    <3> QED
      BY <3>2, <3>3
  <2> QED
    BY <1>5, <2>2, <2>3, <2>4 DEF Reaches
<1>6. ASSUME NEW m \in Unrequested(then, rest, next)
      PROVE  m \in Unrequested(com, queue, next)
  <2>1. m \in Messages /\ m[1] \in Partitions /\ m[2] \in Nat
    BY <1>6, MessageParts DEF Unrequested
  <2>2. then[m[1]] <= m[2] /\ m[2] < next[m[1]]
        /\ \A i \in 1 .. Len(rest) : rest[i][m[1]] <= m[2]
    BY <1>6 DEF Unrequested
  <2>3. com[m[1]] <= m[2]
    <3>1. com[m[1]] <= then[m[1]]
      BY <1>1, <2>1
    <3> QED
      BY <1>3, <2>1, <2>2, <3>1
  <2>4. ASSUME NEW i \in 1 .. Len(queue)
        PROVE  queue[i][m[1]] <= m[2]
    <3>1. CASE i = 1
      <4>1. queue[i][m[1]] <= then[m[1]] /\ queue[i][m[1]] \in Nat
        BY <1>1, <1>3, <2>1, <3>1
      <4> QED
        BY <1>3, <2>1, <2>2, <4>1
    <3>2. CASE i # 1
      BY <1>2, <2>2, <3>2
    <3> QED
      BY <3>1, <3>2
  <2> QED
    BY <2>1, <2>2, <2>3, <2>4 DEF Unrequested
<1> QED
  BY <1>4, <1>5, <1>6 DEF Reaches, then, rest

(* With nothing pending, nothing finished is unrequested.                    *)
LEMMA AllRequested ==
    ASSUME NEW com \in Offsets, NEW queue \in Seq(Offsets), NEW next \in Offsets,
           Reaches(com, queue, NoOffsets, next)
    PROVE  Unrequested(com, queue, next) = {}
<1> SUFFICES ASSUME NEW m \in Unrequested(com, queue, next)
             PROVE  FALSE
  OBVIOUS
<1>1. m \in Messages /\ m[1] \in Partitions /\ m[2] \in Nat
  BY MessageParts DEF Unrequested
<1>2. /\ com[m[1]] <= m[2] /\ m[2] < next[m[1]]
      /\ \A i \in 1 .. Len(queue) : queue[i][m[1]] <= m[2]
  BY DEF Unrequested
<1>3. next[m[1]] \in Nat /\ NoOffsets[m[1]] = 0
  BY <1>1 DEF Offsets, NoOffsets
<1>4. ~(next[m[1]] <= m[2]) /\ next[m[1]] # 0
  BY <1>1, <1>2, <1>3
<1> QED
  BY <1>1, <1>2, <1>3, <1>4 DEF Reaches

-----------------------------------------------------------------------------
(***************************************************************************)
(* The invariant of a group of one. An instance holds all partitions or     *)
(* none; what it had pending when it was evicted is gone, by a flush that   *)
(* the coordinator refuses, before it joins again (main.py 229-256).        *)
(***************************************************************************)
ResumeAt(c) == [p \in Partitions |-> Resume(c, p)]

Attached(c) == pc[c] # "down" /\ session[c] = "stable"

HoldsAllOrNone(c) ==
    IF session[c] = "stable"
    THEN \A p \in Partitions : owner[p] = c
    ELSE inflight[c] = <<>> /\ \A p \in Partitions : owner[p] = NoOne

NothingPending(c) ==
    \/ pc[c] \in {"down", "connecting", "closing"}
    \/ pc[c] = "poll" /\ session[c] # "stable"
    => pending[c] = NoOffsets

OrderInv(c) ==
    /\ HoldsAllOrNone(c)
    /\ NothingPending(c)
    /\ Ordered(committed, inflight[c], pending[c])
    /\ Attached(c) => Below(committed, inflight[c], pending[c], ResumeAt(c))

(* ... and if the broker fails no commit, nothing finished is forgotten, and *)
(* messages_since_commit counts what is unrequested.                         *)
DoneInv(c) == Attached(c) =>
    /\ Reaches(committed, inflight[c], pending[c], ResumeAt(c))
    /\ IsFiniteSet(Unrequested(committed, inflight[c], ResumeAt(c)))
    /\ Cardinality(Unrequested(committed, inflight[c], ResumeAt(c))) <= since[c]

LEMMA ResumeType ==
    ASSUME TypeOK, NEW c \in Consumers
    PROVE  ResumeAt(c) \in Offsets
<1>1. ASSUME NEW p \in Partitions
      PROVE  Resume(c, p) \in Nat
  <2>1. position[p] \in Nat /\ cur[c] \in Messages \cup {NoMessage}
    BY DEF TypeOK, Offsets
  <2> QED
    BY <2>1, MessageParts DEF Resume
<1> QED
  BY <1>1 DEF ResumeAt, Offsets

(* A step that changes nothing that the invariant speaks of.                 *)
LEMMA QuietOrders ==
    ASSUME TypeOK, NEW c \in Consumers, OrderInv(c), NothingPending(c)',
           UNCHANGED groupVars, pc'[c] = "down" <=> pc[c] = "down",
           UNCHANGED <<position, cur, pending>>
    PROVE  /\ OrderInv(c)'
           /\ DoneInv(c) /\ since'[c] = since[c] => DoneInv(c)'
<1>1. committed' = committed /\ owner' = owner /\ session' = session /\ inflight' = inflight
      /\ pending' = pending
  BY DEF groupVars
<1>2. ResumeAt(c)' = ResumeAt(c)
  BY DEF ResumeAt, Resume
<1>3. Attached(c)' = Attached(c)
  BY <1>1 DEF Attached
<1> QED
  BY <1>1, <1>2, <1>3 DEF OrderInv, DoneInv, HoldsAllOrNone

(* The instance is down, or has no standing with the coordinator.            *)
LEMMA DetachedOrders ==
    ASSUME TypeOK', NEW c \in Consumers, ~Attached(c)', HoldsAllOrNone(c)', NothingPending(c)',
           Ordered(committed', inflight'[c], pending'[c])
    PROVE  OrderInv(c)' /\ DoneInv(c)'
  BY DEF OrderInv, DoneInv

(* What a flush leaves behind. *)
LEMMA FlushParts ==
    ASSUME TypeOK, NEW c \in Consumers, Sole(c), NEW pend \in Offsets, Flush(c, pend)
    PROVE  /\ since'[c] = 0
           /\ pending'[c] = NoOffsets
           /\ session[c] # "stable" => inflight'[c] = inflight[c]
           /\ session[c] = "stable" =>
                 \/ inflight'[c] = Append(inflight[c], pend)
                 \/ pend = NoOffsets /\ inflight'[c] = inflight[c]
  BY DEF Sole, Flush, OnceIssued, TypeOK

LEMMA FlushOrders ==
    ASSUME TypeOK, NEW c \in Consumers, Sole(c), NEW pend \in Offsets, Flush(c, pend),
           session[c] = "stable", Ordered(committed, inflight[c], pend)
    PROVE  /\ Ordered(committed, inflight'[c], pending'[c])
           /\ \A next \in Offsets :
                Below(committed, inflight[c], pend, next)
                  => /\ Below(committed, inflight'[c], pending'[c], next)
                     /\ Reaches(committed, inflight[c], pend, next)
                          => Reaches(committed, inflight'[c], NoOffsets, next)
<1>1. committed \in Offsets /\ inflight[c] \in Seq(Offsets)
  BY DEF TypeOK
<1>2. /\ pending'[c] = NoOffsets
      /\ \/ inflight'[c] = Append(inflight[c], pend)
         \/ pend = NoOffsets /\ inflight'[c] = inflight[c]
  BY FlushParts
<1>3. CASE inflight'[c] = Append(inflight[c], pend)
  BY <1>1, <1>2, <1>3, IssueOrders, IssueReaches
<1>4. CASE pend = NoOffsets /\ inflight'[c] = inflight[c]
  BY <1>2, <1>4
<1> QED
  BY <1>2, <1>3, <1>4

(* Flushing pending_offsets, on a signal, on giving up or after the interval.*)
LEMMA FlushedOrders ==
    ASSUME TypeOK, TypeOK', NEW c \in Consumers, Sole(c), OrderInv(c), Flush(c, pending[c]),
           UNCHANGED <<committed, owner, session, position, cur>>,
           pc[c] # "down"
    PROVE  OrderInv(c)' /\ (DoneInv(c) => DoneInv(c)')
<1>1. /\ committed' = committed /\ owner' = owner /\ session' = session
      /\ committed \in Offsets /\ pending[c] \in Offsets
  BY DEF TypeOK
<1>2. pending'[c] = NoOffsets /\ since'[c] = 0
  BY <1>1, FlushParts
<1>3. NothingPending(c)'
  BY <1>2 DEF NothingPending
<1>4. CASE session[c] = "stable"
  <2> DEFINE next == ResumeAt(c)
  <2>1. /\ Attached(c) /\ next \in Offsets /\ ResumeAt(c)' = next
    BY <1>4, ResumeType DEF Attached, ResumeAt, Resume
  <2>2. HoldsAllOrNone(c)'
    BY <1>1, <1>4 DEF OrderInv, HoldsAllOrNone
  <2> HIDE DEF next
  <2>3. /\ Ordered(committed, inflight[c], pending[c])
        /\ Below(committed, inflight[c], pending[c], next)
    BY <2>1 DEF OrderInv, next
  <2>4. /\ Ordered(committed, inflight'[c], pending'[c])
        /\ Below(committed, inflight'[c], pending'[c], next)
        /\ Reaches(committed, inflight[c], pending[c], next)
             => Reaches(committed, inflight'[c], NoOffsets, next)
    BY <1>1, <1>4, <2>1, <2>3, FlushOrders
  <2>5. OrderInv(c)'
    BY <1>1, <1>3, <2>1, <2>2, <2>4 DEF OrderInv
  <2>6. ASSUME DoneInv(c)
        PROVE  DoneInv(c)'
    <3>1. Reaches(committed, inflight'[c], NoOffsets, next)
      BY <2>1, <2>4, <2>6 DEF DoneInv, next
    <3>2. inflight'[c] \in Seq(Offsets)
      BY DEF TypeOK
    <3>3. Unrequested(committed, inflight'[c], next) = {}
      BY <1>1, <2>1, <3>1, <3>2, AllRequested
    <3> QED
      BY <1>1, <1>2, <2>1, <3>1, <3>3, FS_EmptySet DEF DoneInv
  <2> QED
    BY <2>5, <2>6
<1>5. CASE session[c] # "stable"
  <2>1. inflight'[c] = <<>>
    BY <1>1, <1>5, FlushParts DEF OrderInv, HoldsAllOrNone
  <2>2. HoldsAllOrNone(c)' /\ ~Attached(c)'
    BY <1>1, <1>5, <2>1 DEF OrderInv, HoldsAllOrNone, Attached
  <2>3. Ordered(committed', inflight'[c], pending'[c])
    BY <1>1, <1>2, <2>1, NothingRequested
  <2> QED
    BY <1>3, <2>2, <2>3, DetachedOrders
<1> QED
  BY <1>4, <1>5

(* Confirming m, the message its partition was to resume at.                 *)
LEMMA ConfirmedOrders ==
    ASSUME TypeOK, TypeOK', NEW c \in Consumers, Sole(c), OrderInv(c),
           NEW m \in Messages, MarkConfirmed(c, m),
           UNCHANGED <<committed, owner, session>>,
           pc[c] # "down", pc'[c] = "poll",
           session[c] = "stable" =>
               /\ ResumeAt(c)[m[1]] = m[2]
               /\ ResumeAt(c)' = [ResumeAt(c) EXCEPT ![m[1]] = m[2] + 1]
    PROVE  OrderInv(c)' /\ (DoneInv(c) => DoneInv(c)')
<1> DEFINE more == [pending[c] EXCEPT ![m[1]] = m[2] + 1]
           next == ResumeAt(c)
           after == [next EXCEPT ![m[1]] = m[2] + 1]
<1>1. /\ committed' = committed /\ owner' = owner /\ session' = session
      /\ committed \in Offsets /\ pending[c] \in Offsets /\ next \in Offsets
      /\ inflight[c] \in Seq(Offsets) /\ inflight'[c] \in Seq(Offsets)
  BY ResumeType DEF TypeOK
<1>2. more \in Offsets
  BY <1>1, MessageParts DEF Offsets
<1>3. \/ /\ session[c] = "stable"
         /\ pending'[c] = more /\ since'[c] = since[c] + 1 /\ inflight'[c] = inflight[c]
      \/ Flush(c, more)
  BY DEF MarkConfirmed, NextOffset, TypeOK
<1>4. CASE session[c] = "stable"
  <2>1. /\ Attached(c) /\ Attached(c)' /\ ResumeAt(c)' = after /\ next[m[1]] = m[2]
    BY <1>1, <1>4 DEF Attached
  <2>2. HoldsAllOrNone(c)' /\ NothingPending(c)'
    BY <1>1, <1>4 DEF OrderInv, HoldsAllOrNone, NothingPending
  <2>3. /\ Ordered(committed, inflight[c], pending[c])
        /\ Below(committed, inflight[c], pending[c], next)
    BY <2>1 DEF OrderInv
  <2> HIDE DEF more, next, after
  <2>4. /\ after \in Offsets
        /\ Ordered(committed, inflight[c], more)
        /\ Below(committed, inflight[c], more, after)
        /\ Reaches(committed, inflight[c], pending[c], next)
             => Reaches(committed, inflight[c], more, after)
        /\ Unrequested(committed, inflight[c], after)
             \subseteq Unrequested(committed, inflight[c], next) \cup {m}
    BY <1>1, <2>1, <2>3, ConfirmOrders DEF more, after
  <2>5. CASE Flush(c, more)
    <3>1. pending'[c] = NoOffsets /\ since'[c] = 0
      BY <1>2, <2>5, FlushParts
    <3>2. /\ Ordered(committed, inflight'[c], pending'[c])
          /\ Below(committed, inflight'[c], pending'[c], after)
          /\ Reaches(committed, inflight[c], more, after)
               => Reaches(committed, inflight'[c], NoOffsets, after)
      BY <1>2, <1>4, <2>4, <2>5, FlushOrders
    <3>3. OrderInv(c)'
      BY <1>1, <2>1, <2>2, <3>2 DEF OrderInv
    <3>4. ASSUME DoneInv(c)
          PROVE  DoneInv(c)'
      <4>1. Reaches(committed, inflight'[c], NoOffsets, after)
        BY <2>1, <2>4, <3>2, <3>4 DEF DoneInv, next
      <4>2. Unrequested(committed, inflight'[c], after) = {}
        BY <1>1, <2>4, <4>1, AllRequested
      <4> QED
        BY <1>1, <2>1, <3>1, <4>1, <4>2, FS_EmptySet DEF DoneInv
    <3> QED
      BY <3>3, <3>4
  <2>6. CASE pending'[c] = more /\ since'[c] = since[c] + 1 /\ inflight'[c] = inflight[c]
    <3>1. OrderInv(c)'
      BY <1>1, <2>1, <2>2, <2>4, <2>6 DEF OrderInv
    <3>2. ASSUME DoneInv(c)
          PROVE  DoneInv(c)'
      <4> DEFINE old == Unrequested(committed, inflight[c], next)
                 new == Unrequested(committed, inflight[c], after)
      <4>1. /\ Reaches(committed, inflight[c], more, after)
            /\ IsFiniteSet(old) /\ Cardinality(old) <= since[c]
        BY <2>1, <2>4, <3>2 DEF DoneInv, next
      <4>2. new \subseteq old \cup {m}
        BY <2>4
      <4>3. since[c] \in Nat
        BY DEF TypeOK
      <4> HIDE DEF old, new
      <4>4. IsFiniteSet(new) /\ Cardinality(new) <= since[c] + 1
        <5>1. /\ IsFiniteSet(old \cup {m})
              /\ Cardinality(old \cup {m}) = IF m \in old THEN Cardinality(old) ELSE Cardinality(old) + 1
          BY <4>1, FS_AddElement
        <5>2. IsFiniteSet(new) /\ Cardinality(new) <= Cardinality(old \cup {m})
          BY <4>2, <5>1, FS_Subset
        <5>3. Cardinality(old) \in Nat /\ Cardinality(new) \in Nat
          BY <4>1, <5>2, FS_CardinalityType
        <5>4. Cardinality(old \cup {m}) <= Cardinality(old) + 1 /\ Cardinality(old \cup {m}) \in Nat
          BY <5>1, <5>3
        <5> QED
          BY <4>1, <4>3, <5>2, <5>3, <5>4
      <4>5. IsFiniteSet(new) /\ Cardinality(new) <= since'[c]
        BY <2>6, <4>4
      <4> QED
        BY <1>1, <2>1, <2>6, <4>1, <4>5 DEF DoneInv, new
    <3> QED
      BY <3>1, <3>2
  <2> QED
    BY <1>3, <2>5, <2>6
<1>5. CASE session[c] # "stable"
  <2>1. Flush(c, more)
    BY <1>3, <1>5
  <2> HIDE DEF more
  <2>2. inflight'[c] = <<>> /\ pending'[c] = NoOffsets
    BY <1>2, <1>5, <2>1, FlushParts DEF OrderInv, HoldsAllOrNone
  <2>3. HoldsAllOrNone(c)' /\ ~Attached(c)' /\ NothingPending(c)'
    BY <1>1, <1>5, <2>2 DEF OrderInv, HoldsAllOrNone, Attached, NothingPending
  <2>4. Ordered(committed', inflight'[c], pending'[c])
    BY <1>1, <2>2, NothingRequested
  <2> QED
    BY <2>3, <2>4, DetachedOrders
<1> QED
  BY <1>4, <1>5

-----------------------------------------------------------------------------
(* The steps of the message loop that finish a message, or take one in hand. *)
LEMMA SolePoll ==
    ASSUME IInv, IInv', NEW c \in Consumers, Sole(c), OrderInv(c), Poll(c)
    PROVE  OrderInv(c)' /\ (DoneInv(c) => DoneInv(c)')
<1>1. PICK m \in Messages : \/ PollReject(c, m) \/ PollOverflow(c, m) \/ PollRaises(c, m)
                            \/ PollDuplicate(c, m) \/ PollNew(c, m)
  BY DEF Poll
<1>2. TypeOK /\ TypeOK'
  BY DEF IInv
<1>3. m[1] \in Partitions /\ m[2] \in Nat /\ c # NoOne /\ m # NoMessage
  BY MessageParts, ConstantsAssumption
<1>4. pc[c] = "poll" /\ owner[m[1]] = c /\ position[m[1]] = m[2] /\ cur[c] = NoMessage
  BY <1>1 DEF PollReject, PollOverflow, PollRaises, PollDuplicate, PollNew, Polled, IInv, HandsEmpty
<1>5. session[c] = "stable"
  BY <1>3, <1>4 DEF OrderInv, HoldsAllOrNone
<1>6. ASSUME Advance(m)
      PROVE  \A p \in Partitions : position'[p] = IF p = m[1] THEN m[2] + 1 ELSE position[p]
  BY <1>2, <1>6 DEF Advance, TypeOK, Offsets
<1>7. CASE PollReject(c, m) \/ PollDuplicate(c, m)
  <2>1. /\ MarkConfirmed(c, m) /\ Advance(m)
        /\ committed' = committed /\ owner' = owner /\ session' = session /\ pc' = pc /\ cur' = cur
    BY <1>7 DEF PollReject, PollDuplicate
  <2>2. /\ ResumeAt(c)[m[1]] = m[2]
        /\ ResumeAt(c)' = [ResumeAt(c) EXCEPT ![m[1]] = m[2] + 1]
    <3>1. \A p \in Partitions : Resume(c, p) = position[p]
      BY <1>4 DEF Resume
    <3>2. \A p \in Partitions : Resume(c, p)' = position'[p]
      BY <1>4, <2>1 DEF Resume
    <3> QED
      BY <1>3, <1>4, <1>6, <2>1, <3>1, <3>2 DEF ResumeAt
  <2>3. pc[c] # "down" /\ pc'[c] = "poll"
    BY <1>4, <2>1
  <2> QED
    BY <1>2, <2>1, <2>2, <2>3, ConfirmedOrders
<1>8. CASE PollOverflow(c, m) \/ PollRaises(c, m)
  <2>1. Dies(c)
    BY <1>8 DEF PollOverflow, PollRaises
  <2>2. UNCHANGED groupVars /\ pc'[c] = "down" /\ pending'[c] = NoOffsets
    BY <1>2, <2>1 DEF Dies, LoseMemory, TypeOK
  <2>3. HoldsAllOrNone(c)' /\ ~Attached(c)' /\ NothingPending(c)'
    BY <2>2 DEF groupVars, OrderInv, HoldsAllOrNone, Attached, NothingPending
  <2>4. Ordered(committed', inflight'[c], pending'[c])
    BY <2>2, ForgettingOrders DEF groupVars, OrderInv
  <2> QED
    BY <1>2, <2>3, <2>4, DetachedOrders
<1>9. CASE PollNew(c, m)
  <2>1. /\ UNCHANGED <<groupVars, pending, since>> /\ Advance(m)
        /\ pc'[c] = "inserting" /\ cur'[c] = m
    BY <1>2, <1>9 DEF PollNew, TypeOK
  <2>2. ResumeAt(c)' = ResumeAt(c)
    <3>1. \A p \in Partitions : Resume(c, p)' = Resume(c, p)
      BY <1>3, <1>4, <1>6, <2>1 DEF Resume
    <3> QED
      BY <3>1 DEF ResumeAt
  <2>3. Attached(c)' = Attached(c) /\ NothingPending(c)'
    BY <1>4, <2>1 DEF groupVars, Attached, NothingPending
  <2>4. committed' = committed /\ owner' = owner /\ session' = session /\ inflight' = inflight
        /\ pending' = pending /\ since' = since
    BY <2>1 DEF groupVars
  <2> QED
    BY <2>2, <2>3, <2>4 DEF OrderInv, DoneInv, HoldsAllOrNone
<1> QED
  BY <1>1, <1>7, <1>8, <1>9

LEMMA SoleInsert ==
    ASSUME IInv, IInv', NEW c \in Consumers, Sole(c), OrderInv(c), Insert(c)
    PROVE  OrderInv(c)' /\ (DoneInv(c) => DoneInv(c)')
<1>1. PICK m \in Messages : InsertSucceeds(c, m) \/ InsertRetries(c, m) \/ InsertGivesUp(c, m)
  BY DEF Insert
<1>2. TypeOK /\ TypeOK'
  BY DEF IInv
<1>3. m[1] \in Partitions /\ m[2] \in Nat /\ m # NoMessage
  BY MessageParts
<1>4. pc[c] = "inserting" /\ cur[c] = m
  BY <1>1 DEF InsertSucceeds, InsertRetries, InsertGivesUp, AttemptFails
<1>5. CASE InsertSucceeds(c, m)
  <2>1. /\ MarkConfirmed(c, m)
        /\ committed' = committed /\ owner' = owner /\ session' = session /\ position' = position
        /\ pc'[c] = "poll" /\ cur'[c] = NoMessage
    BY <1>2, <1>5 DEF InsertSucceeds, TypeOK
  <2>2. ASSUME session[c] = "stable"
        PROVE  /\ ResumeAt(c)[m[1]] = m[2]
               /\ ResumeAt(c)' = [ResumeAt(c) EXCEPT ![m[1]] = m[2] + 1]
    <3>1. position[m[1]] = m[2] + 1
      BY <1>3, <1>4, <2>2 DEF OrderInv, HoldsAllOrNone, IInv, HandInOrder
    <3>2. \A p \in Partitions : Resume(c, p) = IF p = m[1] THEN m[2] ELSE position[p]
      BY <1>3, <1>4 DEF Resume
    <3>3. \A p \in Partitions : Resume(c, p)' = position[p]
      BY <2>1 DEF Resume
    <3> QED
      BY <1>3, <3>1, <3>2, <3>3 DEF ResumeAt
  <2>3. pc[c] # "down"
    BY <1>4
  <2> QED
    BY <1>2, <2>1, <2>2, <2>3, ConfirmedOrders
<1>6. CASE InsertRetries(c, m)
  <2>1. UNCHANGED groupVars /\ UNCHANGED <<position, cur, pending>> /\ pc' = pc /\ since' = since
    BY <1>6 DEF InsertRetries
  <2>2. NothingPending(c)'
    BY <1>4, <2>1 DEF NothingPending
  <2> QED
    BY <1>2, <2>1, <2>2, QuietOrders
<1>7. CASE InsertGivesUp(c, m)
  <2>1. /\ Flush(c, pending[c]) /\ UNCHANGED <<committed, owner, session, position, cur>>
    BY <1>7 DEF InsertGivesUp
  <2> QED
    BY <1>2, <1>4, <2>1, FlushedOrders
<1> QED
  BY <1>1, <1>5, <1>6, <1>7

(* The instance leaves the group, or is taken out of it; a message may still *)
(* be in its hand.                                                           *)
LEMMA SoleLeaves ==
    ASSUME IInv, IInv', NEW c \in Consumers, Sole(c), OrderInv(c), LeaveGroup(c),
           UNCHANGED committed,
           \/ pending'[c] = NoOffsets
           \/ pc'[c] = "inserting" /\ UNCHANGED pending
    PROVE  OrderInv(c)' /\ DoneInv(c)'
<1>1. TypeOK /\ TypeOK'
  BY DEF IInv
<1>2. session'[c] = "none" /\ inflight'[c] = <<>>
  BY <1>1 DEF LeaveGroup, TypeOK
<1>3. \A p \in Partitions : owner'[p] = NoOne
  BY <1>1 DEF LeaveGroup, TypeOK, Sole
<1>4. HoldsAllOrNone(c)' /\ ~Attached(c)' /\ NothingPending(c)'
  BY <1>2, <1>3 DEF HoldsAllOrNone, Attached, NothingPending
<1>5. Ordered(committed', inflight'[c], pending'[c])
  <2>1. Rises(committed, <<>>)
    BY DEF Rises
  <2>2. CASE pending'[c] = NoOffsets
    BY <1>1, <1>2, <2>2, NothingRequested DEF TypeOK
  <2>3. CASE UNCHANGED pending
    <3>1. Above(committed, <<>>, pending[c])
      BY DEF OrderInv, Ordered, Above
    <3> QED
      BY <1>2, <2>1, <2>3, <3>1 DEF Ordered
  <2> QED
    BY <2>2, <2>3
<1> QED
  BY <1>1, <1>4, <1>5, DetachedOrders

LEMMA SoleProcess ==
    ASSUME IInv, IInv', NEW c \in Consumers, Sole(c), OrderInv(c),
           \/ Start(c) \/ ConnectSucceeds(c) \/ ConnectGivesUp(c)
           \/ IdleFlush(c) \/ IdlePoll(c) \/ Stop(c) \/ Exit(c) \/ Crash(c)
    PROVE  OrderInv(c)' /\ (DoneInv(c) => DoneInv(c)')
<1>1. TypeOK /\ TypeOK'
  BY DEF IInv
<1>2. CASE Start(c)
  <2>1. /\ session[c] = "none" /\ session'[c] = "joining" /\ pc[c] = "down"
        /\ UNCHANGED <<committed, owner, inflight, pending>>
    BY <1>1, <1>2 DEF Start, memoryVars, TypeOK
  <2>2. HoldsAllOrNone(c)' /\ ~Attached(c)'
    BY <2>1 DEF OrderInv, HoldsAllOrNone, Attached
  <2>3. NothingPending(c)' /\ Ordered(committed', inflight'[c], pending'[c])
    BY <2>1 DEF OrderInv, NothingPending
  <2> QED
    BY <1>1, <2>2, <2>3, DetachedOrders
<1>3. CASE ConnectSucceeds(c)
  <2>1. /\ UNCHANGED groupVars /\ UNCHANGED <<position, cur, pending>> /\ since' = since
        /\ pc[c] = "connecting" /\ pc'[c] = "poll"
    BY <1>1, <1>3 DEF ConnectSucceeds, TypeOK
  <2>2. NothingPending(c)'
    BY <2>1 DEF OrderInv, NothingPending
  <2> QED
    BY <1>1, <2>1, <2>2, QuietOrders
<1>4. CASE ConnectGivesUp(c) \/ Exit(c)
  <2>1. LeaveGroup(c) /\ UNCHANGED committed /\ pending'[c] = NoOffsets
    BY <1>1, <1>4 DEF ConnectGivesUp, Exit, LoseMemory, TypeOK
  <2> QED
    BY <2>1, SoleLeaves
<1>5. CASE IdleFlush(c) \/ Stop(c)
  <2>1. Flush(c, pending[c]) /\ UNCHANGED <<committed, owner, session, position, cur>> /\ pc[c] = "poll"
    BY <1>5 DEF IdleFlush, Stop
  <2> QED
    BY <1>1, <2>1, FlushedOrders
<1>6. CASE IdlePoll(c)
  <2>1. UNCHANGED groupVars /\ UNCHANGED <<position, cur, pending>> /\ since' = since /\ pc' = pc
    BY <1>6 DEF IdlePoll, vars, memoryVars
  <2>2. NothingPending(c)'
    BY <2>1 DEF groupVars, OrderInv, NothingPending
  <2> QED
    BY <1>1, <2>1, <2>2, QuietOrders
<1>7. CASE Crash(c)
  <2>1. Dies(c)
    BY <1>7 DEF Crash
  <2>2. UNCHANGED groupVars /\ pc'[c] = "down" /\ pending'[c] = NoOffsets
    BY <1>1, <2>1 DEF Dies, LoseMemory, TypeOK
  <2>3. HoldsAllOrNone(c)' /\ ~Attached(c)' /\ NothingPending(c)'
    BY <2>2 DEF groupVars, OrderInv, HoldsAllOrNone, Attached, NothingPending
  <2>4. Ordered(committed', inflight'[c], pending'[c])
    BY <2>2, ForgettingOrders DEF groupVars, OrderInv
  <2> QED
    BY <1>1, <2>3, <2>4, DetachedOrders
<1> QED
  BY <1>2, <1>3, <1>4, <1>5, <1>6, <1>7

(* The broker stores a request, which supersedes what it had.                *)
LEMMA SoleLands ==
    ASSUME IInv, IInv', NEW c \in Consumers, Sole(c), OrderInv(c), CommitLands(c)
    PROVE  /\ OrderInv(c)' /\ (DoneInv(c) => DoneInv(c)')
           /\ \A p \in Partitions : committed[p] <= committed'[p]
<1>1. TypeOK /\ TypeOK'
  BY DEF IInv
<1> DEFINE queue == inflight[c]
           next == ResumeAt(c)
           then == Stored(committed, Head(queue))
<1>2. /\ queue # <<>> /\ committed' = then /\ inflight'[c] = Tail(queue)
      /\ UNCHANGED <<owner, session, pc, position, cur, pending, since>>
  BY <1>1 DEF CommitLands, Stored, memoryVars, TypeOK
<1>3. /\ committed \in Offsets /\ queue \in Seq(Offsets) /\ pending[c] \in Offsets
      /\ next \in Offsets /\ Tail(queue) \in Seq(Offsets)
  BY <1>1, <1>2, ResumeType, TailParts DEF TypeOK
<1>4. ResumeAt(c)' = next /\ Attached(c)' = Attached(c)
  BY <1>2 DEF ResumeAt, Resume, Attached
<1>5. session[c] = "stable"
  BY <1>2 DEF OrderInv, HoldsAllOrNone
<1>6. HoldsAllOrNone(c)' /\ NothingPending(c)'
  BY <1>2, <1>5 DEF OrderInv, HoldsAllOrNone, NothingPending
<1>7. Ordered(committed, queue, pending[c])
  BY DEF OrderInv
<1> HIDE DEF queue, next, then
<1>8. /\ Ordered(then, Tail(queue), pending[c])
      /\ \A p \in Partitions : committed[p] <= then[p]
  BY <1>2, <1>3, <1>7, LandOrders DEF then
<1>9. ASSUME Attached(c)
      PROVE  /\ Below(committed, queue, pending[c], next)
             /\ Below(then, Tail(queue), pending[c], next)
             /\ Reaches(committed, queue, pending[c], next)
                  => Reaches(then, Tail(queue), pending[c], next)
             /\ Unrequested(then, Tail(queue), next) \subseteq Unrequested(committed, queue, next)
  <2>1. Below(committed, queue, pending[c], next)
    BY <1>9 DEF OrderInv, queue, next
  <2> QED
    BY <1>2, <1>3, <1>7, <2>1, LandReaches DEF then
<1>10. OrderInv(c)'
  BY <1>2, <1>4, <1>6, <1>8, <1>9 DEF OrderInv
<1>11. ASSUME DoneInv(c), Attached(c)
       PROVE  /\ Reaches(then, Tail(queue), pending[c], next)
              /\ IsFiniteSet(Unrequested(then, Tail(queue), next))
              /\ Cardinality(Unrequested(then, Tail(queue), next)) <= since[c]
  <2> DEFINE old == Unrequested(committed, queue, next)
             new == Unrequested(then, Tail(queue), next)
  <2>1. Reaches(committed, queue, pending[c], next) /\ IsFiniteSet(old) /\ Cardinality(old) <= since[c]
    BY <1>11 DEF DoneInv, queue, next
  <2>2. new \subseteq old
    BY <1>9, <1>11
  <2>3. since[c] \in Nat
    BY <1>1 DEF TypeOK
  <2> HIDE DEF old, new
  <2>4. IsFiniteSet(new) /\ Cardinality(new) <= Cardinality(old)
    BY <2>1, <2>2, FS_Subset
  <2>5. Cardinality(old) \in Nat /\ Cardinality(new) \in Nat
    BY <2>1, <2>4, FS_CardinalityType
  <2>6. Cardinality(new) <= since[c]
    BY <2>1, <2>3, <2>4, <2>5
  <2> QED
    BY <1>9, <1>11, <2>1, <2>4, <2>6 DEF new
<1>12. DoneInv(c) => DoneInv(c)'
  BY <1>2, <1>4, <1>11 DEF DoneInv
<1> QED
  BY <1>2, <1>8, <1>10, <1>12

LEMMA SoleKafka ==
    ASSUME IInv, IInv', NEW c \in Consumers, Sole(c), OrderInv(c),
           \/ SessionTimeout(c) \/ Evict(c) \/ Rejoin(c)
           \/ DlqDelivered(c) \/ DlqDeliveryFails(c)
    PROVE  OrderInv(c)' /\ (DoneInv(c) => DoneInv(c)')
<1>1. TypeOK /\ TypeOK'
  BY DEF IInv
<1>2. CASE SessionTimeout(c) \/ Evict(c)
  <2>1. LeaveGroup(c) /\ UNCHANGED committed /\ UNCHANGED pending
    BY <1>2 DEF SessionTimeout, Evict, memoryVars
  <2>2. pending'[c] = NoOffsets \/ pc'[c] = "inserting"
    BY <1>2, <2>1 DEF SessionTimeout, Evict, OrderInv, NothingPending
  <2> QED
    BY <2>1, <2>2, SoleLeaves
<1>3. CASE Rejoin(c)
  <2>1. /\ session[c] = "none" /\ session'[c] = "joining" /\ pc[c] = "poll"
        /\ UNCHANGED <<committed, owner, inflight, pending>>
    BY <1>1, <1>3 DEF Rejoin, memoryVars, TypeOK
  <2>2. HoldsAllOrNone(c)' /\ ~Attached(c)'
    BY <2>1 DEF OrderInv, HoldsAllOrNone, Attached
  <2>3. NothingPending(c)' /\ Ordered(committed', inflight'[c], pending'[c])
    BY <2>1 DEF OrderInv, NothingPending
  <2> QED
    BY <1>1, <2>2, <2>3, DetachedOrders
<1>4. CASE DlqDelivered(c) \/ DlqDeliveryFails(c)
  <2>1. UNCHANGED groupVars /\ UNCHANGED <<position, cur, pending>> /\ since' = since /\ pc' = pc
    BY <1>4 DEF DlqDelivered, DlqDeliveryFails, memoryVars
  <2>2. NothingPending(c)'
    BY <2>1 DEF groupVars, OrderInv, NothingPending
  <2> QED
    BY <1>1, <2>1, <2>2, QuietOrders
<1> QED
  BY <1>2, <1>3, <1>4

(* A commit that fails takes a request away, and what it asked for is        *)
(* forgotten until a later message of the partition.                         *)
LEMMA SoleCommitFails ==
    ASSUME IInv, IInv', NEW c \in Consumers, Sole(c), OrderInv(c), CommitFails(c)
    PROVE  OrderInv(c)'
<1>1. TypeOK /\ TypeOK'
  BY DEF IInv
<1>2. /\ inflight[c] # <<>> /\ inflight'[c] = Tail(inflight[c])
      /\ UNCHANGED <<committed, owner, session, pc, position, cur, pending>>
  BY <1>1 DEF CommitFails, memoryVars, TypeOK
<1>3. /\ committed \in Offsets /\ inflight[c] \in Seq(Offsets) /\ pending[c] \in Offsets
      /\ ResumeAt(c) \in Offsets
  BY <1>1, ResumeType DEF TypeOK
<1>4. ResumeAt(c)' = ResumeAt(c) /\ Attached(c)' = Attached(c)
  BY <1>2 DEF ResumeAt, Resume, Attached
<1>5. session[c] = "stable"
  BY <1>2 DEF OrderInv, HoldsAllOrNone
<1>6. HoldsAllOrNone(c)' /\ NothingPending(c)'
  BY <1>2, <1>5 DEF OrderInv, HoldsAllOrNone, NothingPending
<1>7. Ordered(committed, inflight[c], pending[c])
  BY DEF OrderInv
<1>8. /\ Ordered(committed, Tail(inflight[c]), pending[c])
      /\ \A next \in Offsets :
            Below(committed, inflight[c], pending[c], next)
              => Below(committed, Tail(inflight[c]), pending[c], next)
  BY <1>2, <1>3, <1>7, DropOrders
<1> QED
  BY <1>2, <1>3, <1>4, <1>6, <1>8 DEF OrderInv

(* The instance is given all partitions, from what is committed.             *)
LEMMA SoleRebalance ==
    ASSUME IInv, IInv', NEW c \in Consumers, Sole(c), OrderInv(c), Rebalance
    PROVE  OrderInv(c)' /\ DoneInv(c)'
<1>1. TypeOK /\ TypeOK'
  BY DEF IInv
<1>2. Members = {c}
  BY DEF Rebalance, Members, Sole
<1>3. /\ pc[c] \in {"connecting", "poll"} /\ inflight[c] = <<>>
      /\ session'[c] = "stable" /\ position' = committed
      /\ UNCHANGED <<committed, inflight, pc, cur, pending, since>>
  BY <1>2 DEF Rebalance, memoryVars
<1>4. \A p \in Partitions : owner'[p] = c
  BY <1>2 DEF Rebalance, Assignments
<1>5. cur[c] = NoMessage
  BY <1>3 DEF IInv, HandsEmpty
<1>6. ResumeAt(c)' = committed
  <2>1. \A p \in Partitions : Resume(c, p)' = committed[p]
    BY <1>3, <1>5 DEF Resume
  <2> QED
    BY <1>1, <2>1 DEF ResumeAt, TypeOK, Offsets
<1>7. pending[c] = NoOffsets
  <2>1. CASE session[c] # "stable"
    BY <1>3, <2>1 DEF OrderInv, NothingPending
  <2>2. CASE session[c] = "stable"
    <3>1. \A p \in Partitions : owner[p] = c
      BY <2>2 DEF OrderInv, HoldsAllOrNone
    <3>2. c # NoOne
      BY ConstantsAssumption
    <3> QED
      BY <1>2, <2>2, <3>1, <3>2 DEF Rebalance
  <2> QED
    BY <2>1, <2>2
<1>8. HoldsAllOrNone(c)' /\ NothingPending(c)'
  BY <1>3, <1>4, <1>7 DEF HoldsAllOrNone, NothingPending
<1>9. committed \in Offsets /\ since[c] \in Nat
  BY <1>1 DEF TypeOK
<1>10. /\ Ordered(committed, <<>>, NoOffsets)
       /\ Below(committed, <<>>, NoOffsets, committed)
       /\ Reaches(committed, <<>>, NoOffsets, committed)
  BY <1>9, NothingRequested
<1>11. /\ IsFiniteSet(Unrequested(committed, <<>>, committed))
       /\ Cardinality(Unrequested(committed, <<>>, committed)) <= since[c]
  <2> DEFINE new == Unrequested(committed, <<>>, committed)
  <2>1. <<>> \in Seq(Offsets)
    OBVIOUS
  <2>2. new = {}
    BY <1>9, <1>10, <2>1, AllRequested
  <2> HIDE DEF new
  <2>3. IsFiniteSet(new) /\ Cardinality(new) = 0
    BY <2>2, FS_EmptySet
  <2>4. Cardinality(new) <= since[c]
    BY <1>9, <2>3
  <2> QED
    BY <2>3, <2>4 DEF new
<1> QED
  BY <1>3, <1>6, <1>7, <1>8, <1>10, <1>11 DEF OrderInv, DoneInv

LEMMA SoleDatabase ==
    ASSUME IInv, NEW c \in Consumers, OrderInv(c), DbStops \/ DbStarts \/ UNCHANGED vars
    PROVE  OrderInv(c)' /\ (DoneInv(c) => DoneInv(c)')
<1>1. TypeOK
  BY DEF IInv
<1>2. UNCHANGED groupVars /\ UNCHANGED <<position, cur, pending>> /\ since' = since /\ pc' = pc
  BY DEF DbStops, DbStarts, vars, memoryVars
<1>3. NothingPending(c)'
  BY <1>2 DEF groupVars, OrderInv, NothingPending
<1> QED
  BY <1>1, <1>2, <1>3, QuietOrders

LEMMA SoleStep ==
    ASSUME IInv, IInv', NEW c \in Consumers, Sole(c), OrderInv(c), [Next]_vars
    PROVE  /\ OrderInv(c)'
           /\ DoneInv(c) /\ "commit" \notin FaultKinds => DoneInv(c)'
<1>1. CASE \E d \in Consumers : Poll(d) \/ Insert(d)
  BY <1>1, SolePoll, SoleInsert DEF Sole
<1>2. CASE \E d \in Consumers :
             \/ Start(d) \/ ConnectSucceeds(d) \/ ConnectGivesUp(d)
             \/ IdleFlush(d) \/ IdlePoll(d) \/ Stop(d) \/ Exit(d) \/ Crash(d)
  BY <1>2, SoleProcess DEF Sole
<1>3. CASE \E d \in Consumers : CommitLands(d)
  BY <1>3, SoleLands DEF Sole
<1>4. CASE \E d \in Consumers :
             \/ SessionTimeout(d) \/ Evict(d) \/ Rejoin(d)
             \/ DlqDelivered(d) \/ DlqDeliveryFails(d)
  BY <1>4, SoleKafka DEF Sole
<1>5. CASE \E d \in Consumers : CommitFails(d)
  BY <1>5, SoleCommitFails DEF Sole, CommitFails, Fault
<1>6. CASE Rebalance
  BY <1>6, SoleRebalance
<1>7. CASE DbStops \/ DbStarts \/ UNCHANGED vars
  BY <1>7, SoleDatabase
<1> QED
  BY <1>1, <1>2, <1>3, <1>4, <1>5, <1>6, <1>7 DEF Next

LEMMA SoleInit ==
    ASSUME Init, NEW c \in Consumers
    PROVE  OrderInv(c) /\ DoneInv(c)
<1>1. /\ pc[c] = "down" /\ session[c] = "none" /\ inflight[c] = <<>> /\ pending[c] = NoOffsets
      /\ \A p \in Partitions : owner[p] = NoOne
      /\ committed = NoOffsets
  BY DEF Init
<1>2. Ordered(committed, inflight[c], pending[c])
  BY <1>1, NoOffsetsType, NothingRequested
<1> QED
  BY <1>1, <1>2 DEF OrderInv, DoneInv, HoldsAllOrNone, NothingPending, Attached

-----------------------------------------------------------------------------
(***************************************************************************)
(* What a group of one commits.                                             *)
(***************************************************************************)
LEMMA OrderInvariance ==
    ASSUME NEW c, Sole(c)
    PROVE  Spec => []OrderInv(c)
<1>1. c \in Consumers
  BY DEF Sole
<1>2. Init => OrderInv(c)
  BY <1>1, SoleInit
<1>3. IInv /\ IInv' /\ OrderInv(c) /\ [Next]_vars => OrderInv(c)'
  BY <1>1, SoleStep
<1> QED
  BY <1>2, <1>3, Invariance, PTL DEF Spec

LEMMA DoneInvariance ==
    ASSUME NEW c, Sole(c), "commit" \notin FaultKinds
    PROVE  Spec => []DoneInv(c)
<1>1. c \in Consumers
  BY DEF Sole
<1>2. Init => DoneInv(c)
  BY <1>1, SoleInit
<1>3. IInv /\ IInv' /\ OrderInv(c) /\ DoneInv(c) /\ [Next]_vars => DoneInv(c)'
  BY <1>1, SoleStep
<1> QED
  BY <1>2, <1>3, OrderInvariance, Invariance, PTL DEF Spec

(* A single instance never takes a committed offset back, although requests  *)
(* are asynchronous, may fail, and may land after a crash (main.py 229-236). *)
THEOREM CommitsIncrease ==
    ASSUME NEW c, Sole(c)
    PROVE  Spec => CommittedMonotonic
<1>1. c \in Consumers
  BY DEF Sole
<1>2. IInv /\ IInv' /\ OrderInv(c) /\ [Next]_vars
        => [\A p \in Partitions : committed[p] <= committed'[p]]_vars
  <2> SUFFICES ASSUME IInv, IInv', OrderInv(c), Next
               PROVE  \A p \in Partitions : committed[p] <= committed'[p]
    OBVIOUS
  <2>1. CASE \E d \in Consumers : CommitLands(d)
    BY <1>1, <2>1, SoleLands DEF Sole
  <2>2. CASE UNCHANGED committed
    BY <2>2 DEF IInv, TypeOK, Offsets
  <2>3. CASE \E d \in Consumers : Poll(d) \/ Insert(d)
    BY <2>2, <2>3 DEF Poll, PollReject, PollOverflow, PollRaises, PollDuplicate, PollNew, Dies,
       Insert, InsertSucceeds, InsertRetries, InsertGivesUp, groupVars
  <2>4. CASE \E d \in Consumers :
               \/ Start(d) \/ ConnectSucceeds(d) \/ ConnectGivesUp(d) \/ IdleFlush(d)
               \/ IdlePoll(d) \/ Stop(d) \/ Exit(d) \/ Crash(d)
    BY <2>2, <2>4 DEF Start, ConnectSucceeds, ConnectGivesUp, IdleFlush, IdlePoll, Stop, Exit,
       Crash, Dies, groupVars, vars
  <2>5. CASE \E d \in Consumers :
               \/ SessionTimeout(d) \/ Evict(d) \/ Rejoin(d) \/ CommitFails(d)
               \/ DlqDelivered(d) \/ DlqDeliveryFails(d)
    BY <2>2, <2>5 DEF SessionTimeout, Evict, Rejoin, CommitFails, DlqDelivered, DlqDeliveryFails,
       groupVars
  <2>6. CASE Rebalance \/ DbStops \/ DbStarts
    BY <2>2, <2>6 DEF Rebalance, DbStops, DbStarts, groupVars
  <2> QED
    BY <2>1, <2>3, <2>4, <2>5, <2>6 DEF Next
<1> QED
  BY <1>2, OrderInvariance, Invariance, PTL DEF Spec, CommittedMonotonic

(* With nothing pending and nothing on the wire, what is finished is         *)
(* committed.                                                                *)
LEMMA QuiescentCommitted ==
    ASSUME IInv, NEW c \in Consumers, OrderInv(c), DoneInv(c),
           pc[c] # "down", pending[c] = NoOffsets, inflight[c] = <<>>,
           NEW p \in Owned(c)
    PROVE  committed[p] = Resume(c, p)
<1>1. p \in Partitions /\ owner[p] = c /\ c # NoOne
  BY ConstantsAssumption DEF Owned
<1>2. Attached(c)
  BY <1>1 DEF Attached, OrderInv, HoldsAllOrNone
<1>3. ResumeAt(c)[p] = Resume(c, p) /\ ResumeAt(c) \in Offsets /\ committed \in Offsets
  BY <1>1, ResumeType DEF ResumeAt, IInv, TypeOK
<1>4. committed[p] <= ResumeAt(c)[p]
  BY <1>1, <1>2 DEF OrderInv, Below
<1>5. committed[p] = ResumeAt(c)[p] \/ 0 = ResumeAt(c)[p]
  BY <1>1, <1>2 DEF DoneInv, Reaches, NoOffsets
<1>6. committed[p] \in Nat /\ ResumeAt(c)[p] \in Nat
  BY <1>1, <1>3 DEF Offsets
<1> QED
  BY <1>3, <1>4, <1>5, <1>6

(* A single instance whose commits are answered has committed all it has     *)
(* finished once nothing is pending and nothing on the wire (main.py         *)
(* 229-243).                                                                 *)
THEOREM NothingForgotten ==
    ASSUME NEW c, Sole(c), "commit" \notin FaultKinds
    PROVE  Spec => []QuiescentMeansCommitted
<1>1. Consumers = {c}
  BY DEF Sole
<1>2. IInv /\ OrderInv(c) /\ DoneInv(c) => QuiescentMeansCommitted
  BY <1>1, QuiescentCommitted DEF QuiescentMeansCommitted
<1> QED
  BY <1>2, OrderInvariance, DoneInvariance, Invariance, PTL

(* A single instance that dies with nothing on the wire has less than a      *)
(* batch of finished messages redelivered, on all its partitions together    *)
(* (main.py 213-223, 249-256).                                               *)
THEOREM RedeliveryIsBounded ==
    ASSUME NEW c, Sole(c), "commit" \notin FaultKinds
    PROVE  Spec => []RedeliveryBounded
<1>1. Consumers = {c} /\ c \in Consumers
  BY DEF Sole
<1>2. IInv /\ OrderInv(c) /\ DoneInv(c) => RedeliveryBounded
  <2> DEFINE again == { m \in Messages : /\ owner[m[1]] = c
                                         /\ committed[m[1]] <= m[2]
                                         /\ m[2] < Resume(c, m[1]) }
  <2> SUFFICES ASSUME IInv, OrderInv(c), DoneInv(c), inflight[c] = <<>>, pc[c] # "down"
               PROVE  Cardinality(again) < CommitBatchSize
    BY <1>1 DEF RedeliveryBounded, Redelivered
  <2>1. since[c] \in 0 .. CommitBatchSize - 1 /\ CommitBatchSize \in Nat \ {0} /\ c # NoOne
    BY <1>1, ConstantsAssumption DEF IInv, TypeOK
  <2>2. CASE session[c] = "stable"
    <3>1. Attached(c) /\ \A p \in Partitions : owner[p] = c
      BY <2>2 DEF Attached, OrderInv, HoldsAllOrNone
    <3>2. again = Unrequested(committed, inflight[c], ResumeAt(c))
      <4>1. \A m \in Messages : owner[m[1]] = c /\ ResumeAt(c)[m[1]] = Resume(c, m[1])
        BY <3>1, MessageParts DEF ResumeAt
      <4> QED
        BY <4>1 DEF Unrequested
    <3> HIDE DEF again
    <3>3. IsFiniteSet(again) /\ Cardinality(again) <= since[c]
      BY <3>1, <3>2 DEF DoneInv
    <3>4. Cardinality(again) \in Nat
      BY <3>3, FS_CardinalityType
    <3> QED
      BY <2>1, <3>3, <3>4
  <2>3. CASE session[c] # "stable"
    <3>1. again = {}
      BY <2>1, <2>3, MessageParts DEF OrderInv, HoldsAllOrNone
    <3> HIDE DEF again
    <3>2. Cardinality(again) = 0
      BY <3>1, FS_EmptySet
    <3> QED
      BY <2>1, <3>2
  <2> QED
    BY <2>2, <2>3
<1> QED
  BY <1>2, OrderInvariance, DoneInvariance, Invariance, PTL

(* A single instance that leaves its loop and closes, after a signal or      *)
(* after giving a message up, has committed exactly what it had finished     *)
(* (main.py 345-362, 402-420).                                               *)
THEOREM ExitCommits ==
    ASSUME NEW c, Sole(c), "commit" \notin FaultKinds
    PROVE  Spec => ExitCommitsWhatIsDone
<1>1. Consumers = {c} /\ c \in Consumers
  BY DEF Sole
<1>2. IInv /\ OrderInv(c) /\ DoneInv(c) => ExitsWithAllCommitted
  <2> SUFFICES ASSUME IInv, OrderInv(c), DoneInv(c), Exit(c), NEW p \in Owned(c)
               PROVE  committed[p] = Resume(c, p)
    BY <1>1 DEF ExitsWithAllCommitted
  <2>1. pc[c] = "closing" /\ inflight[c] = <<>> /\ pending[c] = NoOffsets
    BY DEF Exit, OrderInv, NothingPending
  <2> QED
    BY <1>1, <2>1, QuiescentCommitted
<1> QED
  BY <1>2, OrderInvariance, DoneInvariance, Invariance, PTL DEF Spec, ExitCommitsWhatIsDone
=============================================================================
