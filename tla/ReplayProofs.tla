----------------------------- MODULE ReplayProofs -----------------------------
(***************************************************************************)
(* Replay, for every number of messages, replays and faults: the inductive  *)
(* invariant IInv, and what it says of commits, counts and the DLQ.         *)
(***************************************************************************)
EXTENDS Replay, SequenceTheorems, FunctionTheorems, FiniteSetTheorems, TLAPS

-----------------------------------------------------------------------------
(***************************************************************************)
(* Counting in sequences.                                                   *)
(***************************************************************************)

(* The places that are counted are finitely many. *)
LEMMA PlacesFinite ==
    ASSUME NEW S, NEW s \in Seq(S), NEW X
    PROVE  /\ IsFiniteSet({ i \in 1 .. Len(s) : s[i] \in X })
           /\ Hits(X, s) \in Nat
<1>1. IsFiniteSet(1 .. Len(s))
  BY FS_Interval
<1>2. IsFiniteSet({ i \in 1 .. Len(s) : s[i] \in X })
  BY <1>1, FS_Subset
<1> QED
  BY <1>2, FS_CardinalityType DEF Hits

LEMMA HitsNone ==
    ASSUME NEW S, NEW s \in Seq(S), NEW X, \A i \in 1 .. Len(s) : s[i] \notin X
    PROVE  Hits(X, s) = 0
<1>1. { i \in 1 .. Len(s) : s[i] \in X } = {}
  OBVIOUS
<1> QED
  BY <1>1, FS_EmptySet DEF Hits

LEMMA HitsEmpty == ASSUME NEW X PROVE Hits(X, <<>>) = 0
<1>1. { i \in 1 .. Len(<<>>) : <<>>[i] \in X } = {}
  OBVIOUS
<1> QED
  BY <1>1, FS_EmptySet DEF Hits

One(x, X) == IF x \in X THEN 1 ELSE 0

LEMMA OneValue ==
    ASSUME NEW X, NEW x
    PROVE  One(x, X) \in Nat /\ (x \in X => One(x, X) = 1) /\ (x \notin X => One(x, X) = 0)
  BY DEF One

LEMMA HitsOne ==
    ASSUME NEW X, NEW x
    PROVE  Hits(X, <<x>>) = One(x, X)
<1>1. { i \in 1 .. Len(<<x>>) : <<x>>[i] \in X } = IF x \in X THEN {1} ELSE {}
  OBVIOUS
<1> QED
  BY <1>1, FS_EmptySet, FS_Singleton DEF Hits, One

(* The hits of the second part are those behind the first. *)
LEMMA HitsConcat ==
    ASSUME NEW S, NEW s \in Seq(S), NEW t \in Seq(S), NEW X
    PROVE  Hits(X, s \o t) = Hits(X, s) + Hits(X, t)
<1> DEFINE A == { i \in 1 .. Len(s) : s[i] \in X }
           B == { i \in 1 .. Len(t) : t[i] \in X }
           C == { i \in 1 .. Len(s \o t) : (s \o t)[i] \in X }
           D == { i \in C : i > Len(s) }
<1>1. /\ s \o t \in Seq(S)
      /\ Len(s \o t) = Len(s) + Len(t)
      /\ \A i \in 1 .. Len(s) + Len(t) : (s \o t)[i] =
             IF i <= Len(s) THEN s[i] ELSE t[i - Len(s)]
  BY ConcatProperties
<1>2. Len(s) \in Nat /\ Len(t) \in Nat
  OBVIOUS
<1>3. IsFiniteSet(A) /\ IsFiniteSet(B) /\ IsFiniteSet(C) /\ IsFiniteSet(D)
  <2>1. IsFiniteSet(A) /\ IsFiniteSet(B) /\ IsFiniteSet(C)
    BY <1>1, PlacesFinite
  <2> QED
    BY <2>1, FS_Subset
<1>4. C = A \cup D /\ A \cap D = {}
  <2>1. ASSUME NEW i \in 1 .. Len(s)
        PROVE  i \in 1 .. Len(s \o t) /\ (s \o t)[i] = s[i]
    BY <1>1, <1>2
  <2>2. ASSUME NEW i \in C, ~(i > Len(s)) PROVE i \in 1 .. Len(s)
    BY <1>1, <1>2, <2>2
  <2> QED
    BY <2>1, <2>2
<1>5. ExistsBijection(B, D)
  <2> DEFINE f == [i \in B |-> i + Len(s)]
  <2>1. ASSUME NEW i \in B PROVE f[i] \in D
    <3>1. i \in 1 .. Len(t) /\ f[i] = i + Len(s)
      OBVIOUS
    <3>2. f[i] \in 1 .. Len(s) + Len(t) /\ f[i] > Len(s) /\ f[i] - Len(s) = i
      BY <1>2, <3>1
    <3>3. (s \o t)[f[i]] = t[i]
      BY <1>1, <1>2, <3>2
    <3> QED
      BY <1>1, <3>2, <3>3
  <2>2. \A i, j \in B : f[i] = f[j] => i = j
    BY <1>2
  <2>3. ASSUME NEW k \in D PROVE \E i \in B : f[i] = k
    <3>1. k \in 1 .. Len(s) + Len(t) /\ k > Len(s)
      BY <1>1
    <3>2. k - Len(s) \in 1 .. Len(t) /\ (k - Len(s)) + Len(s) = k
      BY <1>2, <3>1
    <3>3. t[k - Len(s)] \in X
      BY <1>1, <1>2, <3>1
    <3> QED
      BY <3>2, <3>3
  <2>4. f \in Bijection(B, D)
    BY <2>1, <2>2, <2>3, Fun_IsBij
  <2> QED
    BY <2>4 DEF ExistsBijection
<1>6. Cardinality(D) = Cardinality(B)
  BY <1>3, <1>5, FS_Bijection
<1>7. Cardinality(C) = Cardinality(A) + Cardinality(D)
  <2>1. Cardinality(A) \in Nat /\ Cardinality(D) \in Nat
    BY <1>3, FS_CardinalityType
  <2>2. Cardinality(A \cup D) = Cardinality(A) + Cardinality(D) - Cardinality(A \cap D)
    BY <1>3, FS_Union
  <2>3. Cardinality(A \cap D) = 0 /\ Cardinality(C) = Cardinality(A \cup D)
    BY <1>4, FS_EmptySet
  <2> HIDE DEF A, C, D
  <2> QED
    BY <2>1, <2>2, <2>3
<1> QED
  BY <1>6, <1>7 DEF Hits

LEMMA HitsAppend ==
    ASSUME NEW S, NEW s \in Seq(S), NEW x \in S, NEW X
    PROVE  Hits(X, Append(s, x)) = Hits(X, s) + One(x, X)
<1>1. Append(s, x) = s \o <<x>> /\ <<x>> \in Seq(S)
  BY AppendIsConcat
<1>2. Hits(X, s \o <<x>>) = Hits(X, s) + Hits(X, <<x>>)
  BY <1>1, HitsConcat
<1> QED
  BY <1>1, <1>2, HitsOne

LEMMA HitsHeadTail ==
    ASSUME NEW S, NEW s \in Seq(S), s # <<>>, NEW X
    PROVE  Hits(X, s) = One(Head(s), X) + Hits(X, Tail(s))
<1>1. Head(s) \in S /\ Tail(s) \in Seq(S) /\ <<Head(s)>> \in Seq(S)
  BY HeadTailProperties
<1>2. s = <<Head(s)>> \o Tail(s)
  OBVIOUS
<1>3. Hits(X, <<Head(s)>> \o Tail(s)) = Hits(X, <<Head(s)>>) + Hits(X, Tail(s))
  BY <1>1, HitsConcat
<1> QED
  BY <1>2, <1>3, HitsOne

(* What an existing place says of the count, and the other way round. *)
LEMMA HitsSome ==
    ASSUME NEW S, NEW s \in Seq(S), NEW X, NEW i \in 1 .. Len(s), s[i] \in X
    PROVE  Hits(X, s) > 0
<1> DEFINE A == { k \in 1 .. Len(s) : s[k] \in X }
<1>1. A # {} /\ IsFiniteSet(A)
  BY PlacesFinite
<1>2. Hits(X, s) = Cardinality(A) /\ Hits(X, s) \in Nat
  BY PlacesFinite DEF Hits
<1> HIDE DEF A
<1>3. Cardinality(A) # 0
  BY <1>1, FS_EmptySet
<1> QED
  BY <1>2, <1>3

(* A prefix that is one longer, and a prefix of a longer sequence. *)
LEMMA HitsLongerPrefix ==
    ASSUME NEW S, NEW s \in Seq(S), NEW n \in 0 .. Len(s) - 1, NEW X
    PROVE  /\ SubSeq(s, 1, n) \in Seq(S)
           /\ Hits(X, SubSeq(s, 1, n + 1)) =
                  Hits(X, SubSeq(s, 1, n)) + One(s[n + 1], X)
<1>1. n + 1 \in 1 .. Len(s) /\ s[n + 1] \in S /\ SubSeq(s, 1, n) \in Seq(S)
  <2>1. n + 1 \in 1 .. Len(s) /\ \A i \in 1 .. n : i \in 1 .. Len(s)
    OBVIOUS
  <2> QED
    BY <2>1, ElementOfSeq, SubSeqProperties
<1>2. SubSeq(s, 1, n + 1) = SubSeq(s, 1, n) \o <<s[n + 1]>>
  BY <1>1, SubSeqRecursiveSecond
<1>3. Hits(X, SubSeq(s, 1, n) \o <<s[n + 1]>>) = Hits(X, SubSeq(s, 1, n)) + Hits(X, <<s[n + 1]>>)
  <2>1. <<s[n + 1]>> \in Seq(S)
    BY <1>1
  <2> QED
    BY <1>1, <2>1, HitsConcat
<1> QED
  BY <1>1, <1>2, <1>3, HitsOne

LEMMA PrefixOfAppend ==
    ASSUME NEW S, NEW s \in Seq(S), NEW x \in S, NEW n \in 0 .. Len(s)
    PROVE  SubSeq(Append(s, x), 1, n) = SubSeq(s, 1, n)
<1> DEFINE a == SubSeq(Append(s, x), 1, n)
           b == SubSeq(s, 1, n)
<1>1. \A i \in 1 .. n : Append(s, x)[i] = s[i] /\ s[i] \in S
  BY ElementOfSeq
<1>2. /\ a \in Seq(S) /\ Len(a) = IF 1 <= n THEN n - 1 + 1 ELSE 0
      /\ \A i \in 1 .. n - 1 + 1 : a[i] = Append(s, x)[1 + i - 1]
  BY <1>1, SubSeqProperties
<1>3. /\ b \in Seq(S) /\ Len(b) = IF 1 <= n THEN n - 1 + 1 ELSE 0
      /\ \A i \in 1 .. n - 1 + 1 : b[i] = s[1 + i - 1]
  BY <1>1, SubSeqProperties
<1>4. Len(a) = n /\ Len(b) = n /\ \A i \in 1 .. n : a[i] = b[i]
  BY <1>1, <1>2, <1>3
<1> HIDE DEF a, b
<1>5. a = b
  BY <1>2, <1>3, <1>4, SeqEqual
<1> QED
  BY <1>5 DEF a, b

-----------------------------------------------------------------------------
(***************************************************************************)
(* The shapes of the steps: what they do to the records that were sent to   *)
(* the DLQ, and to the retry topic.                                         *)
(***************************************************************************)

LEMMA RecordParts ==
    ASSUME NEW r \in Records
    PROVE  /\ r.msg \in Messages /\ r.retries \in Nat
           /\ Kind[r.msg] \in RejectedKinds \cup CorrectedKinds
           /\ OneMore(r) \in Records
           /\ OneMore(r).msg = r.msg /\ OneMore(r).retries = r.retries + 1
  BY ReplayAssumption DEF Records, OneMore

LEMMA CurrentTyped ==
    ASSUME TypeOK, position < Len(retry)
    PROVE  /\ position + 1 \in 1 .. Len(retry)
           /\ Current \in Records
<1>1. retry \in Seq(Records) /\ position \in 0 .. Len(retry)
  BY DEF TypeOK
<1>2. position + 1 \in 1 .. Len(retry)
  BY <1>1
<1> QED
  BY <1>1, <1>2, ElementOfSeq DEF Current

(* Records that are on their way move on, and none is added ... *)
ToDlq == dlq' = dlq \o buffer /\ buffer' = <<>> /\ lost' = lost
ToLost == dlq' = dlq /\ buffer' = <<>> /\ lost' = lost \o buffer
OneToDlq ==
    buffer # <<>> /\ dlq' = Append(dlq, Head(buffer)) /\ buffer' = Tail(buffer) /\ lost' = lost
OneToLost ==
    buffer # <<>> /\ dlq' = dlq /\ buffer' = Tail(buffer) /\ lost' = Append(lost, Head(buffer))
Moved == UNCHANGED <<dlq, buffer, lost>> \/ ToDlq \/ ToLost \/ OneToDlq \/ OneToLost

(* ... or one is added. *)
Added(r) ==
    \/ dlq' = Append(dlq, r) /\ UNCHANGED <<buffer, lost>>
    \/ buffer' = Append(buffer, r) /\ UNCHANGED <<dlq, lost>>

LEMMA DiesMoves == ASSUME Dies PROVE ToLost
  BY DEF Dies, ToLost, topicVars

LEMMA StepShape ==
    ASSUME [Next]_vars
    PROVE  \/ \E m \in Messages : Reject(m)
           \/ PollFails
           \/ Moved
<1>1. ASSUME NEW m \in Messages, PublishCorrected(m) PROVE Moved
  BY <1>1 DEF PublishCorrected, Moved
<1>2. CASE StartReplay \/ ReplayOne \/ ReplayCutShort
  BY <1>2 DEF StartReplay, ReplayOne, ReplayCutShort, topicVars, Moved
<1>3. CASE Start \/ Stop \/ Evicted
  BY <1>3 DEF Start, Stop, Evicted, topicVars, Moved
<1>4. CASE Poll
  BY <1>4, DiesMoves
     DEF Poll, PollSkips, PollDuplicate, PollNew, PollRaises, PollOverflow, topicVars, Moved
<1>5. CASE Insert
  BY <1>5 DEF Insert, Recovered, GivesUp, topicVars, Moved
<1>6. CASE Exit
  BY <1>6 DEF Exit, DlqClose, FlushTimesOut, Moved, ToDlq, ToLost
<1>7. CASE Crash
  BY <1>7, DiesMoves DEF Crash, Moved
<1>8. CASE DlqDelivered \/ DlqDeliveryFails
  BY <1>8 DEF DlqDelivered, DlqDeliveryFails, topicVars, Moved, OneToDlq, OneToLost
<1>9. CASE CommitLands \/ CommitFails \/ UNCHANGED vars
  BY <1>9 DEF CommitLands, CommitFails, vars, topicVars, Moved
<1> QED
  BY <1>1, <1>2, <1>3, <1>4, <1>5, <1>6, <1>7, <1>8, <1>9 DEF Next

(* Moving records keeps their type and their number, whatever is counted. *)
LEMMA MovedKeeps ==
    ASSUME NEW S, dlq \in Seq(S), buffer \in Seq(S), lost \in Seq(S), Moved
    PROVE  /\ dlq' \in Seq(S) /\ buffer' \in Seq(S) /\ lost' \in Seq(S)
           /\ \A X : Hits(X, dlq') + Hits(X, buffer') + Hits(X, lost') = Sent(X)
<1>1. \A X : Hits(X, dlq) \in Nat /\ Hits(X, buffer) \in Nat /\ Hits(X, lost) \in Nat
  BY PlacesFinite
<1>2. <<>> \in Seq(S) /\ \A X : Hits(X, <<>>) = 0
  BY EmptySeq, HitsEmpty
<1>3. CASE UNCHANGED <<dlq, buffer, lost>>
  BY <1>3 DEF Sent
<1>4. CASE ToDlq
  <2>1. dlq \o buffer \in Seq(S) /\ \A X : Hits(X, dlq \o buffer) = Hits(X, dlq) + Hits(X, buffer)
    BY ConcatProperties, HitsConcat
  <2> QED
    BY <1>1, <1>2, <1>4, <2>1 DEF ToDlq, Sent
<1>5. CASE ToLost
  <2>1. lost \o buffer \in Seq(S) /\ \A X : Hits(X, lost \o buffer) = Hits(X, lost) + Hits(X, buffer)
    BY ConcatProperties, HitsConcat
  <2> QED
    BY <1>1, <1>2, <1>5, <2>1 DEF ToLost, Sent
<1>6. ASSUME buffer # <<>>
      PROVE  /\ Head(buffer) \in S /\ Tail(buffer) \in Seq(S)
             /\ \A X : /\ Hits(X, Tail(buffer)) \in Nat
                      /\ Hits(X, buffer) =
                             One(Head(buffer), X) + Hits(X, Tail(buffer))
  <2>1. Head(buffer) \in S /\ Tail(buffer) \in Seq(S)
    BY <1>6, HeadTailProperties
  <2> QED
    BY <1>6, <2>1, HitsHeadTail, PlacesFinite
<1>7. CASE OneToDlq
  <2>1. \A X : Hits(X, Append(dlq, Head(buffer))) =
                   Hits(X, dlq) + One(Head(buffer), X)
    BY <1>6, <1>7, HitsAppend DEF OneToDlq
  <2> QED
    BY <1>1, <1>6, <1>7, <2>1, OneValue DEF OneToDlq, Sent
<1>8. CASE OneToLost
  <2>1. \A X : Hits(X, Append(lost, Head(buffer))) =
                   Hits(X, lost) + One(Head(buffer), X)
    BY <1>6, <1>8, HitsAppend DEF OneToLost
  <2> QED
    BY <1>1, <1>6, <1>8, <2>1, OneValue DEF OneToLost, Sent
<1> QED
  BY <1>3, <1>4, <1>5, <1>7, <1>8 DEF Moved

LEMMA AddedKeeps ==
    ASSUME NEW S, dlq \in Seq(S), buffer \in Seq(S), lost \in Seq(S), NEW r \in S, Added(r)
    PROVE  /\ dlq' \in Seq(S) /\ buffer' \in Seq(S) /\ lost' \in Seq(S)
           /\ \A X : Hits(X, dlq') + Hits(X, buffer') + Hits(X, lost') =
                       Sent(X) + One(r, X)
<1>1. \A X : Hits(X, dlq) \in Nat /\ Hits(X, buffer) \in Nat /\ Hits(X, lost) \in Nat
  BY PlacesFinite
<1>2. \A X : /\ Hits(X, Append(dlq, r)) = Hits(X, dlq) + One(r, X)
             /\ Hits(X, Append(buffer, r)) = Hits(X, buffer) + One(r, X)
  BY HitsAppend
<1>3. Append(dlq, r) \in Seq(S) /\ Append(buffer, r) \in Seq(S)
  OBVIOUS
<1>4. CASE dlq' = Append(dlq, r) /\ UNCHANGED <<buffer, lost>>
  <2>1. \A X : Hits(X, dlq') = Hits(X, dlq) + One(r, X)
    BY <1>2, <1>4
  <2> QED
    BY <1>1, <1>3, <1>4, <2>1, OneValue DEF Sent
<1>5. CASE buffer' = Append(buffer, r) /\ UNCHANGED <<dlq, lost>>
  <2>1. \A X : Hits(X, buffer') = Hits(X, buffer) + One(r, X)
    BY <1>2, <1>5
  <2> QED
    BY <1>1, <1>3, <1>5, <2>1, OneValue DEF Sent
<1> QED
  BY <1>4, <1>5 DEF Added

(* In every step: nothing that was sent is uncounted. *)
LEMMA SentGrows ==
    ASSUME TypeOK, [Next]_vars
    PROVE  \A X : Sent(X) \in Nat /\ Sent(X)' \in Nat /\ Sent(X) <= Sent(X)'
<1>1. dlq \in Seq(Records) /\ buffer \in Seq(Records) /\ lost \in Seq(Records)
  BY DEF TypeOK
<1>2. \A X : Sent(X) \in Nat
  <2>1. \A X : Hits(X, dlq) \in Nat /\ Hits(X, buffer) \in Nat /\ Hits(X, lost) \in Nat
    BY <1>1, PlacesFinite
  <2> QED
    BY <2>1 DEF Sent
<1>3. ASSUME NEW r \in Records, Added(r)
      PROVE  \A X : Sent(X)' = Sent(X) + One(r, X)
  BY <1>1, <1>3, AddedKeeps DEF Sent
<1>4. CASE \E m \in Messages : Reject(m)
  <2>1. PICK m \in Messages : Reject(m)
    BY <1>4
  <2>2. Added([msg |-> m, retries |-> 0]) /\ [msg |-> m, retries |-> 0] \in Records
    BY <2>1 DEF Reject, Added, Records
  <2> QED
    BY <1>2, <1>3, <2>2, OneValue
<1>5. CASE PollFails
  <2>1. Added(OneMore(Current)) /\ OneMore(Current) \in Records
    BY <1>5, CurrentTyped, RecordParts DEF PollFails, Handed, Requeue, Added, topicVars
  <2> QED
    BY <1>2, <1>3, <2>1, OneValue
<1>6. CASE Moved
  BY <1>1, <1>2, <1>6, MovedKeeps DEF Sent
<1> QED
  BY <1>4, <1>5, <1>6, StepShape

(* The retry topic only grows at its end. *)
RetryKept == retry' = retry \/ \E r \in Records : retry' = Append(retry, r)

LEMMA RetryFrom ==
    ASSUME [Next]_vars
    PROVE  (\E m \in Messages : PublishCorrected(m)) \/ ReplayOne \/ retry' = retry
<1>1. CASE StartReplay \/ ReplayCutShort \/ \E m \in Messages : Reject(m)
  BY <1>1 DEF StartReplay, ReplayCutShort, Reject, topicVars
<1>2. CASE Start \/ Stop \/ Evicted \/ Exit \/ Crash
  BY <1>2 DEF Start, Stop, Evicted, Exit, Crash, Dies, topicVars
<1>3. CASE Poll
  BY <1>3 DEF Poll, PollSkips, PollFails, PollDuplicate, PollNew, PollRaises, PollOverflow,
              Dies, topicVars
<1>4. CASE Insert
  BY <1>4 DEF Insert, Recovered, GivesUp, topicVars
<1>5. CASE DlqDelivered \/ DlqDeliveryFails \/ CommitLands \/ CommitFails \/ UNCHANGED vars
  BY <1>5 DEF DlqDelivered, DlqDeliveryFails, CommitLands, CommitFails, vars, topicVars
<1> QED
  BY <1>1, <1>2, <1>3, <1>4, <1>5 DEF Next

LEMMA RetryShape == ASSUME TypeOK, [Next]_vars PROVE RetryKept
<1>1. ASSUME NEW m \in Messages, PublishCorrected(m) PROVE RetryKept
  <2>1. [msg |-> m, retries |-> 0] \in Records
    BY DEF Records
  <2> QED
    BY <1>1, <2>1 DEF PublishCorrected, RetryKept
<1>2. CASE ReplayOne
  <2>1. PICK i \in selected : retry' = Append(retry, dlq[i])
    BY <1>2 DEF ReplayOne
  <2>2. dlq[i] \in Records
    BY ElementOfSeq DEF TypeOK
  <2> QED
    BY <2>1, <2>2 DEF RetryKept
<1> QED
  BY <1>1, <1>2, RetryFrom DEF RetryKept

LEMMA RetryGrows ==
    ASSUME retry \in Seq(Records), RetryKept
    PROVE  /\ retry' \in Seq(Records)
           /\ Len(retry) \in Nat /\ Len(retry') \in Nat /\ Len(retry) <= Len(retry')
           /\ \A i \in 1 .. Len(retry) : retry'[i] = retry[i]
           /\ \A n \in 0 .. Len(retry) : SubSeq(retry', 1, n) = SubSeq(retry, 1, n)
<1>1. CASE retry' = retry
  BY <1>1
<1>2. ASSUME NEW r \in Records, retry' = Append(retry, r)
      PROVE  /\ retry' \in Seq(Records) /\ Len(retry') = Len(retry) + 1
             /\ \A i \in 1 .. Len(retry) : retry'[i] = retry[i]
             /\ \A n \in 0 .. Len(retry) : SubSeq(retry', 1, n) = SubSeq(retry, 1, n)
  BY <1>2, PrefixOfAppend
<1> QED
  BY <1>1, <1>2 DEF RetryKept

LEMMA RowsGrow == ASSUME [Next]_vars PROVE rows \subseteq rows'
<1>1. CASE StartReplay \/ ReplayOne \/ ReplayCutShort
  BY <1>1 DEF StartReplay, ReplayOne, ReplayCutShort
<1>2. ASSUME NEW m \in Messages, Reject(m) \/ PublishCorrected(m) PROVE rows' = rows
  BY <1>2 DEF Reject, PublishCorrected
<1>3. CASE Start \/ Stop \/ Evicted \/ Exit \/ Crash
  BY <1>3 DEF Start, Stop, Evicted, Exit, Crash, Dies
<1>4. CASE Poll
  BY <1>4 DEF Poll, PollSkips, PollFails, PollDuplicate, PollNew, PollRaises, PollOverflow, Dies
<1>5. CASE Insert
  BY <1>5 DEF Insert, Recovered, GivesUp, RowStored
<1>6. CASE DlqDelivered \/ DlqDeliveryFails \/ CommitLands \/ CommitFails \/ UNCHANGED vars
  BY <1>6 DEF DlqDelivered, DlqDeliveryFails, CommitLands, CommitFails, vars
<1> QED
  BY <1>1, <1>2, <1>3, <1>4, <1>5, <1>6 DEF Next

-----------------------------------------------------------------------------
(***************************************************************************)
(* Type correctness, with the message in hand that it needs.                *)
(***************************************************************************)
Core == TypeOK /\ InHand

LEMMA FaultTyped ==
    ASSUME TypeOK, NEW kind, Fault(kind)
    PROVE  faults' \in 0 .. MaxFaults /\ faults' > faults
  BY ReplayAssumption DEF Fault, TypeOK

(* The records, where they are, and the places that a replay has chosen. *)
LEMMA RecordsTyped ==
    ASSUME TypeOK, [Next]_vars
    PROVE  /\ dlq' \in Seq(Records) /\ buffer' \in Seq(Records) /\ lost' \in Seq(Records)
           /\ Len(dlq) \in Nat /\ Len(dlq') \in Nat /\ Len(dlq) <= Len(dlq')
           /\ \A i \in 1 .. Len(dlq) : dlq'[i] = dlq[i]
<1>1. dlq \in Seq(Records) /\ buffer \in Seq(Records) /\ lost \in Seq(Records)
  BY DEF TypeOK
<1>2. ASSUME NEW r \in Records, Added(r)
      PROVE  /\ dlq' \in Seq(Records) /\ buffer' \in Seq(Records) /\ lost' \in Seq(Records)
             /\ Len(dlq) <= Len(dlq') /\ \A i \in 1 .. Len(dlq) : dlq'[i] = dlq[i]
  <2>1. CASE dlq' = Append(dlq, r) /\ UNCHANGED <<buffer, lost>>
    BY <1>1, <2>1
  <2>2. CASE buffer' = Append(buffer, r) /\ UNCHANGED <<dlq, lost>>
    BY <1>1, <2>2
  <2> QED
    BY <1>2, <2>1, <2>2 DEF Added
<1>3. CASE \E m \in Messages : Reject(m)
  <2>1. PICK m \in Messages : Reject(m)
    BY <1>3
  <2>2. Added([msg |-> m, retries |-> 0]) /\ [msg |-> m, retries |-> 0] \in Records
    BY <2>1 DEF Reject, Added, Records
  <2> QED
    BY <1>1, <1>2, <2>2
<1>4. CASE PollFails
  <2>1. Added(OneMore(Current)) /\ OneMore(Current) \in Records
    BY <1>4, CurrentTyped, RecordParts DEF PollFails, Handed, Requeue, Added, topicVars
  <2> QED
    BY <1>1, <1>2, <2>1
<1>5. CASE Moved
  <2>1. dlq' \in Seq(Records) /\ buffer' \in Seq(Records) /\ lost' \in Seq(Records)
    BY <1>1, <1>5, MovedKeeps
  <2>2. CASE dlq' = dlq
    BY <1>1, <2>1, <2>2
  <2>3. CASE ToDlq
    <3>1. /\ Len(dlq \o buffer) = Len(dlq) + Len(buffer)
          /\ \A i \in 1 .. Len(dlq) + Len(buffer) : (dlq \o buffer)[i] =
                 IF i <= Len(dlq) THEN dlq[i] ELSE buffer[i - Len(dlq)]
      BY <1>1, ConcatProperties
    <3>2. Len(dlq) \in Nat /\ Len(buffer) \in Nat
      BY <1>1
    <3> QED
      BY <2>1, <2>3, <3>1, <3>2 DEF ToDlq
  <2>4. CASE OneToDlq
    <3>1. Head(buffer) \in Records
      BY <1>1, <2>4, HeadTailProperties DEF OneToDlq
    <3> QED
      BY <1>1, <2>1, <2>4, <3>1 DEF OneToDlq
  <2> QED
    BY <1>5, <2>2, <2>3, <2>4 DEF Moved, ToLost, OneToLost
<1> QED
  BY <1>3, <1>4, <1>5, StepShape

LEMMA SafeCommitTyped ==
    ASSUME TypeOK, position < Len(retry), SafeCommit, retry' = retry
    PROVE  /\ position' \in 0 .. Len(retry')
           /\ inflight' \in Seq(0 .. Len(retry'))
<1>1. position + 1 \in 0 .. Len(retry)
  BY CurrentTyped
<1> QED
  BY <1>1 DEF SafeCommit, CommitNext, TypeOK

(* The consumer's view of the retry topic, when the topic has grown. *)
LEMMA PlacesTyped ==
    ASSUME TypeOK, RetryKept, UNCHANGED <<position, inflight, committed>>
    PROVE  /\ position' \in 0 .. Len(retry')
           /\ inflight' \in Seq(0 .. Len(retry'))
           /\ committed' \in 0 .. Len(retry')
<1>1. Len(retry) \in Nat /\ Len(retry') \in Nat /\ Len(retry) <= Len(retry')
  BY RetryGrows DEF TypeOK
<1>2. 0 .. Len(retry) \subseteq 0 .. Len(retry')
  BY <1>1
<1> QED
  BY <1>2, SeqMonotonic DEF TypeOK

(* The rest of the state: the tool ... *)
ToolTyped ==
    /\ habit' \in Habits
    /\ selected' \subseteq 1 .. Len(dlq')
    /\ replays' \in 0 .. MaxReplays

(* ... and the retry consumer, its group and its table. *)
ConsumerTyped ==
    /\ pc' \in {"down", "poll", "inserting", "closing"}
    /\ position' \in 0 .. Len(retry')
    /\ inflight' \in Seq(0 .. Len(retry'))
    /\ committed' \in 0 .. Len(retry')
    /\ cache' \subseteq Messages
    /\ rows' \subseteq Messages
    /\ faults' \in 0 .. MaxFaults

LEMMA ToolFrom ==
    ASSUME [Next]_vars
    PROVE  StartReplay \/ ReplayOne \/ ReplayCutShort \/ UNCHANGED toolVars
<1>1. CASE Poll
  BY <1>1 DEF Poll, PollSkips, PollFails, PollDuplicate, PollNew, PollRaises, PollOverflow, Dies
<1>2. CASE Insert
  BY <1>2 DEF Insert, Recovered, GivesUp
<1> QED
  BY <1>1, <1>2 DEF Next, Reject, PublishCorrected, Start, Stop, Exit, Crash, Dies, Evicted,
     DlqDelivered, DlqDeliveryFails, CommitLands, CommitFails, vars

LEMMA ToolStep == ASSUME TypeOK, [Next]_vars PROVE ToolTyped
<1>1. 1 .. Len(dlq) \subseteq 1 .. Len(dlq')
  BY RecordsTyped
<1>2. CASE StartReplay
  <2>1. selected' \subseteq 1 .. Len(dlq)
    BY <1>2 DEF StartReplay, Everything, SkipExhausted
  <2>2. replays' \in 0 .. MaxReplays
    BY <1>2, ReplayAssumption DEF StartReplay, TypeOK
  <2>3. habit' \in Habits
    BY <1>2 DEF StartReplay, TypeOK
  <2> QED
    BY <1>1, <2>1, <2>2, <2>3 DEF ToolTyped
<1>3. CASE ReplayOne \/ ReplayCutShort
  BY <1>1, <1>3 DEF ReplayOne, ReplayCutShort, TypeOK, ToolTyped
<1>4. CASE UNCHANGED toolVars
  BY <1>1, <1>4 DEF toolVars, TypeOK, ToolTyped
<1> QED
  BY <1>2, <1>3, <1>4, ToolFrom

LEMMA DiesTyped ==
    ASSUME TypeOK, Dies, faults' \in 0 .. MaxFaults
    PROVE  ConsumerTyped
<1>1. PICK n \in 0 .. Len(inflight) : inflight' = SubSeq(inflight, 1, n)
  BY DEF Dies
<1> DEFINE Offs == 0 .. Len(retry)
<1>2. inflight \in Seq(Offs) /\ Len(inflight) \in Nat
  BY DEF TypeOK
<1> HIDE DEF Offs
<1>3. \A i \in 1 .. n : i \in 1 .. Len(inflight) /\ inflight[i] \in Offs
  BY <1>2, ElementOfSeq
<1>4. SubSeq(inflight, 1, n) \in Seq(Offs)
  BY <1>2, <1>3, SubSeqProperties
<1>5. inflight' \in Seq(0 .. Len(retry))
  BY <1>1, <1>4, Zenon DEF Offs
<1> QED
  BY <1>5 DEF Dies, topicVars, TypeOK, ConsumerTyped

LEMMA PollTyped == ASSUME Core, Poll PROVE ConsumerTyped
<1>1. TypeOK /\ Handed
  BY DEF Core, Poll, PollSkips, PollFails, PollDuplicate, PollNew, PollRaises, PollOverflow
<1>2. position < Len(retry)
  BY <1>1 DEF Handed
<1>3. CASE PollSkips \/ PollFails
  BY <1>1, <1>2, <1>3, SafeCommitTyped DEF PollSkips, PollFails, topicVars, TypeOK, ConsumerTyped
<1>4. CASE PollDuplicate
  BY <1>1, <1>2, <1>4, SafeCommitTyped DEF PollDuplicate, topicVars, TypeOK, ConsumerTyped
<1>5. CASE PollNew
  BY <1>1, <1>5 DEF PollNew, topicVars, groupVars, TypeOK, ConsumerTyped
<1>6. CASE PollRaises \/ PollOverflow
  BY <1>1, <1>6, DiesTyped DEF PollRaises, PollOverflow, TypeOK
<1> QED
  BY <1>3, <1>4, <1>5, <1>6 DEF Poll

LEMMA InsertTyped == ASSUME Core, Insert PROVE ConsumerTyped
<1>1. TypeOK /\ pc = "inserting" /\ position < Len(retry)
  BY DEF Core, InHand, Insert, Recovered, GivesUp
<1>2. Current.msg \in Messages
  BY <1>1, CurrentTyped, RecordParts
<1>3. CASE Recovered
  BY <1>1, <1>2, <1>3, SafeCommitTyped DEF Recovered, RowStored, topicVars, TypeOK, ConsumerTyped
<1>4. CASE GivesUp
  <2>1. faults' \in 0 .. MaxFaults
    BY <1>1, <1>4, FaultTyped DEF GivesUp, TypeOK
  <2>2. rows' \subseteq Messages
    BY <1>1, <1>2, <1>4 DEF GivesUp, RowStored, TypeOK
  <2> QED
    BY <1>1, <1>4, <2>1, <2>2 DEF GivesUp, topicVars, groupVars, TypeOK, ConsumerTyped
<1> QED
  BY <1>3, <1>4 DEF Insert

LEMMA ConsumerStep == ASSUME Core, [Next]_vars PROVE ConsumerTyped
<1>1. TypeOK
  BY DEF Core
<1>2. CASE (\E m \in Messages : Reject(m) \/ PublishCorrected(m))
           \/ StartReplay \/ ReplayOne \/ ReplayCutShort
  <2>1. UNCHANGED <<pc, position, inflight, committed, cache, rows>>
    BY <1>2 DEF Reject, PublishCorrected, StartReplay, ReplayOne, ReplayCutShort, groupVars
  <2>2. faults' \in 0 .. MaxFaults
    BY <1>1, <1>2, FaultTyped
       DEF Reject, PublishCorrected, StartReplay, ReplayOne, ReplayCutShort, TypeOK
  <2> QED
    BY <1>1, <2>1, <2>2, RetryShape, PlacesTyped DEF TypeOK, ConsumerTyped
<1>3. CASE Start
  BY <1>1, <1>3 DEF Start, topicVars, groupVars, TypeOK, ConsumerTyped
<1>4. CASE Poll
  BY <1>4, PollTyped
<1>5. CASE Insert
  BY <1>5, InsertTyped
<1>6. CASE Stop
  BY <1>1, <1>6, FaultTyped DEF Stop, topicVars, groupVars, TypeOK, ConsumerTyped
<1>7. CASE Exit
  <2>1. faults' \in 0 .. MaxFaults
    BY <1>1, <1>7, FaultTyped DEF Exit, DlqClose, FlushTimesOut, TypeOK
  <2> QED
    BY <1>1, <1>7, <2>1 DEF Exit, groupVars, TypeOK, ConsumerTyped
<1>8. CASE Crash
  BY <1>1, <1>8, DiesTyped, FaultTyped DEF Crash
<1>9. CASE Evicted
  BY <1>1, <1>9, FaultTyped DEF Evicted, topicVars, TypeOK, ConsumerTyped
<1>10. CASE DlqDelivered \/ DlqDeliveryFails
  BY <1>1, <1>10, FaultTyped
     DEF DlqDelivered, DlqDeliveryFails, topicVars, groupVars, TypeOK, ConsumerTyped
<1>11. CASE CommitLands \/ CommitFails
  <2>1. inflight # <<>> /\ inflight \in Seq(0 .. Len(retry)) /\ inflight' = Tail(inflight)
    BY <1>1, <1>11 DEF CommitLands, CommitFails, TypeOK
  <2>2. Head(inflight) \in 0 .. Len(retry) /\ Tail(inflight) \in Seq(0 .. Len(retry))
    BY <2>1, HeadTailProperties
  <2> QED
    BY <1>1, <1>11, <2>1, <2>2, FaultTyped
       DEF CommitLands, CommitFails, topicVars, TypeOK, ConsumerTyped
<1>12. CASE UNCHANGED vars
  BY <1>1, <1>12 DEF vars, topicVars, groupVars, TypeOK, ConsumerTyped
<1> QED
  BY <1>2, <1>3, <1>4, <1>5, <1>6, <1>7, <1>8, <1>9, <1>10, <1>11, <1>12 DEF Next

LEMMA TypeStep == ASSUME Core, [Next]_vars PROVE TypeOK'
<1>1. TypeOK
  BY DEF Core
<1>2. retry' \in Seq(Records)
  BY <1>1, RetryShape, RetryGrows DEF TypeOK
<1> QED
  BY <1>1, <1>2, RecordsTyped, ToolStep, ConsumerStep DEF TypeOK, ToolTyped, ConsumerTyped

LEMMA InHandStep == ASSUME Core, [Next]_vars PROVE InHand'
<1>1. TypeOK /\ InHand
  BY DEF Core
<1>2. CASE PollNew
  <2>1. position' = position /\ position < Len(retry) /\ Inserts(Current) /\ retry' = retry
    BY <1>2 DEF PollNew, Handed, groupVars, topicVars
  <2> QED
    BY <2>1 DEF InHand, Current, Inserts
<1>3. CASE pc' # "inserting"
  BY <1>3 DEF InHand
<1>4. CASE pc = "inserting" /\ pc' = "inserting" /\ position' = position
  <2>1. position < Len(retry) /\ Inserts(Current)
    BY <1>1, <1>4 DEF InHand
  <2>2. Len(retry') >= Len(retry) /\ retry'[position + 1] = retry[position + 1]
    BY <1>1, <2>1, RetryShape, RetryGrows, CurrentTyped DEF TypeOK
  <2>3. position' < Len(retry')
    BY <1>1, <1>4, <2>1, <2>2, RetryShape, RetryGrows DEF TypeOK
  <2> QED
    BY <1>4, <2>1, <2>2, <2>3 DEF InHand, Current, Inserts
<1>5. PollNew \/ pc' # "inserting" \/ (pc = "inserting" /\ pc' = "inserting" /\ position' = position)
  <2>1. CASE Poll
    BY <2>1 DEF Poll, PollSkips, PollFails, PollDuplicate, PollRaises, PollOverflow, Handed, Dies
  <2>2. CASE Insert
    BY <2>2 DEF Insert, Recovered, GivesUp
  <2>3. CASE StartReplay \/ ReplayOne \/ ReplayCutShort
    BY <2>3 DEF StartReplay, ReplayOne, ReplayCutShort
  <2>4. ASSUME NEW m \in Messages, Reject(m) \/ PublishCorrected(m)
        PROVE  UNCHANGED <<pc, position>>
    BY <2>4 DEF Reject, PublishCorrected
  <2> QED
    BY <2>1, <2>2, <2>3, <2>4 DEF Next, Start, Stop, Exit, Crash, Dies, Evicted,
       DlqDelivered, DlqDeliveryFails, CommitLands, CommitFails, vars
<1> QED
  BY <1>2, <1>3, <1>4, <1>5

-----------------------------------------------------------------------------
(***************************************************************************)
(* Commits.                                                                 *)
(***************************************************************************)

(* A settled record stays settled. *)
LEMMA SettledStays ==
    ASSUME TypeOK, [Next]_vars, NEW r \in Records, Settled(r)
    PROVE  Settled(r)'
<1>1. rows \subseteq rows'
  BY RowsGrow
<1>2. SentBack(OneMore(r)) > 0 => SentBack(OneMore(r))' > 0
  BY SentGrows DEF SentBack, OneMore
<1> QED
  BY <1>1, <1>2 DEF Settled, Fails, OneMore

(* What a prefix says of the sent-back records does not become wrong when    *)
(* records are added to either topic.                                        *)
LEMMA SentBackStays ==
    ASSUME TypeOK, [Next]_vars, NEW n \in 0 .. Len(retry), SentBackBelow(n)
    PROVE  SentBackBelow(n)'
<1>1. /\ retry \in Seq(Records) /\ retry' \in Seq(Records)
      /\ SubSeq(retry', 1, n) = SubSeq(retry, 1, n)
      /\ \A i \in 1 .. Len(retry) : retry'[i] = retry[i]
  BY RetryShape, RetryGrows DEF TypeOK
<1> DEFINE before == SubSeq(retry, 1, n)
<1>2. /\ before \in Seq(Records) /\ Len(before) = n
      /\ \A i \in 1 .. n : before[i] = retry[i]
  <2>1. \A i \in 1 .. n : retry[i] \in Records
    BY <1>1, ElementOfSeq
  <2> QED
    BY <2>1, SubSeqProperties
<1> HIDE DEF before
<1>3. ASSUME NEW r \in Records, Fails(r)
      PROVE  Times(r, before) <= SentBack(OneMore(r))'
  <2>1. Sent({OneMore(r)}) \in Nat /\ Sent({OneMore(r)})' \in Nat
        /\ Sent({OneMore(r)}) <= Sent({OneMore(r)})'
    BY SentGrows DEF OneMore
  <2>2. SentBack(OneMore(r))' = Sent({OneMore(r)})'
    BY DEF SentBack
  <2>3. Times(r, before) \in Nat
    BY <1>2, PlacesFinite DEF Times
  <2>4. CASE \E i \in 1 .. Len(retry) : retry[i] = r
    BY <1>3, <2>1, <2>2, <2>3, <2>4 DEF SentBackBelow, SentBack, before
  <2>5. CASE ~ \E i \in 1 .. Len(retry) : retry[i] = r
    <3>1. \A i \in 1 .. Len(before) : before[i] \notin {r}
      BY <1>1, <1>2, <2>5
    <3>2. Times(r, before) = 0
      BY <1>2, <3>1, HitsNone DEF Times
    <3> QED
      BY <2>1, <2>2, <3>2
  <2> QED
    BY <2>4, <2>5
<1>4. ASSUME NEW i \in 1 .. Len(retry'), Fails(retry'[i])
      PROVE  Times(retry'[i], SubSeq(retry', 1, n)) <= SentBack(OneMore(retry[i]))'
  <2>1. retry'[i] \in Records
    BY <1>1, ElementOfSeq
  <2>2. PICK r \in Records : r = retry'[i]
    BY <2>1
  <2> QED
    BY <1>1, <1>3, <1>4, <2>2 DEF before, SentBack, OneMore
<1> QED
  BY <1>4 DEF SentBackBelow, Fails

LEMMA ConfirmedGrows == ASSUME TypeOK, [Next]_vars PROVE Confirmed \subseteq Confirmed'
<1> SUFFICES ASSUME NEW n \in Confirmed PROVE n \in Confirmed'
  OBVIOUS
<1>1. n \in 0 .. Len(retry) /\ SettledBelow(n) /\ SentBackBelow(n)
  BY DEF Confirmed
<1>2. /\ Len(retry) \in Nat /\ Len(retry') \in Nat /\ Len(retry) <= Len(retry')
      /\ \A i \in 1 .. Len(retry) : retry'[i] = retry[i]
  BY RetryShape, RetryGrows DEF TypeOK
<1>3. SettledBelow(n)'
  <2>1. ASSUME NEW i \in 1 .. n PROVE Settled(retry[i])'
    <3>1. i \in 1 .. Len(retry) /\ retry[i] \in Records /\ Settled(retry[i])
      BY <1>1, <1>2, ElementOfSeq DEF SettledBelow, TypeOK
    <3>2. PICK r \in Records : r = retry[i]
      BY <3>1
    <3>3. Settled(r)'
      BY <3>1, <3>2, SettledStays
    <3>4. retry'[i] = r
      BY <1>2, <3>1, <3>2
    <3> QED
      BY <3>3, <3>4 DEF Settled, SentBack, Fails, OneMore
  <2> QED
    BY <2>1 DEF SettledBelow
<1>4. SentBackBelow(n)'
  BY <1>1, SentBackStays
<1> QED
  BY <1>1, <1>2, <1>3, <1>4 DEF Confirmed

(* The commit of the message in hand: it is settled, and if it failed a      *)
(* record of its own was added.                                              *)
LEMMA NextConfirmed ==
    ASSUME TypeOK, [Next]_vars, position < Len(retry), retry' = retry, position \in Confirmed,
           NEW r \in Records, Current = r, Settled(r)', Fails(r) => Added(OneMore(r))
    PROVE  position + 1 \in Confirmed'
<1>1. PICK n \in 0 .. Len(retry) : n = position
  BY DEF TypeOK
<1>2. /\ n + 1 \in 1 .. Len(retry) /\ n + 1 \in 0 .. Len(retry) /\ n \in 0 .. Len(retry) - 1
      /\ retry \in Seq(Records) /\ retry[n + 1] = r /\ n \in Confirmed'
  BY <1>1, CurrentTyped, ConfirmedGrows DEF Current, TypeOK
<1>3. SettledBelow(n + 1)'
  <2>1. \A i \in 1 .. n + 1 : i \in 1 .. n \/ i = n + 1
    BY <1>2
  <2>2. \A i \in 1 .. n : Settled(retry[i])'
    BY <1>2 DEF Confirmed, SettledBelow
  <2>3. Settled(retry[n + 1])'
    BY <1>2 DEF Settled, SentBack, Fails, OneMore
  <2> QED
    BY <2>1, <2>2, <2>3 DEF SettledBelow
<1>4. ASSUME NEW q \in Records, Fails(q), NEW i \in 1 .. Len(retry), retry[i] = q
      PROVE  Times(q, SubSeq(retry, 1, n + 1)) <= Sent({OneMore(q)})'
  <2>1. /\ Times(q, SubSeq(retry, 1, n)) <= Sent({OneMore(q)})
        /\ SubSeq(retry, 1, n) \in Seq(Records)
    <3>1. SentBackBelow(n)
      BY <1>1 DEF Confirmed
    <3> QED
      BY <1>2, <1>4, <3>1, HitsLongerPrefix DEF SentBackBelow, SentBack
  <2>2. Times(q, SubSeq(retry, 1, n + 1)) = Times(q, SubSeq(retry, 1, n)) + One(r, {q})
    BY <1>2, HitsLongerPrefix DEF Times
  <2>3. /\ Times(q, SubSeq(retry, 1, n)) \in Nat
        /\ Sent({OneMore(q)}) \in Nat /\ Sent({OneMore(q)})' \in Nat
        /\ Sent({OneMore(q)}) <= Sent({OneMore(q)})'
    BY <2>1, PlacesFinite, SentGrows DEF Times, OneMore
  <2>4. CASE q = r
    <3>1. Sent({OneMore(r)})' = Sent({OneMore(r)}) + One(OneMore(r), {OneMore(r)})
      <4>1. Added(OneMore(r)) /\ OneMore(r) \in Records
        BY <1>4, <2>4, RecordParts
      <4> QED
        BY <4>1, AddedKeeps DEF Sent, OneMore, TypeOK
    <3>2. One(OneMore(r), {OneMore(r)}) = 1 /\ One(r, {q}) = 1
      BY <2>4, OneValue
    <3> QED
      BY <2>1, <2>2, <2>3, <2>4, <3>1, <3>2
  <2>5. CASE q # r
    <3>1. One(r, {q}) = 0
      BY <2>5, OneValue
    <3> QED
      BY <2>1, <2>2, <2>3, <3>1
  <2> QED
    BY <2>4, <2>5
<1>5. SentBackBelow(n + 1)'
  <2>1. ASSUME NEW i \in 1 .. Len(retry), Fails(retry[i])
        PROVE  Times(retry[i], SubSeq(retry, 1, n + 1)) <= SentBack(OneMore(retry[i]))'
    <3>1. PICK q \in Records : q = retry[i]
      BY <1>2, ElementOfSeq
    <3>2. Times(q, SubSeq(retry, 1, n + 1)) <= Sent({OneMore(q)})'
      BY <1>4, <2>1, <3>1
    <3> QED
      BY <3>1, <3>2 DEF SentBack, OneMore
  <2> QED
    BY <2>1 DEF SentBackBelow, Fails
<1> QED
  BY <1>1, <1>2, <1>3, <1>5 DEF Confirmed

LEMMA CacheStep == ASSUME cache \subseteq rows, [Next]_vars PROVE cache' \subseteq rows'
<1>1. rows \subseteq rows'
  BY RowsGrow
<1>2. CASE Poll
  BY <1>1, <1>2 DEF Poll, PollSkips, PollFails, PollDuplicate, PollNew, PollRaises,
                    PollOverflow, Dies
<1>3. CASE Insert
  BY <1>1, <1>3 DEF Insert, Recovered, RowStored, GivesUp
<1>4. CASE StartReplay \/ ReplayOne \/ ReplayCutShort
  BY <1>4 DEF StartReplay, ReplayOne, ReplayCutShort
<1>5. ASSUME NEW m \in Messages, Reject(m) \/ PublishCorrected(m)
      PROVE  cache' \subseteq rows'
  BY <1>5 DEF Reject, PublishCorrected
<1>6. CASE Start \/ Stop \/ Exit \/ Crash \/ Evicted
  BY <1>6 DEF Start, Stop, Exit, Crash, Dies, Evicted
<1>7. CASE DlqDelivered \/ DlqDeliveryFails \/ CommitLands \/ CommitFails \/ UNCHANGED vars
  BY <1>7 DEF DlqDelivered, DlqDeliveryFails, CommitLands, CommitFails, vars
<1> QED
  BY <1>2, <1>3, <1>4, <1>5, <1>6, <1>7 DEF Next

(* The four ways in which a message is finished. *)
LEMMA SafeCommitInOrder ==
    ASSUME Core, CommitsInOrder, cache \subseteq rows, [Next]_vars,
           PollSkips \/ PollFails \/ PollDuplicate \/ Recovered
    PROVE  CommitsInOrder'
<1>1. /\ TypeOK /\ pc # "down" /\ position < Len(retry) /\ position \in Confirmed
      /\ SafeCommit /\ committed' = committed /\ retry' = retry
  BY DEF Core, InHand, PollSkips, PollFails, PollDuplicate, Recovered, Handed, CommitsInOrder,
         topicVars
<1>2. PICK r \in Records : Current = r
  BY <1>1, CurrentTyped
<1>3. Settled(r)' /\ (Fails(r) => Added(OneMore(r)))
  <2>1. CASE PollSkips
    BY <1>2, <2>1 DEF PollSkips, Settled, Fails
  <2>2. CASE PollFails
    <3>1. Fails(r) /\ Added(OneMore(r)) /\ OneMore(r) \in Records
      BY <1>2, <2>2, RecordParts DEF PollFails, Requeue, Added, topicVars
    <3>2. /\ Sent({OneMore(r)})' = Sent({OneMore(r)}) + One(OneMore(r), {OneMore(r)})
          /\ Sent({OneMore(r)}) \in Nat /\ One(OneMore(r), {OneMore(r)}) = 1
      BY <1>1, <3>1, AddedKeeps, SentGrows, OneValue DEF Sent, OneMore, TypeOK
    <3> QED
      BY <3>1, <3>2 DEF Settled, SentBack, Fails, OneMore
  <2>3. CASE PollDuplicate
    BY <1>2, <2>3, RowsGrow DEF PollDuplicate, Inserts, Fails, Settled
  <2>4. CASE Recovered
    <3>1. Inserts(r) /\ r.msg \in rows'
      BY <1>2, <2>4 DEF Core, InHand, Recovered, RowStored
    <3> QED
      BY <3>1 DEF Inserts, Fails, Settled
  <2> QED
    BY <2>1, <2>2, <2>3, <2>4
<1>4. position + 1 \in Confirmed'
  BY <1>1, <1>2, <1>3, NextConfirmed
<1>5. Confirmed \subseteq Confirmed'
  BY <1>1, ConfirmedGrows
<1>6. inflight' \in Seq(Confirmed')
  <2>1. inflight \in Seq(Confirmed')
    BY <1>5, SeqMonotonic DEF CommitsInOrder
  <2> QED
    BY <1>1, <1>4, <2>1 DEF SafeCommit, CommitNext
<1>7. committed' \in Confirmed' /\ position' \in Confirmed'
  BY <1>1, <1>4, <1>5 DEF CommitsInOrder, SafeCommit
<1> QED
  BY <1>6, <1>7 DEF CommitsInOrder

LEMMA CommitsStep ==
    ASSUME Core, CommitsInOrder, cache \subseteq rows, [Next]_vars
    PROVE  CommitsInOrder'
<1>1. TypeOK
  BY DEF Core
<1>2. Confirmed \subseteq Confirmed'
  BY <1>1, ConfirmedGrows
<1>3. inflight \in Seq(Confirmed') /\ committed \in Confirmed'
  BY <1>2, SeqMonotonic DEF CommitsInOrder
<1>4. CASE PollSkips \/ PollFails \/ PollDuplicate \/ Recovered
  BY <1>4, SafeCommitInOrder
<1>5. CASE /\ UNCHANGED <<position, inflight, committed>>
           /\ pc' # "down" => pc # "down"
  BY <1>2, <1>3, <1>5 DEF CommitsInOrder
<1>6. CASE Start \/ Evicted
  <2>1. position' = committed /\ committed' = committed /\ inflight' \in {inflight, <<>>}
    BY <1>6 DEF Start, Evicted, groupVars
  <2>2. inflight' \in Seq(Confirmed')
    BY <1>3, <2>1, EmptySeq
  <2> QED
    BY <1>3, <2>1, <2>2 DEF CommitsInOrder
<1>7. CASE Dies
  <2>1. PICK n \in 0 .. Len(inflight) : inflight' = SubSeq(inflight, 1, n)
    BY <1>7 DEF Dies
  <2>2. inflight' \in Seq(Confirmed')
    BY <1>3, <2>1
  <2> QED
    BY <1>3, <1>7, <2>2 DEF Dies, CommitsInOrder
<1>8. CASE CommitLands \/ CommitFails
  <2>1. Head(inflight) \in Confirmed' /\ Tail(inflight) \in Seq(Confirmed')
    BY <1>3, <1>8, HeadTailProperties DEF CommitLands, CommitFails
  <2>2. position' = position /\ pc' = pc
    BY <1>8 DEF CommitLands, CommitFails
  <2> QED
    BY <1>2, <1>3, <1>8, <2>1, <2>2 DEF CommitLands, CommitFails, CommitsInOrder
<1>9. \/ PollSkips \/ PollFails \/ PollDuplicate \/ Recovered
      \/ UNCHANGED <<position, inflight, committed>> /\ (pc' # "down" => pc # "down")
      \/ Start \/ Evicted \/ Dies \/ CommitLands \/ CommitFails
  <2>1. CASE Poll
    BY <2>1 DEF Poll, PollNew, PollRaises, PollOverflow, Handed, groupVars
  <2>2. CASE Insert
    BY <2>2 DEF Insert, GivesUp, groupVars
  <2>3. CASE StartReplay \/ ReplayOne \/ ReplayCutShort
    BY <2>3 DEF StartReplay, ReplayOne, ReplayCutShort, groupVars
  <2>4. ASSUME NEW m \in Messages, Reject(m) \/ PublishCorrected(m)
        PROVE  UNCHANGED <<pc, position, inflight, committed>>
    BY <2>4 DEF Reject, PublishCorrected, groupVars
  <2>5. CASE Stop \/ Exit \/ Crash
    BY <2>5 DEF Stop, Exit, Crash, groupVars
  <2>6. CASE DlqDelivered \/ DlqDeliveryFails \/ UNCHANGED vars
    BY <2>6 DEF DlqDelivered, DlqDeliveryFails, groupVars, vars
  <2> QED
    BY <2>1, <2>2, <2>3, <2>4, <2>5, <2>6 DEF Next
<1> QED
  BY <1>4, <1>5, <1>6, <1>7, <1>8, <1>9

-----------------------------------------------------------------------------
(***************************************************************************)
(* Counts.                                                                  *)
(***************************************************************************)

LEMMA BackedGrows == ASSUME TypeOK, [Next]_vars PROVE Backed \subseteq Backed'
<1>1. ASSUME NEW r \in Backed
      PROVE  r \in Records /\ r.retries \in Nat /\ r.retries <= Sent(Failures(r.msg))'
  <2>1. r \in Records /\ r.retries \in Nat /\ r.retries <= Sent(Failures(r.msg))
    BY DEF Backed, Records
  <2>2. /\ Sent(Failures(r.msg)) \in Nat /\ Sent(Failures(r.msg))' \in Nat
        /\ Sent(Failures(r.msg)) <= Sent(Failures(r.msg))'
    BY SentGrows DEF Failures
  <2> QED
    BY <2>1, <2>2
<1> QED
  BY <1>1 DEF Backed

(* A record with no attempt behind it needs no failure. *)
LEMMA FirstBacked ==
    ASSUME TypeOK, [Next]_vars, NEW m \in Messages
    PROVE  [msg |-> m, retries |-> 0] \in Backed'
<1>1. Sent(Failures(m))' \in Nat
  BY SentGrows DEF Failures
<1> QED
  BY <1>1 DEF Backed, Records

(* A failed attempt is its own evidence. *)
LEMMA RequeuedBacked ==
    ASSUME TypeOK, [Next]_vars, NEW r \in Backed, Added(OneMore(r))
    PROVE  OneMore(r) \in Backed'
<1>1. /\ r \in Records /\ r.retries \in Nat /\ OneMore(r) \in Records
      /\ OneMore(r).msg = r.msg /\ OneMore(r).retries = r.retries + 1
      /\ r.retries <= Sent(Failures(r.msg))
  BY RecordParts DEF Backed
<1>2. /\ Sent(Failures(r.msg))' = Sent(Failures(r.msg)) + One(OneMore(r), Failures(r.msg))
      /\ Sent(Failures(r.msg)) \in Nat
  BY <1>1, AddedKeeps, SentGrows DEF Sent, Failures, TypeOK
<1>3. One(OneMore(r), Failures(r.msg)) = 1
  <2>1. OneMore(r) \in Failures(r.msg)
    BY <1>1 DEF Failures
  <2> QED
    BY <2>1, OneValue
<1>4. OneMore(r).retries <= Sent(Failures(OneMore(r).msg))'
  BY <1>1, <1>2, <1>3
<1> QED
  BY <1>1, <1>4 DEF Backed

LEMMA CountsStep == ASSUME TypeOK, CountsBacked, [Next]_vars PROVE CountsBacked'
<1>1. Backed \subseteq Backed'
  BY BackedGrows
<1>2. /\ dlq \in Seq(Backed') /\ buffer \in Seq(Backed') /\ lost \in Seq(Backed')
      /\ retry \in Seq(Backed')
  BY <1>1, SeqMonotonic DEF CountsBacked, CountNeverOverstated
<1>3. dlq' \in Seq(Backed') /\ buffer' \in Seq(Backed') /\ lost' \in Seq(Backed')
  <2>1. CASE \E m \in Messages : Reject(m)
    <3>1. PICK m \in Messages : Reject(m)
      BY <2>1
    <3>2. [msg |-> m, retries |-> 0] \in Backed'
      BY FirstBacked
    <3> QED
      BY <1>2, <3>1, <3>2 DEF Reject
  <2>2. CASE PollFails
    <3>1. Current \in Backed
      BY <2>2, CurrentTyped, ElementOfSeq DEF PollFails, Handed, Current, CountsBacked
    <3>2. PICK r \in Backed : r = Current
      BY <3>1
    <3>3. Added(OneMore(r))
      BY <2>2, <3>2 DEF PollFails, Requeue, Added, topicVars
    <3>4. OneMore(r) \in Backed'
      BY <3>3, RequeuedBacked
    <3> QED
      BY <1>2, <3>3, <3>4, AddedKeeps
  <2>3. CASE Moved
    BY <1>2, <2>3, MovedKeeps
  <2> QED
    BY <2>1, <2>2, <2>3, StepShape
<1>4. retry' \in Seq(Backed')
  <2>1. ASSUME NEW m \in Messages, PublishCorrected(m) PROVE retry' \in Seq(Backed')
    BY <1>2, <2>1, FirstBacked DEF PublishCorrected
  <2>2. CASE ReplayOne
    <3>1. PICK i \in selected : retry' = Append(retry, dlq[i])
      BY <2>2 DEF ReplayOne
    <3>2. dlq[i] \in Backed'
      BY <1>2, ElementOfSeq DEF TypeOK
    <3> QED
      BY <1>2, <3>1, <3>2
  <2>3. CASE retry' = retry
    BY <1>2, <2>3
  <2> QED
    BY <2>1, <2>2, <2>3, RetryFrom
<1> QED
  BY <1>3, <1>4 DEF CountsBacked, CountNeverOverstated

-----------------------------------------------------------------------------
(***************************************************************************)
(* The limit of a careful operator.                                         *)
(***************************************************************************)

LEMMA LimitStep == ASSUME TypeOK, LimitKept, [Next]_vars PROVE LimitKept'
<1>1. habit' = habit
  BY ToolFrom DEF StartReplay, ReplayOne, ReplayCutShort, toolVars
<1> SUFFICES ASSUME habit = {"unexhausted"}
             PROVE  /\ dlq' \in Seq(Limited) /\ buffer' \in Seq(Limited) /\ lost' \in Seq(Limited)
                    /\ \A i \in selected' : NotExhausted(dlq'[i])
                    /\ retry' \in Seq(Replayable)
  BY <1>1 DEF LimitKept, ExhaustedStays, Limited, Replayable, NotExhausted
<1>2. /\ dlq \in Seq(Limited) /\ buffer \in Seq(Limited) /\ lost \in Seq(Limited)
      /\ \A i \in selected : NotExhausted(dlq[i])
      /\ retry \in Seq(Replayable)
  BY DEF LimitKept, ExhaustedStays
<1>3. ASSUME NEW m \in Messages
      PROVE  [msg |-> m, retries |-> 0] \in Limited \cap Replayable
  BY ReplayAssumption DEF Limited, Replayable, Records
<1>4. dlq' \in Seq(Limited) /\ buffer' \in Seq(Limited) /\ lost' \in Seq(Limited)
  <2>1. CASE \E m \in Messages : Reject(m)
    BY <1>2, <1>3, <2>1 DEF Reject
  <2>2. CASE PollFails
    <3>1. Current \in Replayable
      BY <1>2, <2>2, CurrentTyped, ElementOfSeq DEF PollFails, Handed, Current
    <3>2. OneMore(Current) \in Limited
      <4>1. /\ OneMore(Current) \in Records /\ Current.retries \in Nat
            /\ OneMore(Current).retries = Current.retries + 1
        BY <3>1, RecordParts DEF Replayable
      <4>2. Current.retries = 0 \/ Current.retries < MaxRetryCount
        BY <3>1 DEF Replayable, NotExhausted
      <4>3. OneMore(Current).retries \in 0 .. MaxRetryCount \cup {1}
        BY <4>1, <4>2, ReplayAssumption
      <4> QED
        BY <4>1, <4>3 DEF Limited
    <3>3. Added(OneMore(Current))
      BY <2>2 DEF PollFails, Requeue, Added, topicVars
    <3> QED
      BY <1>2, <3>2, <3>3, AddedKeeps
  <2>3. CASE Moved
    BY <1>2, <2>3, MovedKeeps
  <2> QED
    BY <2>1, <2>2, <2>3, StepShape
<1>5. \A i \in selected' : NotExhausted(dlq'[i])
  <2>1. \A i \in selected' : i \in 1 .. Len(dlq) /\ NotExhausted(dlq[i])
    <3>1. CASE StartReplay
      <4>1. selected' = SkipExhausted
        BY <3>1 DEF StartReplay
      <4> QED
        BY <4>1 DEF SkipExhausted
    <3>2. CASE selected' \subseteq selected
      BY <1>2, <3>2 DEF TypeOK
    <3> QED
      BY <3>1, <3>2, ToolFrom DEF ReplayOne, ReplayCutShort, toolVars
  <2> QED
    BY <2>1, RecordsTyped DEF NotExhausted
<1>6. retry' \in Seq(Replayable)
  <2>1. ASSUME NEW m \in Messages, PublishCorrected(m) PROVE retry' \in Seq(Replayable)
    BY <1>2, <1>3, <2>1 DEF PublishCorrected
  <2>2. CASE ReplayOne
    <3>1. PICK i \in selected : retry' = Append(retry, dlq[i])
      BY <2>2 DEF ReplayOne
    <3>2. dlq[i] \in Replayable
      BY <1>2, ElementOfSeq DEF TypeOK, Replayable
    <3> QED
      BY <1>2, <3>1, <3>2
  <2>3. CASE retry' = retry
    BY <1>2, <2>3
  <2> QED
    BY <2>1, <2>2, <2>3, RetryFrom
<1> QED
  BY <1>4, <1>5, <1>6

-----------------------------------------------------------------------------
(***************************************************************************)
(* The theorems.                                                            *)
(***************************************************************************)

LEMMA InitIInv == ASSUME Init PROVE IInv
<1>1. \A S : <<>> \in Seq(S)
  BY EmptySeq
<1>2. TypeOK
  <2>1. /\ dlq \in Seq(Records) /\ retry \in Seq(Records) /\ Len(retry) = 0
        /\ buffer \in Seq(Records) /\ lost \in Seq(Records) /\ inflight \in Seq(0 .. Len(retry))
    BY <1>1 DEF Init
  <2> QED
    BY <2>1, ReplayAssumption DEF Init, TypeOK
<1>3. cache \subseteq rows /\ InHand
  BY DEF Init, InHand
<1>4. CommitsInOrder
  <2>1. 0 \in Confirmed
    BY DEF Init, Confirmed, SettledBelow, SentBackBelow
  <2> QED
    BY <1>1, <2>1 DEF Init, CommitsInOrder
<1>5. CountsBacked /\ LimitKept
  BY <1>1 DEF Init, CountsBacked, CountNeverOverstated, LimitKept, ExhaustedStays
<1> QED
  BY <1>2, <1>3, <1>4, <1>5 DEF IInv

(* What every reachable state of the topics, the tool and the retry consumer *)
(* is (retry_main.py main, replay_dlq.py main, dlq.py).                      *)
THEOREM Invariance == Spec => []IInv
<1>1. Init => IInv
  BY InitIInv
<1>2. ASSUME IInv, [Next]_vars PROVE IInv'
  <2>1. TypeOK /\ Core
    BY <1>2 DEF IInv, Core
  <2>2. TypeOK' /\ InHand'
    BY <1>2, <2>1, TypeStep, InHandStep
  <2>3. cache' \subseteq rows' /\ CommitsInOrder'
    BY <1>2, <2>1, CacheStep, CommitsStep DEF IInv
  <2>4. CountsBacked' /\ LimitKept'
    BY <1>2, <2>1, CountsStep, LimitStep DEF IInv
  <2> QED
    BY <2>2, <2>3, <2>4 DEF IInv
<1> QED
  BY <1>1, <1>2, PTL DEF Spec

(* Every value has its type, and every place on a topic is one of it.        *)
THEOREM TypeCorrect == Spec => []TypeOK
<1>1. IInv => TypeOK
  BY DEF IInv
<1> QED
  BY <1>1, Invariance, PTL

(* A committed record was recovered or sent back (retry_main.py: _safe_commit*)
(* after the outcome; the give-up does not commit).                          *)
THEOREM CommitsConfirmed == Spec => []RetryConfirmed
<1>1. IInv => RetryConfirmed
  BY DEF IInv, CommitsInOrder, Confirmed, RetryConfirmed
<1> QED
  BY <1>1, Invariance, PTL

(* Each committed failure has a record of its own (retry_main.py:            *)
(* _requeue_to_dlq comes before _safe_commit).                               *)
THEOREM FailuresReturn == Spec => []FailuresSentBack
<1>1. IInv => FailuresSentBack
  BY DEF IInv, CommitsInOrder, Confirmed, FailuresSentBack
<1> QED
  BY <1>1, Invariance, PTL

(* However records are replayed, redelivered and lost, retry_count is backed *)
(* by as many records of failed attempts (retry_main.py 185).                *)
THEOREM CountsAreBacked == Spec => []CountNeverOverstated
<1>1. IInv => CountNeverOverstated
  BY DEF IInv, CountsBacked
<1> QED
  BY <1>1, Invariance, PTL

(* --skip-exhausted bounds retry_count for ever (replay_dlq.py 129).         *)
THEOREM LimitHolds == Spec => []ExhaustedStays
<1>1. IInv => ExhaustedStays
  BY DEF IInv, LimitKept
<1> QED
  BY <1>1, Invariance, PTL

(* Only the death of the process or a failed delivery takes records away.    *)
LEMMA LossShape ==
    ASSUME TypeOK, [Next]_vars
    PROVE  \/ \E m \in Messages : Reject(m)
           \/ PollFails
           \/ Killed \/ NotTaken
           \/ UNCHANGED <<dlq, buffer, lost>> \/ ToDlq \/ OneToDlq
<1>1. ASSUME NEW m \in Messages, PublishCorrected(m) PROVE UNCHANGED <<dlq, buffer, lost>>
  BY <1>1 DEF PublishCorrected
<1>2. CASE StartReplay \/ ReplayOne \/ ReplayCutShort
  BY <1>2 DEF StartReplay, ReplayOne, ReplayCutShort, topicVars
<1>3. CASE Start \/ Stop \/ Evicted
  BY <1>3 DEF Start, Stop, Evicted, topicVars
<1>4. CASE PollSkips \/ PollDuplicate \/ PollNew
  BY <1>4 DEF PollSkips, PollDuplicate, PollNew, topicVars
<1>5. CASE Insert
  BY <1>5 DEF Insert, Recovered, GivesUp, topicVars
<1>6. CASE Exit
  <2>1. CASE FlushTimesOut
    BY <1>6, <2>1 DEF NotTaken
  <2>2. CASE ~FlushTimesOut
    BY <1>6, <2>2 DEF Exit, DlqClose, ToDlq
  <2> QED
    BY <2>1, <2>2
<1>7. CASE Crash \/ PollRaises \/ PollOverflow \/ DlqDeliveryFails
  BY <1>7 DEF Killed, NotTaken
<1>8. CASE DlqDelivered
  BY <1>8 DEF DlqDelivered, topicVars, OneToDlq
<1>9. CASE CommitLands \/ CommitFails \/ UNCHANGED vars
  BY <1>9 DEF CommitLands, CommitFails, vars, topicVars
<1> QED
  BY <1>1, <1>2, <1>3, <1>4, <1>5, <1>6, <1>7, <1>8, <1>9 DEF Next, Poll

(* Only a death of the process or a failed delivery takes a record off its   *)
(* way to the DLQ: no stop, give-up, eviction, outage, failed commit or      *)
(* interrupted replay does (dlq.py close, retry_main.py main).               *)
THEOREM QueuedSurvive == Spec => FailuresSurvive
<1> DEFINE Kept ==
        \A s \in {dlq, buffer} : \A i \in 1 .. Len(s) : OnItsWay(s[i]) <= OnItsWay(s[i])'
<1>1. ASSUME IInv, [Next]_vars
      PROVE  Killed \/ NotTaken \/ Kept
  <2>1. /\ TypeOK
        /\ dlq \in Seq(Records) /\ buffer \in Seq(Records) /\ lost \in Seq(Records)
    BY <1>1 DEF IInv, TypeOK
  <2>2. \A X : Hits(X, dlq) \in Nat /\ Hits(X, buffer) \in Nat /\ Hits(X, lost) \in Nat
    BY <2>1, PlacesFinite
  <2>3. ASSUME \A X : Hits(X, dlq) + Hits(X, buffer) <= Hits(X, dlq') + Hits(X, buffer')
        PROVE  Kept
    BY <2>3 DEF OnItsWay, Times
  <2>4. ASSUME NEW r \in Records, Added(r)
        PROVE  Kept
    <3>1. \A X : /\ Hits(X, Append(dlq, r)) = Hits(X, dlq) + One(r, X)
                 /\ Hits(X, Append(buffer, r)) = Hits(X, buffer) + One(r, X)
                 /\ One(r, X) \in Nat
      BY <2>1, HitsAppend, OneValue
    <3>2. CASE dlq' = Append(dlq, r) /\ UNCHANGED <<buffer, lost>>
      BY <2>2, <2>3, <3>1, <3>2
    <3>3. CASE buffer' = Append(buffer, r) /\ UNCHANGED <<dlq, lost>>
      BY <2>2, <2>3, <3>1, <3>3
    <3> QED
      BY <2>4, <3>2, <3>3 DEF Added
  <2>5. CASE \E m \in Messages : Reject(m)
    <3>1. PICK m \in Messages : Reject(m)
      BY <2>5
    <3>2. Added([msg |-> m, retries |-> 0]) /\ [msg |-> m, retries |-> 0] \in Records
      BY <3>1 DEF Reject, Added, Records
    <3> QED
      BY <2>4, <3>2
  <2>6. CASE PollFails
    <3>1. Added(OneMore(Current)) /\ OneMore(Current) \in Records
      BY <2>1, <2>6, CurrentTyped, RecordParts DEF PollFails, Handed, Requeue, Added, topicVars
    <3> QED
      BY <2>4, <3>1
  <2>7. CASE UNCHANGED <<dlq, buffer, lost>> \/ ToDlq \/ OneToDlq
    <3>1. CASE ToDlq
      <4>1. \A X : Hits(X, dlq \o buffer) = Hits(X, dlq) + Hits(X, buffer) /\ Hits(X, <<>>) = 0
        BY <2>1, HitsConcat, HitsEmpty
      <4> QED
        BY <2>2, <2>3, <3>1, <4>1 DEF ToDlq
    <3>2. CASE OneToDlq
      <4>1. Head(buffer) \in Records /\ Tail(buffer) \in Seq(Records)
        BY <2>1, <3>2, HeadTailProperties DEF OneToDlq
      <4>2. \A X : /\ Hits(X, Append(dlq, Head(buffer))) = Hits(X, dlq) + One(Head(buffer), X)
                   /\ Hits(X, buffer) = One(Head(buffer), X) + Hits(X, Tail(buffer))
                   /\ One(Head(buffer), X) \in Nat /\ Hits(X, Tail(buffer)) \in Nat
        BY <2>1, <3>2, <4>1, HitsAppend, HitsHeadTail, OneValue, PlacesFinite DEF OneToDlq
      <4> QED
        BY <2>2, <2>3, <3>2, <4>2 DEF OneToDlq
    <3>3. CASE UNCHANGED <<dlq, buffer, lost>>
      BY <2>2, <2>3, <3>3
    <3> QED
      BY <2>7, <3>1, <3>2, <3>3
  <2> QED
    BY <1>1, <2>1, <2>5, <2>6, <2>7, LossShape
<1> QED
  BY <1>1, Invariance, PTL DEF FailuresSurvive, Spec
=============================================================================
