-------------------------- MODULE DedupCacheProofs --------------------------
(***************************************************************************)
(* Proofs about DedupCache: the entries stay in the order of their ages,    *)
(* hence a lookup is exact, and the ids held behave as a ForgetfulSet.      *)
(***************************************************************************)
EXTENDS DedupCache, FiniteSetTheorems, SequenceTheorems, TLAPS

(* A sequence of entries that the cache may be. *)
Ordered(s) ==
    /\ s \in Seq(Entries)
    /\ \A i, j \in 1 .. Len(s) : i <= j => s[i].at <= s[j].at
    /\ \A i, j \in 1 .. Len(s) : s[i].id = s[j].id => i = j

IdsOf(s) == { s[i].id : i \in 1 .. Len(s) }

(* What RemoveAt leaves (move_to_end takes the entry out of its place). *)
LEMMA RemoveAtFacts ==
    ASSUME NEW S, NEW s \in Seq(S), NEW k \in 1 .. Len(s)
    PROVE  LET r == Ext!RemoveAt(s, k) IN
           /\ r \in Seq(S)
           /\ Len(r) = Len(s) - 1
           /\ \A i \in 1 .. Len(s) - 1 : r[i] = s[IF i < k THEN i ELSE i + 1]
  <1> DEFINE a == SubSeq(s, 1, k - 1)
             b == SubSeq(s, k + 1, Len(s))
  <1>1. \A i \in 1 .. Len(s) : s[i] \in S
    BY ElementOfSeq
  <1>2. a \in Seq(S) /\ Len(a) = k - 1 /\ \A i \in 1 .. k - 1 : a[i] = s[i]
    <2>1. \A i \in 1 .. k - 1 : s[i] \in S
      BY <1>1
    <2> QED BY <2>1, SubSeqProperties
  <1>3. b \in Seq(S) /\ Len(b) = Len(s) - k /\ \A i \in 1 .. Len(s) - k : b[i] = s[k + i]
    <2>1. \A i \in k + 1 .. Len(s) : s[i] \in S
      BY <1>1
    <2>2. /\ SubSeq(s, k + 1, Len(s)) \in Seq(S)
          /\ Len(SubSeq(s, k + 1, Len(s))) = IF k + 1 <= Len(s) THEN Len(s) - (k + 1) + 1 ELSE 0
          /\ \A i \in 1 .. Len(s) - (k + 1) + 1 : SubSeq(s, k + 1, Len(s))[i] = s[k + 1 + i - 1]
      BY <2>1, SubSeqProperties
    <2> QED BY <2>2
  <1>4. Ext!RemoveAt(s, k) = a \o b
    BY DEF Ext!RemoveAt
  <1> HIDE DEF a, b
  <1>5. /\ a \o b \in Seq(S)
        /\ Len(a \o b) = Len(a) + Len(b)
        /\ \A i \in 1 .. Len(a) + Len(b) : (a \o b)[i] = IF i <= Len(a) THEN a[i] ELSE b[i - Len(a)]
    BY <1>2, <1>3, ConcatProperties
  <1>6. \A i \in 1 .. Len(s) - 1 : (a \o b)[i] = s[IF i < k THEN i ELSE i + 1]
    <2> TAKE i \in 1 .. Len(s) - 1
    <2>1. CASE i < k
      BY <1>2, <1>3, <1>5, <2>1
    <2>2. CASE ~(i < k)
      <3>1. i - Len(a) \in 1 .. Len(s) - k /\ k + (i - Len(a)) = i + 1
        BY <1>2, <2>2
      <3>2. (a \o b)[i] = b[i - Len(a)]
        BY <1>2, <1>3, <1>5, <2>2
      <3> QED BY <1>3, <2>2, <3>1, <3>2
    <2> QED BY <2>1, <2>2
  <1> QED BY <1>2, <1>3, <1>4, <1>5, <1>6

(* Removing one entry keeps the order and drops that id alone (OrderedDict). *)
LEMMA RemoveOrdered ==
    ASSUME NEW s, Ordered(s), NEW k \in 1 .. Len(s)
    PROVE  LET r == Ext!RemoveAt(s, k) IN
           /\ Ordered(r)
           /\ Len(r) = Len(s) - 1
           /\ IdsOf(r) = IdsOf(s) \ {s[k].id}
           /\ \A i \in 1 .. Len(r) : \E j \in 1 .. Len(s) : r[i] = s[j]
  <1> DEFINE r == Ext!RemoveAt(s, k)
             at(i) == IF i < k THEN i ELSE i + 1
  <1>1. s \in Seq(Entries)
    BY DEF Ordered
  <1>2. /\ r \in Seq(Entries)
        /\ Len(r) = Len(s) - 1
        /\ \A i \in 1 .. Len(r) : at(i) \in 1 .. Len(s) /\ r[i] = s[at(i)]
    <2> HIDE DEF r
    <2>1. r \in Seq(Entries) /\ Len(r) = Len(s) - 1 /\ \A i \in 1 .. Len(s) - 1 : r[i] = s[IF i < k THEN i ELSE i + 1]
      BY <1>1, RemoveAtFacts DEF r
    <2> QED BY <1>1, <2>1
  <1>3. \A j \in 1 .. Len(s) : j # k => \E i \in 1 .. Len(r) : at(i) = j
    <2> TAKE j \in 1 .. Len(s)
    <2> HAVE j # k
    <2>1. CASE j < k
      BY <1>1, <1>2, <2>1
    <2>2. CASE j > k
      <3>1. j - 1 \in 1 .. Len(r) /\ at(j - 1) = j
        BY <1>1, <1>2, <2>2
      <3> QED BY <3>1
    <2> QED BY <1>1, <2>1, <2>2
  <1>4. Ordered(r)
    <2>1. \A i, j \in 1 .. Len(r) : i <= j => at(i) <= at(j)
      BY <1>1, <1>2
    <2>2. \A i, j \in 1 .. Len(r) : at(i) = at(j) => i = j
      BY <1>1, <1>2
    <2> HIDE DEF at, r
    <2>3. \A i, j \in 1 .. Len(r) : i <= j => r[i].at <= r[j].at
      BY <1>2, <2>1 DEF Ordered
    <2>4. \A i, j \in 1 .. Len(r) : r[i].id = r[j].id => i = j
      BY <1>2, <2>2 DEF Ordered
    <2> QED BY <1>2, <2>3, <2>4 DEF Ordered
  <1>5. IdsOf(r) = IdsOf(s) \ {s[k].id}
    <2>1. \A i \in 1 .. Len(r) : at(i) # k
      BY <1>1, <1>2
    <2> HIDE DEF at, r
    <2>2. ASSUME NEW x \in IdsOf(r) PROVE x \in IdsOf(s) \ {s[k].id}
      BY <1>2, <2>1 DEF IdsOf, Ordered
    <2>3. ASSUME NEW x \in IdsOf(s) \ {s[k].id} PROVE x \in IdsOf(r)
      <3>1. PICK j \in 1 .. Len(s) : x = s[j].id /\ j # k
        BY DEF IdsOf
      <3>2. PICK i \in 1 .. Len(r) : at(i) = j
        BY <1>3, <3>1
      <3> QED BY <1>2, <3>1, <3>2 DEF IdsOf
    <2> QED BY <2>2, <2>3
  <1>6. \A i \in 1 .. Len(r) : \E j \in 1 .. Len(s) : r[i] = s[j]
    BY <1>2
  <1> QED BY <1>2, <1>4, <1>5, <1>6

(* Dropping from the front keeps the order (popitem and _evict_expired). *)
LEMMA DropOrdered ==
    ASSUME NEW s, Ordered(s), NEW k \in 0 .. Len(s)
    PROVE  LET d == SubSeq(s, k + 1, Len(s)) IN
           /\ Ordered(d)
           /\ Len(d) = Len(s) - k
           /\ \A i \in 1 .. Len(s) - k : d[i] = s[k + i]
  <1> DEFINE d == SubSeq(s, k + 1, Len(s))
  <1>1. s \in Seq(Entries)
    BY DEF Ordered
  <1>2. \A i \in k + 1 .. Len(s) : s[i] \in Entries
    BY <1>1, ElementOfSeq
  <1>3. /\ d \in Seq(Entries)
        /\ Len(d) = IF k + 1 <= Len(s) THEN Len(s) - (k + 1) + 1 ELSE 0
        /\ \A i \in 1 .. Len(s) - (k + 1) + 1 : d[i] = s[k + 1 + i - 1]
    BY <1>1, <1>2, SubSeqProperties
  <1> HIDE DEF d
  <1>4. d \in Seq(Entries) /\ Len(d) = Len(s) - k /\ \A i \in 1 .. Len(s) - k : d[i] = s[k + i]
    BY <1>1, <1>3
  <1>5. Ordered(d)
    <2>1. \A i \in 1 .. Len(d) : k + i \in 1 .. Len(s)
      BY <1>1, <1>4
    <2>2. \A i, j \in 1 .. Len(d) : i <= j => d[i].at <= d[j].at
      <3> TAKE i, j \in 1 .. Len(d)
      <3> HAVE i <= j
      <3>1. k + i <= k + j /\ d[i] = s[k + i] /\ d[j] = s[k + j]
        BY <1>1, <1>4
      <3> QED BY <2>1, <3>1 DEF Ordered
    <2>3. \A i, j \in 1 .. Len(d) : d[i].id = d[j].id => i = j
      BY <1>1, <1>4, <2>1 DEF Ordered
    <2> QED BY <1>4, <2>2, <2>3 DEF Ordered
  <1> QED BY <1>4, <1>5 DEF d

(* What add() makes of the dict before it looks at the size. *)
LEMMA ToEndOrdered ==
    ASSUME NEW s, Ordered(s), NEW id \in Ids, NEW t \in 0 .. MaxTime,
           \A i \in 1 .. Len(s) : s[i].at <= t
    PROVE  LET r == ToEnd(s, id, t) IN
           /\ Ordered(r)
           /\ Len(r) \in 1 .. Len(s) + 1
           /\ r[Len(r)] = [id |-> id, at |-> t]
           /\ IdsOf(r) = IdsOf(s) \cup {id}
           /\ \A i \in 1 .. Len(r) : r[i].at <= t
  <1> DEFINE e == [id |-> id, at |-> t]
             there == \E i \in 1 .. Len(s) : s[i].id = id
             rest == IF there THEN Ext!RemoveAt(s, CHOOSE i \in 1 .. Len(s) : s[i].id = id) ELSE s
             r == Append(rest, e)
  <1>1. e \in Entries
    BY DEF Entries
  <1>2. /\ Ordered(rest)
        /\ Len(rest) \in 0 .. Len(s)
        /\ IdsOf(rest) = IdsOf(s) \ {id}
        /\ \A i \in 1 .. Len(rest) : rest[i].at <= t
    <2>1. CASE there
      <3>1. PICK k \in 1 .. Len(s) : k = (CHOOSE i \in 1 .. Len(s) : s[i].id = id) /\ s[k].id = id
        BY <2>1
      <3>2. rest = Ext!RemoveAt(s, k)
        BY <2>1, <3>1
      <3> HIDE DEF rest, there
      <3> DEFINE q == Ext!RemoveAt(s, k)
      <3>3. /\ Ordered(q)
            /\ Len(q) = Len(s) - 1
            /\ IdsOf(q) = IdsOf(s) \ {s[k].id}
            /\ \A i \in 1 .. Len(q) : \E j \in 1 .. Len(s) : q[i] = s[j]
        BY RemoveOrdered
      <3> HIDE DEF q
      <3>4. Len(s) \in Nat
        BY DEF Ordered
      <3>5. rest = q
        BY <3>2 DEF q
      <3> QED BY <3>1, <3>3, <3>4, <3>5
    <2>2. CASE ~there
      <3>1. rest = s /\ id \notin IdsOf(s)
        BY <2>2 DEF IdsOf
      <3> HIDE DEF rest, there
      <3> QED BY <3>1 DEF Ordered
    <2> QED BY <2>1, <2>2
  <1>3. ToEnd(s, id, t) = r
    BY DEF ToEnd
  <1> HIDE DEF rest, there, e
  <1>4. /\ r \in Seq(Entries)
        /\ Len(r) = Len(rest) + 1
        /\ \A i \in 1 .. Len(rest) : r[i] = rest[i]
        /\ r[Len(rest) + 1] = e
    BY <1>1, <1>2, AppendProperties DEF Ordered
  <1>5. e.id = id /\ e.at = t
    BY DEF e
  <1>6. Len(rest) \in Nat /\ Len(s) \in Nat
    BY <1>2 DEF Ordered
  <1> HIDE DEF r
  <1>7. \A i \in 1 .. Len(r) : i \in 1 .. Len(rest) \/ i = Len(rest) + 1
    BY <1>4, <1>6
  <1>8. \A i \in 1 .. Len(rest) : rest[i].id # id
    BY <1>2 DEF IdsOf
  <1>9. \A i \in 1 .. Len(r) : r[i].at <= t
    BY <1>2, <1>4, <1>5, <1>7
  <1>10. Ordered(r)
    <2>1. \A i, j \in 1 .. Len(r) : i <= j => r[i].at <= r[j].at
      <3> TAKE i, j \in 1 .. Len(r)
      <3> HAVE i <= j
      <3>1. CASE j = Len(rest) + 1
        BY <1>4, <1>5, <1>9, <3>1
      <3>2. CASE j \in 1 .. Len(rest)
        <4>1. i \in 1 .. Len(rest)
          BY <1>6, <3>2
        <4> QED BY <1>2, <1>4, <3>2, <4>1 DEF Ordered
      <3> QED BY <1>7, <3>1, <3>2
    <2>2. \A i, j \in 1 .. Len(r) : r[i].id = r[j].id => i = j
      <3> TAKE i, j \in 1 .. Len(r)
      <3> HAVE r[i].id = r[j].id
      <3>1. CASE i \in 1 .. Len(rest) /\ j \in 1 .. Len(rest)
        BY <1>2, <1>4, <3>1 DEF Ordered
      <3>2. CASE i = Len(rest) + 1 /\ j \in 1 .. Len(rest)
        BY <1>4, <1>5, <1>8, <3>2
      <3>3. CASE i \in 1 .. Len(rest) /\ j = Len(rest) + 1
        BY <1>4, <1>5, <1>8, <3>3
      <3> QED BY <1>7, <3>1, <3>2, <3>3
    <2> QED BY <1>4, <2>1, <2>2 DEF Ordered
  <1>11. IdsOf(r) = IdsOf(s) \cup {id}
    <2>1. IdsOf(r) = IdsOf(rest) \cup {id}
      <3>1. Len(rest) + 1 \in 1 .. Len(r) /\ \A i \in 1 .. Len(rest) : i \in 1 .. Len(r)
        BY <1>4, <1>6
      <3>2. ASSUME NEW x \in IdsOf(r) PROVE x \in IdsOf(rest) \cup {id}
        <4>1. PICK i \in 1 .. Len(r) : x = r[i].id
          BY DEF IdsOf
        <4> QED BY <1>4, <1>5, <1>7, <4>1 DEF IdsOf
      <3>3. ASSUME NEW x \in IdsOf(rest) \cup {id} PROVE x \in IdsOf(r)
        BY <1>4, <1>5, <3>1 DEF IdsOf
      <3> QED BY <3>2, <3>3
    <2> QED BY <1>2, <2>1
  <1>12. Len(r) \in 1 .. Len(s) + 1 /\ r[Len(r)] = e
    BY <1>2, <1>4, <1>6
  <1> QED BY <1>3, <1>9, <1>10, <1>11, <1>12 DEF e

(* popitem(last=False) takes one entry at most, and never the one just added. *)
LEMMA KeepLastOrdered ==
    ASSUME NEW s, Ordered(s), Len(s) \in 1 .. MaxSize + 1
    PROVE  LET d == KeepLast(s) IN
           /\ Ordered(d)
           /\ Len(d) \in 1 .. MaxSize
           /\ d = s \/ Len(d) = MaxSize
           /\ d[Len(d)] = s[Len(s)]
           /\ \A i \in 1 .. Len(d) : \E j \in 1 .. Len(s) : d[i] = s[j]
  <1> USE CacheAssumption
  <1>1. CASE Len(s) <= MaxSize
    <2>1. KeepLast(s) = s
      BY <1>1 DEF KeepLast
    <2> QED BY <1>1, <2>1
  <1>2. CASE Len(s) = MaxSize + 1
    <2> DEFINE d == SubSeq(s, 2, Len(s))
    <2>1. KeepLast(s) = d
      BY <1>2 DEF KeepLast
    <2>2. /\ Ordered(d)
          /\ Len(d) = Len(s) - 1
          /\ \A i \in 1 .. Len(s) - 1 : d[i] = s[1 + i]
      <3>1. 1 \in 0 .. Len(s) /\ 1 + 1 = 2
        BY <1>2
      <3>2. SubSeq(s, 2, Len(s)) = SubSeq(s, 1 + 1, Len(s))
        BY <3>1
      <3> HIDE DEF d
      <3>3. d = SubSeq(s, 1 + 1, Len(s))
        BY <3>2 DEF d
      <3> QED BY <3>1, <3>3, DropOrdered
    <2> HIDE DEF d
    <2>3. Len(d) = MaxSize /\ Len(d) \in 1 .. MaxSize /\ d[Len(d)] = s[Len(s)]
      BY <1>2, <2>2
    <2>4. \A i \in 1 .. Len(d) : 1 + i \in 1 .. Len(s) /\ d[i] = s[1 + i]
      BY <1>2, <2>2
    <2> QED BY <2>1, <2>2, <2>3, <2>4
  <1> QED BY <1>1, <1>2

(* Each id stands in the dict once. *)
LEMMA SizeIsLength ==
    ASSUME NEW s, Ordered(s)
    PROVE  Cardinality(IdsOf(s)) = Len(s)
  <1> DEFINE f == [i \in 1 .. Len(s) |-> s[i].id]
  <1>1. Len(s) \in Nat
    BY DEF Ordered
  <1>2. IsFiniteSet(1 .. Len(s)) /\ Cardinality(1 .. Len(s)) = Len(s)
    <2>1. /\ IsFiniteSet(1 .. Len(s))
          /\ Cardinality(1 .. Len(s)) = IF 1 > Len(s) THEN 0 ELSE Len(s) - 1 + 1
      BY <1>1, FS_Interval
    <2> QED BY <1>1, <2>1
  <1>3. f \in Bijection(1 .. Len(s), IdsOf(s))
    <2>1. f \in [1 .. Len(s) -> IdsOf(s)]
      BY DEF IdsOf
    <2>2. \A i, j \in 1 .. Len(s) : f[i] = f[j] => i = j
      BY DEF Ordered
    <2>3. \A x \in IdsOf(s) : \E i \in 1 .. Len(s) : f[i] = x
      BY DEF IdsOf
    <2> QED BY <2>1, <2>2, <2>3 DEF Bijection, Injection, Surjection, IsInjective
  <1>4. ExistsBijection(1 .. Len(s), IdsOf(s))
    BY <1>3 DEF ExistsBijection
  <1> QED BY <1>2, <1>4, FS_Bijection

-----------------------------------------------------------------------------
LEMMA InOrderMeansOrdered ==
    ASSUME InOrder
    PROVE  Ordered(seen) /\ IdsOf(seen) = Held
  BY DEF InOrder, TypeOK, FrontIsOldest, EachIdOnce, Ordered, IdsOf, Held

LEMMA OrderedMeansInOrder ==
    ASSUME Ordered(seen'), Len(seen') <= MaxSize, now' \in 0 .. MaxTime,
           \A i \in 1 .. Len(seen') : seen'[i].at <= now'
    PROVE  InOrder' /\ IdsOf(seen') = Held'
  BY DEF InOrder, TypeOK, FrontIsOldest, EachIdOnce, FitsMaxSize, Ordered, IdsOf, Held

(* An entry behind the first young one is young: the order of ages. *)
LEMMA FrontSuffices ==
    ASSUME InOrder, NEW k \in 0 .. Len(seen), ExpiredPrefix(seen, k)
    PROVE  \A j \in 1 .. Len(seen) : ~Expired(seen[j]) <=> j > k
  <1>1. Ordered(seen) /\ seen \in Seq(Entries) /\ now \in 0 .. MaxTime
    BY InOrderMeansOrdered DEF InOrder, TypeOK
  <1> TAKE j \in 1 .. Len(seen)
  <1>2. CASE j <= k
    <2>1. j \in 1 .. k
      BY <1>1, <1>2
    <2> QED BY <1>1, <1>2, <2>1 DEF ExpiredPrefix
  <1>3. CASE j > k
    <2>1. k + 1 \in 1 .. Len(seen) /\ k + 1 <= j /\ k < Len(seen)
      BY <1>1, <1>3
    <2>2. ~Expired(seen[k + 1])
      BY <2>1 DEF ExpiredPrefix
    <2>3. seen[k + 1].at <= seen[j].at
      BY <1>1, <2>1 DEF Ordered
    <2>4. seen[k + 1].at \in Nat /\ seen[j].at \in Nat /\ now - Ttl \in Int
      <3>1. seen[k + 1] \in Entries /\ seen[j] \in Entries
        BY <1>1, <2>1, ElementOfSeq
      <3>2. \A e \in Entries : e.at \in Nat
        BY CacheAssumption DEF Entries
      <3> QED BY <1>1, <3>1, <3>2, CacheAssumption
    <2> QED BY <1>3, <2>2, <2>3, <2>4 DEF Expired
  <1> QED BY <1>1, <1>2, <1>3

(* What a lookup does to the ids: all that are too old go, and no other. *)
LEMMA ContainsStep ==
    ASSUME InOrder, NEW id \in Ids, Contains(id)
    PROVE  /\ InOrder'
           /\ Held' = { seen[i].id : i \in { j \in 1 .. Len(seen) : ~Expired(seen[j]) } }
  <1>1. Ordered(seen) /\ seen \in Seq(Entries) /\ now \in 0 .. MaxTime
    BY InOrderMeansOrdered DEF InOrder, TypeOK
  <1>2. PICK k \in 0 .. Len(seen) : ExpiredPrefix(seen, k) /\ seen' = SubSeq(seen, k + 1, Len(seen))
    BY DEF Contains
  <1>3. /\ Ordered(seen')
        /\ Len(seen') = Len(seen) - k
        /\ \A i \in 1 .. Len(seen) - k : seen'[i] = seen[k + i]
    BY <1>1, <1>2, DropOrdered
  <1>4. \A i \in 1 .. Len(seen') : k + i \in 1 .. Len(seen) /\ seen'[i] = seen[k + i]
    BY <1>1, <1>3
  <1>5. InOrder' /\ IdsOf(seen') = Held'
    <2>1. Len(seen') <= MaxSize
      BY <1>1, <1>3, CacheAssumption DEF InOrder, FitsMaxSize
    <2>2. now' = now
      BY <1>1 DEF Contains, InOrder, TypeOK
    <2>3. \A i \in 1 .. Len(seen') : seen'[i].at <= now'
      BY <1>4, <2>2 DEF InOrder
    <2> QED BY <1>1, <1>3, <2>1, <2>2, <2>3, OrderedMeansInOrder
  <1>6. \A j \in 1 .. Len(seen) : ~Expired(seen[j]) <=> j > k
    BY <1>1, <1>2, FrontSuffices
  <1> DEFINE young == { seen[i].id : i \in { j \in 1 .. Len(seen) : ~Expired(seen[j]) } }
  <1>7. ASSUME NEW x \in IdsOf(seen') PROVE x \in young
    <2>1. PICK i \in 1 .. Len(seen') : x = seen'[i].id
      BY DEF IdsOf
    <2>2. k + i > k
      BY <1>3, <1>1
    <2> QED BY <1>4, <1>6, <2>1, <2>2
  <1>8. ASSUME NEW x \in young PROVE x \in IdsOf(seen')
    <2>1. PICK j \in 1 .. Len(seen) : j > k /\ x = seen[j].id
      BY <1>6
    <2>2. j - k \in 1 .. Len(seen') /\ seen'[j - k] = seen[k + (j - k)] /\ k + (j - k) = j
      BY <1>1, <1>3, <2>1
    <2> QED BY <2>1, <2>2 DEF IdsOf
  <1> QED BY <1>5, <1>7, <1>8

(* What an addition does to the ids. *)
LEMMA AddStep ==
    ASSUME InOrder, NEW id \in Ids, Add(id)
    PROVE  InOrder' /\ Set!Add(id)
  <1> DEFINE r == ToEnd(seen, id, now)
             d == KeepLast(r)
  <1>1. Ordered(seen) /\ IdsOf(seen) = Held /\ seen \in Seq(Entries) /\ now \in 0 .. MaxTime
    BY InOrderMeansOrdered DEF InOrder, TypeOK
  <1>2. /\ Ordered(r)
        /\ Len(r) \in 1 .. Len(seen) + 1
        /\ r[Len(r)] = [id |-> id, at |-> now]
        /\ IdsOf(r) = IdsOf(seen) \cup {id}
        /\ \A i \in 1 .. Len(r) : r[i].at <= now
    <2>1. \A i \in 1 .. Len(seen) : seen[i].at <= now
      BY DEF InOrder
    <2> QED BY <1>1, <2>1, ToEndOrdered
  <1>3. seen' = d /\ now' = now
    BY <1>1 DEF Add, InOrder, TypeOK
  <1> HIDE DEF r
  <1>4. Len(r) \in 1 .. MaxSize + 1
    BY <1>1, <1>2, CacheAssumption DEF InOrder, FitsMaxSize
  <1>5. /\ Ordered(d)
        /\ Len(d) \in 1 .. MaxSize
        /\ d = r \/ Len(d) = MaxSize
        /\ d[Len(d)] = r[Len(r)]
        /\ \A i \in 1 .. Len(d) : \E j \in 1 .. Len(r) : d[i] = r[j]
    BY <1>2, <1>4, KeepLastOrdered
  <1> HIDE DEF d
  <1>6. InOrder' /\ IdsOf(d) = Held'
    <2>1. \A i \in 1 .. Len(d) : d[i].at <= now
      BY <1>2, <1>5
    <2>2. Len(d) <= MaxSize
      BY <1>5, CacheAssumption
    <2> QED BY <1>1, <1>3, <1>5, <2>1, <2>2, OrderedMeansInOrder
  <1>7. Set!Add(id)
    <2>1. IdsOf(d) \subseteq IdsOf(r)
      BY <1>5 DEF IdsOf
    <2>2. id \in IdsOf(d)
      <3>1. Len(d) \in 1 .. Len(d)
        BY <1>5, CacheAssumption
      <3> QED BY <1>2, <1>5, <3>1 DEF IdsOf
    <2>3. Cardinality(IdsOf(d)) = Len(d)
      BY <1>5, SizeIsLength
    <2>4. Cardinality(IdsOf(d)) <= MaxSize
      BY <1>5, <2>3, CacheAssumption
    <2>5. IdsOf(d) = IdsOf(r) \/ Cardinality(IdsOf(d)) = MaxSize
      BY <1>5, <2>3
    <2>6. \A S : Set!Cardinality(S) = Cardinality(S)
      BY DEF Set!Cardinality, Cardinality, Set!IsFiniteSet, IsFiniteSet
    <2> QED BY <1>1, <1>2, <1>6, <2>1, <2>2, <2>4, <2>5, <2>6 DEF Set!Add
  <1> QED BY <1>6, <1>7

LEMMA TickStep ==
    ASSUME InOrder, Tick
    PROVE  InOrder' /\ Held' = Held
  <1>1. seen' = seen /\ now' = now + 1 /\ now < MaxTime
    BY DEF Tick
  <1>2. seen \in Seq(Entries) /\ now \in 0 .. MaxTime
    BY DEF InOrder, TypeOK
  <1>3. \A i \in 1 .. Len(seen) : seen[i].at <= now + 1
    <2> TAKE i \in 1 .. Len(seen)
    <2>1. seen[i] \in Entries /\ seen[i].at <= now
      BY <1>2, ElementOfSeq DEF InOrder
    <2>2. seen[i].at \in Int
      BY <2>1, CacheAssumption DEF Entries
    <2> QED BY <1>2, <2>1, <2>2
  <1>4. now + 1 \in 0 .. MaxTime
    BY <1>1, <1>2, CacheAssumption
  <1> QED BY <1>1, <1>3, <1>4 DEF InOrder, TypeOK, FrontIsOldest, EachIdOnce, FitsMaxSize, Held

LEMMA InitInOrder == ASSUME Init PROVE InOrder /\ Held = {}
  <1>1. seen = <<>> /\ now = 0
    BY DEF Init
  <1>2. seen \in Seq(Entries) /\ Len(seen) = 0
    BY <1>1, EmptySeq
  <1> QED BY <1>1, <1>2, CacheAssumption
          DEF InOrder, TypeOK, FrontIsOldest, EachIdOnce, FitsMaxSize, Held

(* The OrderedDict stays in the order of its entries' ages, with each id once*)
(* and no more than max_size of them (dedup_cache.py 28-53).                 *)
THEOREM CacheInOrder == Spec => []InOrder
  <1>1. Init => InOrder
    BY InitInOrder
  <1>2. InOrder /\ [Next]_vars => InOrder'
    <2> SUFFICES ASSUME InOrder, [Next]_vars PROVE InOrder'
      OBVIOUS
    <2>1. CASE Tick
      BY <2>1, TickStep
    <2>2. ASSUME NEW id \in Ids, Contains(id) PROVE InOrder'
      BY <2>2, ContainsStep
    <2>3. ASSUME NEW id \in Ids, Add(id) PROVE InOrder'
      BY <2>3, AddStep
    <2>4. CASE UNCHANGED vars
      BY <2>4 DEF vars, InOrder, TypeOK, FrontIsOldest, EachIdOnce, FitsMaxSize
    <2> QED BY <2>1, <2>2, <2>3, <2>4 DEF Next
  <1> QED BY <1>1, <1>2, PTL DEF Spec

(* A lookup forgets exactly the ids whose last addition is older than the    *)
(* time to live: looking at the front alone misses none (dedup_cache.py 47). *)
THEOREM LookupExact == Spec => []LookupIsExact
  <1>1. InOrder => LookupIsExact
    <2> SUFFICES ASSUME InOrder, NEW k \in 0 .. Len(seen), ExpiredPrefix(seen, k)
                 PROVE  k + 1 .. Len(seen) = { j \in 1 .. Len(seen) : ~Expired(seen[j]) }
      BY DEF LookupIsExact
    <2>1. Len(seen) \in Nat
      BY DEF InOrder, TypeOK
    <2>2. \A j \in 1 .. Len(seen) : ~Expired(seen[j]) <=> j > k
      BY FrontSuffices
    <2>3. \A j : j \in k + 1 .. Len(seen) <=> j \in 1 .. Len(seen) /\ j > k
      BY <2>1
    <2> QED BY <2>2, <2>3
  <1> QED BY <1>1, CacheInOrder, PTL

(* The cache implements the forgetful set that the ingestion loop relies on  *)
(* (main.py 322-333, 364-368).                                               *)
THEOREM CacheForgets == Spec => Forgets
  <1>1. Init => Set!Init
    BY InitInOrder DEF Set!Init
  <1>2. InOrder /\ [Next]_vars => [Set!Next]_Held
    <2> SUFFICES ASSUME InOrder, [Next]_vars PROVE [Set!Next]_Held
      OBVIOUS
    <2>1. CASE Tick
      BY <2>1, TickStep
    <2>2. ASSUME NEW id \in Ids, Contains(id) PROVE Set!Next
      <3>1. Held' \subseteq Held
        <4>1. Held' = { seen[i].id : i \in { j \in 1 .. Len(seen) : ~Expired(seen[j]) } }
          BY <2>2, ContainsStep
        <4> QED BY <4>1 DEF Held
      <3> QED BY <3>1 DEF Set!Next, Set!Lookup
    <2>3. ASSUME NEW id \in Ids, Add(id) PROVE Set!Next
      BY <2>3, AddStep DEF Set!Next
    <2>4. CASE UNCHANGED vars
      BY <2>4 DEF vars, Held
    <2> QED BY <2>1, <2>2, <2>3, <2>4 DEF Next
  <1> QED BY <1>1, <1>2, CacheInOrder, PTL DEF Spec, Forgets, Set!Spec
=============================================================================
