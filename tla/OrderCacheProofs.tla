-------------------------- MODULE OrderCacheProofs --------------------------
(***************************************************************************)
(* Proofs about OrderCache, for every set of uids and orders, every        *)
(* capacity and TTL (unlimited and disabled ones included) and every set   *)
(* of batches.                                                             *)
(***************************************************************************)
EXTENDS OrderCache, FiniteSetTheorems, SequenceTheorems, WellFoundedInduction, TLAPS

(* What is left of a list without repetitions when some elements are       *)
(* unlinked: the others, once each, in the same relative order.            *)
LEMMA WithoutProperties ==
    ASSUME NEW S, NEW s \in Seq(S), IsInjective(s), NEW D, NEW r \in Without(s, D)
    PROVE  /\ r \in Seq(S)
           /\ IsInjective(r)
           /\ Range(r) = Range(s) \ D
           /\ \A i, j \in DOMAIN r : i < j =>
                 \E k, l \in DOMAIN s : k < l /\ r[i] = s[k] /\ r[j] = s[l]
<1> DEFINE K == {k \in DOMAIN s : s[k] \notin D}
<1>1. PICK f \in Ascending(K) : r = [i \in DOMAIN f |-> s[f[i]]]
  BY DEF Without
<1>2. K \subseteq 1 .. Len(s) /\ Len(s) \in Nat /\ DOMAIN s = 1 .. Len(s)
  BY LenProperties
<1>3. Cardinality(K) \in Nat
  <2>1. IsFiniteSet(1 .. Len(s))
    BY <1>2, FS_Interval
  <2>2. K \in SUBSET (1 .. Len(s))
    BY <1>2
  <2> HIDE DEF K
  <2> QED BY <2>1, <2>2, FS_Subset, FS_CardinalityType
<1> DEFINE n == Cardinality(K)
<1>4. /\ f \in [1 .. n -> K]
      /\ Range(f) = K
      /\ \A i, j \in 1 .. n : i < j => f[i] < f[j]
  BY <1>1 DEF Ascending
<1>5. r = [i \in 1 .. n |-> s[f[i]]]
  BY <1>1, <1>4
<1> HIDE DEF K, n
<1>6. \A i \in 1 .. n : f[i] \in DOMAIN s /\ s[f[i]] \in S
  <2> SUFFICES ASSUME NEW i \in 1 .. n PROVE f[i] \in DOMAIN s /\ s[f[i]] \in S
    OBVIOUS
  <2>1. f[i] \in K
    BY <1>4
  <2>2. f[i] \in 1 .. Len(s)
    BY <2>1, <1>2
  <2> QED BY <2>2, <1>2, ElementOfSeq
<1>7. r \in Seq(S)
  BY <1>3, <1>5, <1>6, IsASeq DEF n
<1>8. IsInjective(r)
  <2> SUFFICES ASSUME NEW i \in 1 .. n, NEW j \in 1 .. n, s[f[i]] = s[f[j]] PROVE i = j
    BY <1>5 DEF IsInjective
  <2>1. f[i] = f[j]
    BY <1>6 DEF IsInjective
  <2>2. f[i] \in Int /\ f[j] \in Int
    BY <1>2, <1>6
  <2> QED BY <1>3, <1>4, <2>1, <2>2 DEF n
<1>9. Range(r) = Range(s) \ D
  <2>1. ASSUME NEW x \in Range(r) PROVE x \in Range(s) \ D
    <3>1. PICK i \in 1 .. n : x = s[f[i]]
      BY <1>5 DEF Range
    <3>2. f[i] \in K
      BY <1>4
    <3> QED BY <3>1, <3>2 DEF K, Range
  <2>2. ASSUME NEW x \in Range(s) \ D PROVE x \in Range(r)
    <3>1. PICK k \in DOMAIN s : x = s[k]
      BY DEF Range
    <3>2. k \in Range(f)
      BY <2>2, <3>1, <1>4 DEF K
    <3>3. PICK i \in 1 .. n : k = f[i]
      BY <3>2, <1>4 DEF Range
    <3> QED BY <3>1, <3>3, <1>5 DEF Range
  <2> QED BY <2>1, <2>2
<1>10. ASSUME NEW i \in DOMAIN r, NEW j \in DOMAIN r, i < j
       PROVE  \E k, l \in DOMAIN s : k < l /\ r[i] = s[k] /\ r[j] = s[l]
  <2>1. i \in 1 .. n /\ j \in 1 .. n
    BY <1>5
  <2>2. f[i] < f[j] /\ r[i] = s[f[i]] /\ r[j] = s[f[j]]
    BY <2>1, <1>4, <1>5, <1>10
  <2> QED BY <2>1, <2>2, <1>6
<1> QED BY <1>7, <1>8, <1>9, <1>10

(* A new first element, put before a list that does not hold it.           *)
LEMMA PushFrontProperties ==
    ASSUME NEW S, NEW r \in Seq(S), IsInjective(r), NEW u \in S, u \notin Range(r)
    PROVE  /\ <<u>> \o r \in Seq(S)
           /\ DOMAIN (<<u>> \o r) = 1 .. Len(r) + 1
           /\ (<<u>> \o r)[1] = u
           /\ \A i \in 1 .. Len(r) + 1 : i # 1 => i - 1 \in DOMAIN r /\ (<<u>> \o r)[i] = r[i - 1]
           /\ IsInjective(<<u>> \o r)
           /\ Range(<<u>> \o r) = {u} \union Range(r)
<1> DEFINE q == <<u>> \o r
<1>1. Len(r) \in Nat /\ DOMAIN r = 1 .. Len(r)
  BY LenProperties
<1>2. q \in Seq(S) /\ Len(q) = Len(r) + 1 /\ DOMAIN q = 1 .. Len(r) + 1
  BY <1>1
<1>3. q[1] = u
  BY <1>1
<1>4. \A i \in 1 .. Len(r) + 1 : i # 1 => i - 1 \in DOMAIN r /\ q[i] = r[i - 1]
  BY <1>1
<1> HIDE DEF q
<1>5. IsInjective(q)
  <2> SUFFICES ASSUME NEW i \in 1 .. Len(r) + 1, NEW j \in 1 .. Len(r) + 1, q[i] = q[j]
               PROVE  i = j
    BY <1>2 DEF IsInjective
  <2>1. CASE i = 1 \/ j = 1
    BY <2>1, <1>3, <1>4 DEF Range
  <2>2. CASE i # 1 /\ j # 1
    <3>1. r[i - 1] = r[j - 1] /\ i - 1 \in DOMAIN r /\ j - 1 \in DOMAIN r
      BY <2>2, <1>4
    <3>2. i - 1 = j - 1
      BY <3>1 DEF IsInjective
    <3> QED BY <3>2, <1>1
  <2> QED BY <2>1, <2>2
<1>6. Range(q) = {u} \union Range(r)
  <2>1. ASSUME NEW x \in Range(q) PROVE x \in {u} \union Range(r)
    <3>1. PICK i \in 1 .. Len(r) + 1 : x = q[i]
      BY <1>2 DEF Range
    <3> QED BY <3>1, <1>3, <1>4 DEF Range
  <2>2. u \in Range(q)
    BY <1>1, <1>2, <1>3 DEF Range
  <2>3. ASSUME NEW x \in Range(r) PROVE x \in Range(q)
    <3>1. PICK i \in 1 .. Len(r) : x = r[i]
      BY <1>1 DEF Range
    <3>2. i + 1 \in 1 .. Len(r) + 1 /\ i + 1 # 1 /\ (i + 1) - 1 = i
      BY <1>1
    <3>3. q[i + 1] = x
      BY <3>1, <3>2, <1>4
    <3> QED BY <3>2, <3>3, <1>2 DEF Range
  <2> QED BY <2>1, <2>2, <2>3
<1> QED BY <1>2, <1>3, <1>4, <1>5, <1>6 DEF q

-----------------------------------------------------------------------------
(* The part of the type invariant that the methods change together: the    *)
(* map, the list and the ghost.                                            *)
MapAndList ==
    /\ Cached \subseteq UID
    /\ items \in [Cached -> cacheEntry]
    /\ \A u \in Cached : items[u].order.uid = u
    /\ lruList \in Seq(UID)
    /\ cold \subseteq Cached
    /\ ListMatchesMap

(* Front keeps map and list consistent and the list in recency order.      *)
LEMMA FrontStep ==
    ASSUME MapAndList, NEW u \in UID, NEW o \in Order, o.uid = u,
           NEW gone \in SUBSET Cached, u \notin gone, Front(u, o, gone)
    PROVE  /\ MapAndList'
           /\ Cached' = (Cached \ gone) \union {u}
           /\ RecencyOrder => RecencyOrder'
<1>1. PICK rest \in Without(lruList, gone \union {u}) : lruList' = <<u>> \o rest
  BY DEF Front
<1>2. /\ lruList \in Seq(UID)
      /\ IsInjective(lruList)
      /\ Range(lruList) = Cached
  BY DEF MapAndList, ListMatchesMap
<1>3. /\ rest \in Seq(UID)
      /\ IsInjective(rest)
      /\ Range(rest) = Cached \ (gone \union {u})
      /\ \A i, j \in DOMAIN rest : i < j =>
            \E k, l \in DOMAIN lruList : k < l /\ rest[i] = lruList[k] /\ rest[j] = lruList[l]
  BY <1>1, <1>2, WithoutProperties
<1>4. /\ lruList' \in Seq(UID)
      /\ DOMAIN lruList' = 1 .. Len(rest) + 1
      /\ lruList'[1] = u
      /\ \A i \in 1 .. Len(rest) + 1 : i # 1 => i - 1 \in DOMAIN rest /\ lruList'[i] = rest[i - 1]
      /\ IsInjective(lruList')
      /\ Range(lruList') = {u} \union Range(rest)
  <2>1. u \notin Range(rest)
    BY <1>3
  <2> QED BY <1>1, <1>3, <2>1, PushFrontProperties
<1>5. /\ Cached' = (Cached \ gone) \union {u}
      /\ items' \in [Cached' -> cacheEntry]
      /\ items'[u].order.uid = u /\ items'[u].idle = 0
      /\ \A v \in Cached' : v # u => v \in Cached /\ items'[v] = items[v]
  <2>1. items' = [v \in (Cached \ gone) \union {u} |->
                     IF v = u THEN [order |-> o, idle |-> 0] ELSE items[v]]
    BY DEF Front
  <2>2. [order |-> o, idle |-> 0] \in cacheEntry
    BY ConfigAssumption DEF cacheEntry, IdleCap
  <2>3. items \in [Cached -> cacheEntry]
    BY DEF MapAndList
  <2> QED BY <2>1, <2>2, <2>3 DEF Cached
<1>6. cold' = cold \ (gone \union {u})
  BY DEF Front
<1>7. MapAndList'
  <2>1. (Cached \subseteq UID)'
    BY <1>5 DEF MapAndList
  <2>2. (\A v \in Cached : items[v].order.uid = v)'
    BY <1>5 DEF MapAndList
  <2>3. cold' \subseteq Cached'
    BY <1>5, <1>6 DEF MapAndList
  <2>4. ListMatchesMap'
    BY <1>3, <1>4, <1>5 DEF ListMatchesMap
  <2> QED BY <2>1, <2>2, <2>3, <2>4, <1>4, <1>5 DEF MapAndList
<1>8. ASSUME RecencyOrder PROVE RecencyOrder'
  <2> SUFFICES ASSUME NEW i \in DOMAIN lruList', NEW j \in DOMAIN lruList', i < j,
                      lruList'[j] \notin cold'
               PROVE  /\ lruList'[i] \notin cold'
                      /\ items'[lruList'[i]].idle <= items'[lruList'[j]].idle
    BY DEF RecencyOrder
  <2>0. Len(rest) \in Nat
    BY <1>3, LenProperties
  <2>1. i \in 1 .. Len(rest) + 1 /\ j \in 1 .. Len(rest) + 1 /\ j # 1
    BY <1>4, <2>0
  <2>2. /\ lruList'[j] \in Cached' /\ lruList'[j] = rest[j - 1] /\ j - 1 \in DOMAIN rest
        /\ rest[j - 1] \in Cached \ (gone \union {u})
    BY <2>1, <1>3, <1>4, <1>5 DEF Range
  <2>3. items'[lruList'[j]] = items[lruList'[j]] /\ items[lruList'[j]].idle \in Nat
    BY <2>2, <1>5, ConfigAssumption DEF MapAndList, cacheEntry, IdleCap
  <2>4. CASE i = 1
    BY <2>4, <2>3, <1>4, <1>5, <1>6
  <2>5. CASE i # 1
    <3>1. /\ lruList'[i] = rest[i - 1] /\ i - 1 \in DOMAIN rest
          /\ rest[i - 1] \in Cached \ (gone \union {u})
      BY <2>5, <2>1, <1>3, <1>4 DEF Range
    <3>2. i - 1 < j - 1
      BY <2>0, <2>1
    <3>3. PICK k, l \in DOMAIN lruList :
             k < l /\ rest[i - 1] = lruList[k] /\ rest[j - 1] = lruList[l]
      BY <3>1, <3>2, <2>2, <1>3
    <3>4. lruList[l] \notin cold
      BY <2>2, <3>3, <1>6
    <3>5. lruList[k] \notin cold /\ items[lruList[k]].idle <= items[lruList[l]].idle
      BY <1>8, <3>3, <3>4 DEF RecencyOrder
    <3>6. items'[lruList'[i]] = items[lruList'[i]]
      BY <3>1, <1>5
    <3> QED BY <3>1, <3>3, <3>5, <3>6, <2>2, <2>3, <1>6
  <2> QED BY <2>4, <2>5
<1> QED BY <1>5, <1>7, <1>8

(* removeEntry, of however many entries, does so too.                      *)
LEMMA RemoveStep ==
    ASSUME MapAndList, NEW gone, removeEntry(gone)
    PROVE  /\ MapAndList'
           /\ Cached' = Cached \ gone
           /\ RecencyOrder => RecencyOrder'
<1>1. /\ lruList' \in Without(lruList, gone)
      /\ items' = [u \in Cached \ gone |-> items[u]]
      /\ cold' = cold \ gone
  BY DEF removeEntry
<1>2. /\ lruList' \in Seq(UID)
      /\ IsInjective(lruList')
      /\ Range(lruList') = Cached \ gone
      /\ \A i, j \in DOMAIN lruList' : i < j =>
            \E k, l \in DOMAIN lruList :
               k < l /\ lruList'[i] = lruList[k] /\ lruList'[j] = lruList[l]
  <2>1. lruList \in Seq(UID) /\ IsInjective(lruList) /\ Range(lruList) = Cached
    BY DEF MapAndList, ListMatchesMap
  <2> QED BY <1>1, <2>1, WithoutProperties
<1>3. Cached' = Cached \ gone /\ \A u \in Cached' : items'[u] = items[u]
  BY <1>1 DEF Cached
<1>4. MapAndList'
  BY <1>1, <1>2, <1>3 DEF MapAndList, ListMatchesMap
<1>5. ASSUME RecencyOrder PROVE RecencyOrder'
  <2> SUFFICES ASSUME NEW i \in DOMAIN lruList', NEW j \in DOMAIN lruList', i < j,
                      lruList'[j] \notin cold'
               PROVE  /\ lruList'[i] \notin cold'
                      /\ items'[lruList'[i]].idle <= items'[lruList'[j]].idle
    BY DEF RecencyOrder
  <2>1. PICK k, l \in DOMAIN lruList :
           k < l /\ lruList'[i] = lruList[k] /\ lruList'[j] = lruList[l]
    BY <1>2
  <2>2. lruList'[i] \in Cached' /\ lruList'[j] \in Cached'
    BY <1>2, <1>3 DEF Range
  <2>3. lruList[l] \notin cold
    BY <2>1, <2>2, <1>1, <1>3
  <2> QED BY <2>1, <2>2, <2>3, <1>1, <1>3, <1>5 DEF RecencyOrder
<1> QED BY <1>3, <1>4, <1>5

-----------------------------------------------------------------------------
(* Two lists without repetitions and without a common element, one behind  *)
(* the other.                                                              *)
LEMMA ConcatInjective ==
    ASSUME NEW S, NEW s \in Seq(S), NEW t \in Seq(S), IsInjective(s), IsInjective(t),
           Range(s) \cap Range(t) = {}
    PROVE  /\ s \o t \in Seq(S)
           /\ Len(s) \in Nat /\ Len(t) \in Nat
           /\ DOMAIN s = 1 .. Len(s) /\ DOMAIN t = 1 .. Len(t)
           /\ DOMAIN (s \o t) = 1 .. Len(s) + Len(t)
           /\ \A i \in 1 .. Len(s) : (s \o t)[i] = s[i]
           /\ \A i \in Len(s) + 1 .. Len(s) + Len(t) :
                 (s \o t)[i] = t[i - Len(s)] /\ i - Len(s) \in DOMAIN t
           /\ IsInjective(s \o t)
           /\ Range(s \o t) = Range(s) \union Range(t)
<1> DEFINE q == s \o t
<1>1. /\ Len(s) \in Nat /\ Len(t) \in Nat
      /\ DOMAIN s = 1 .. Len(s) /\ DOMAIN t = 1 .. Len(t)
  BY LenProperties
<1>2. /\ q \in Seq(S)
      /\ DOMAIN q = 1 .. Len(s) + Len(t)
      /\ \A i \in 1 .. Len(s) + Len(t) : q[i] = IF i <= Len(s) THEN s[i] ELSE t[i - Len(s)]
  BY ConcatProperties, LenProperties
<1> HIDE DEF q
<1>3. \A i \in 1 .. Len(s) : q[i] = s[i] /\ q[i] \in Range(s)
  BY <1>1, <1>2 DEF Range
<1>4. \A i \in Len(s) + 1 .. Len(s) + Len(t) :
         /\ q[i] = t[i - Len(s)]
         /\ i - Len(s) \in DOMAIN t
         /\ q[i] \in Range(t)
  BY <1>1, <1>2 DEF Range
<1>5. IsInjective(q)
  <2> SUFFICES ASSUME NEW i \in 1 .. Len(s) + Len(t), NEW j \in 1 .. Len(s) + Len(t),
                      q[i] = q[j]
               PROVE  i = j
    BY <1>2 DEF IsInjective
  <2>1. CASE i <= Len(s) /\ j <= Len(s)
    BY <2>1, <1>1, <1>3 DEF IsInjective
  <2>2. CASE i > Len(s) /\ j > Len(s)
    <3>1. i - Len(s) = j - Len(s)
      BY <2>2, <1>1, <1>4 DEF IsInjective
    <3> QED BY <3>1, <1>1
  <2>3. CASE ~(i <= Len(s) <=> j <= Len(s))
    BY <2>3, <1>1, <1>3, <1>4
  <2> QED BY <2>1, <2>2, <2>3, <1>1
<1>6. Range(q) = Range(s) \union Range(t)
  <2>1. Range(q) \subseteq Range(s) \union Range(t)
    BY <1>1, <1>2, <1>3, <1>4 DEF Range
  <2>2. Range(s) \subseteq Range(q)
    BY <1>1, <1>2, <1>3 DEF Range
  <2>3. ASSUME NEW x \in Range(t) PROVE x \in Range(q)
    <3>1. PICK k \in 1 .. Len(t) : x = t[k]
      BY <1>1 DEF Range
    <3>2. k + Len(s) \in Len(s) + 1 .. Len(s) + Len(t) /\ (k + Len(s)) - Len(s) = k
      BY <1>1
    <3>3. q[k + Len(s)] = x
      BY <3>1, <3>2, <1>4
    <3>4. k + Len(s) \in DOMAIN q
      BY <3>2, <1>1, <1>2
    <3> QED BY <3>3, <3>4 DEF Range
  <2> QED BY <2>1, <2>2, <2>3
<1> QED BY <1>1, <1>2, <1>3, <1>4, <1>5, <1>6 DEF q

(* A list without repetitions has as many elements as positions.           *)
LEMMA RangeCardinality ==
    ASSUME NEW S, NEW s \in Seq(S), IsInjective(s)
    PROVE  IsFiniteSet(Range(s)) /\ Cardinality(Range(s)) = Len(s) /\ Len(s) \in Nat
<1> DEFINE n == Len(s)
<1>1. n \in Nat /\ s \in [1 .. n -> Range(s)]
  BY LenProperties DEF Range
<1>2. s \in Bijection(1 .. n, Range(s))
  BY <1>1 DEF Bijection, Injection, Surjection, Range
<1> HIDE DEF n
<1>3. IsFiniteSet(1 .. n) /\ Cardinality(1 .. n) = IF 1 > n THEN 0 ELSE n - 1 + 1
  BY <1>1, FS_Interval
<1>4. Cardinality(1 .. n) = n
  BY <1>1, <1>3
<1>5. ExistsBijection(1 .. n, Range(s))
  BY <1>2 DEF ExistsBijection
<1>6. IsFiniteSet(Range(s)) /\ Cardinality(Range(s)) = Cardinality(1 .. n)
  BY <1>3, <1>5, FS_Bijection
<1> QED BY <1>1, <1>4, <1>6 DEF n

(* So the map holds as many orders as the list has elements.               *)
LEMMA SizeIsLength ==
    ASSUME MapAndList
    PROVE  Size = Len(lruList) /\ Size \in Nat /\ IsFiniteSet(Cached)
BY RangeCardinality DEF MapAndList, ListMatchesMap, Size

(* The trimmed batch is a batch, and fits.                                 *)
LEMMA TrimmedProperties ==
    ASSUME MapAndList, ~Full, NEW orders \in Batches
    PROVE  /\ Trimmed(orders) \in Seq(Order)
           /\ MaxItems > 0 => Size + Len(Trimmed(orders)) <= MaxItems
<1>1. Size \in Nat /\ MaxItems \in Int
  BY SizeIsLength, ConfigAssumption
<1>2. orders \in Seq(Order) /\ Len(orders) \in Nat /\ DOMAIN orders = 1 .. Len(orders)
  BY BatchesAssumption, LenProperties
<1> DEFINE room == MaxItems - Size
<1>3. CASE MaxItems > 0 /\ Len(orders) > room
  <2>1. room \in Nat /\ room < Len(orders)
    BY <1>1, <1>3 DEF Full
  <2>2. \A i \in 1 .. room : orders[i] \in Order
    BY <2>1, <1>2, ElementOfSeq
  <2>3. /\ SubSeq(orders, 1, room) \in Seq(Order)
        /\ Len(SubSeq(orders, 1, room)) = IF 1 <= room THEN room - 1 + 1 ELSE 0
    BY <2>1, <2>2, SubSeqProperties
  <2> QED BY <2>1, <2>3, <1>1, <1>3 DEF Trimmed
<1>4. CASE ~(MaxItems > 0 /\ Len(orders) > room)
  BY <1>1, <1>2, <1>4 DEF Trimmed
<1> QED BY <1>3, <1>4

(* The bulk load appends each fresh uid once, and touches nothing else.    *)
LEMMA LoadStep ==
    ASSUME MapAndList, Capacity, NEW orders \in Batches, LoadFromSlice(orders)
    PROVE  /\ MapAndList'
           /\ Capacity'
           /\ RecencyOrder => RecencyOrder'
<1> DEFINE taken == Trimmed(orders)
           fresh == FirstOccurrences(taken)
           loaded == {taken[k].uid : k \in fresh}
<1>1. /\ ~Full
      /\ items' = [u \in Cached \union loaded |->
                      IF u \in loaded THEN [order |-> FirstFor(taken, u), idle |-> 0]
                      ELSE items[u]]
      /\ cold' = cold \union loaded
  BY DEF LoadFromSlice
<1>2. PICK f \in Ascending(fresh) : lruList' = lruList \o [i \in DOMAIN f |-> taken[f[i]].uid]
  BY DEF LoadFromSlice
<1>3. /\ taken \in Seq(Order)
      /\ MaxItems > 0 => Size + Len(taken) <= MaxItems
  BY <1>1, TrimmedProperties
<1>4. Len(taken) \in Nat /\ DOMAIN taken = 1 .. Len(taken) /\ \A k \in DOMAIN taken : taken[k] \in Order
  BY <1>3, LenProperties, ElementOfSeq
<1> HIDE DEF taken
<1>5. /\ fresh \subseteq 1 .. Len(taken)
      /\ \A k \in fresh : taken[k].uid \in UID \ Cached
      /\ \A k, l \in fresh : taken[k].uid = taken[l].uid => k = l
  <2>1. ASSUME NEW k \in fresh, NEW l \in fresh, taken[k].uid = taken[l].uid PROVE k = l
    <3>1. k \in 1 .. Len(taken) /\ l \in 1 .. Len(taken)
      BY <1>4 DEF FirstOccurrences
    <3>2. ~(k < l) /\ ~(l < k)
      BY <2>1, <3>1 DEF FirstOccurrences
    <3> QED BY <3>1, <3>2
  <2> QED BY <2>1, <1>4, OrderAssumption DEF FirstOccurrences
<1> HIDE DEF fresh
<1>6. Cardinality(fresh) \in Nat /\ Cardinality(fresh) <= Len(taken)
  <2> DEFINE n == Len(taken)
  <2>1. n \in Nat /\ fresh \in SUBSET (1 .. n)
    BY <1>4, <1>5
  <2> HIDE DEF n
  <2>2. IsFiniteSet(1 .. n) /\ Cardinality(1 .. n) = IF 1 > n THEN 0 ELSE n - 1 + 1
    BY <2>1, FS_Interval
  <2>3. Cardinality(1 .. n) = n
    BY <2>1, <2>2
  <2>4. IsFiniteSet(fresh) /\ Cardinality(fresh) <= n
    BY <2>1, <2>2, <2>3, FS_Subset
  <2> QED BY <2>4, FS_CardinalityType DEF n
<1> DEFINE m == Cardinality(fresh)
           t == [i \in 1 .. m |-> taken[f[i]].uid]
<1>7. /\ f \in [1 .. m -> fresh]
      /\ Range(f) = fresh
      /\ \A i, j \in 1 .. m : i < j => f[i] < f[j]
      /\ lruList' = lruList \o t
  BY <1>2 DEF Ascending
<1> HIDE DEF m
<1>8. t \in Seq(UID) /\ Len(t) = m /\ IsInjective(t) /\ Range(t) = loaded
  <2>1. \A i \in 1 .. m : taken[f[i]].uid \in UID
    BY <1>5, <1>7
  <2>2. t \in Seq(UID)
    BY <2>1, <1>6, IsASeq DEF m
  <2>3. Len(t) = m
    BY <1>6 DEF m
  <2>4. IsInjective(t)
    <3> SUFFICES ASSUME NEW i \in 1 .. m, NEW j \in 1 .. m, t[i] = t[j] PROVE i = j
      BY DEF IsInjective
    <3>1. f[i] \in fresh /\ f[j] \in fresh /\ taken[f[i]].uid = taken[f[j]].uid
      BY <1>7
    <3>2. f[i] = f[j]
      BY <3>1, <1>5
    <3>3. f[i] \in 1 .. Len(taken) /\ f[j] \in 1 .. Len(taken)
      BY <3>1, <1>5
    <3> QED BY <3>2, <3>3, <1>6, <1>7 DEF m
  <2>5. Range(t) = loaded
    BY <1>7 DEF Range
  <2> QED BY <2>2, <2>3, <2>4, <2>5
<1> HIDE DEF t
<1>9. lruList \in Seq(UID) /\ IsInjective(lruList) /\ Range(lruList) = Cached
  BY DEF MapAndList, ListMatchesMap
<1>10. /\ lruList' \in Seq(UID)
       /\ Len(lruList) \in Nat /\ Len(t) \in Nat
       /\ DOMAIN lruList = 1 .. Len(lruList)
       /\ DOMAIN lruList' = 1 .. Len(lruList) + Len(t)
       /\ \A i \in 1 .. Len(lruList) : lruList'[i] = lruList[i]
       /\ \A i \in Len(lruList) + 1 .. Len(lruList) + Len(t) :
             lruList'[i] = t[i - Len(lruList)] /\ i - Len(lruList) \in DOMAIN t
       /\ IsInjective(lruList')
       /\ Range(lruList') = Cached \union loaded
  <2>1. loaded \cap Cached = {}
    BY <1>5
  <2>2. Range(lruList) \cap Range(t) = {}
    BY <2>1, <1>8, <1>9
  <2> QED BY <2>2, <1>7, <1>8, <1>9, ConcatInjective
<1>11. /\ Cached' = Cached \union loaded
       /\ items' \in [Cached' -> cacheEntry]
       /\ \A u \in loaded : items'[u].order.uid = u
       /\ \A u \in Cached : items'[u] = items[u]
  <2>1. ASSUME NEW u \in loaded
        PROVE  FirstFor(taken, u) \in Order /\ FirstFor(taken, u).uid = u
    <3>1. PICK k \in fresh : taken[k].uid = u
      OBVIOUS
    <3>2. (CHOOSE i \in fresh : taken[i].uid = u) = k
      BY <3>1, <1>5
    <3>3. FirstFor(taken, u) = taken[k]
      BY <3>2 DEF FirstFor, fresh
    <3> QED BY <3>1, <3>3, <1>4, <1>5
  <2>2. \A o \in Order : [order |-> o, idle |-> 0] \in cacheEntry
    BY ConfigAssumption DEF cacheEntry, IdleCap
  <2>3. items \in [Cached -> cacheEntry] /\ loaded \cap Cached = {}
    BY <1>5 DEF MapAndList
  <2> HIDE DEF loaded
  <2> QED BY <2>1, <2>2, <2>3, <1>1 DEF Cached
<1>12. MapAndList'
  <2>1. (Cached \subseteq UID)'
    BY <1>5, <1>11 DEF MapAndList
  <2>2. (\A u \in Cached : items[u].order.uid = u)'
    BY <1>11 DEF MapAndList
  <2>3. (cold \subseteq Cached)'
    BY <1>1, <1>11 DEF MapAndList
  <2>4. ListMatchesMap'
    BY <1>10, <1>11 DEF ListMatchesMap
  <2> QED BY <2>1, <2>2, <2>3, <2>4, <1>10, <1>11 DEF MapAndList
<1>13. Capacity'
  <2>1. Size = Len(lruList)
    BY SizeIsLength
  <2>2. Size' = Len(lruList')
    BY <1>10, <1>11, RangeCardinality DEF Size
  <2>3. Len(lruList') = Len(lruList) + Len(t)
    BY <1>10, LenProperties
  <2> QED BY <2>1, <2>2, <2>3, <1>3, <1>4, <1>6, <1>8, <1>10, ConfigAssumption DEF Capacity, m
<1>14. ASSUME RecencyOrder PROVE RecencyOrder'
  <2> SUFFICES ASSUME NEW i \in DOMAIN lruList', NEW j \in DOMAIN lruList', i < j,
                      lruList'[j] \notin cold'
               PROVE  /\ lruList'[i] \notin cold'
                      /\ items'[lruList'[i]].idle <= items'[lruList'[j]].idle
    BY DEF RecencyOrder
  <2>1. j \in 1 .. Len(lruList)
    <3>1. ASSUME j \in Len(lruList) + 1 .. Len(lruList) + Len(t) PROVE FALSE
      <4>1. lruList'[j] \in loaded
        BY <3>1, <1>8, <1>10 DEF Range
      <4> QED BY <4>1, <1>1
    <3> QED BY <3>1, <1>10
  <2>2. i \in 1 .. Len(lruList)
    BY <2>1, <1>10
  <2>3. lruList'[i] = lruList[i] /\ lruList'[j] = lruList[j]
    BY <2>1, <2>2, <1>10
  <2>4. lruList[i] \in Cached /\ lruList[j] \in Cached
    BY <2>1, <2>2, <1>9, <1>10 DEF Range
  <2>5. lruList[i] \notin loaded
    BY <2>4, <1>5
  <2> QED BY <2>1, <2>2, <2>3, <2>4, <2>5, <1>1, <1>10, <1>11, <1>14 DEF RecencyOrder
<1> QED BY <1>12, <1>13, <1>14

-----------------------------------------------------------------------------
(* The inductive invariant.  No part is inductive alone: the bound on the  *)
(* size needs the list to name what the map holds (the victim of an        *)
(* eviction is found in the list and removed from the map), and the order  *)
(* of the list needs it to hold every uid once.                            *)
IInv == TypeOK /\ ListMatchesMap /\ Capacity /\ RecencyOrder

(* The rest of the type invariant.                                         *)
Bookkeeping ==
    /\ stats \in Stats
    /\ gauge \in Nat
    /\ loop \in {"none", "running", "cancelled", "exited"}

LEMMA InvariantParts ==
    IInv <=> MapAndList /\ Bookkeeping /\ Capacity /\ RecencyOrder
BY DEF IInv, TypeOK, MapAndList, Bookkeeping

(* A counter stays a counter, whatever is added to it.                     *)
LEMMA PlusType == \A x \in Counter, n \in Nat : Plus(x, n) \in Counter
<1>1. CounterSize \in Nat /\ CounterSize > 0
  BY CounterAssumption
<1> QED BY <1>1 DEF Plus, Counter

LEMMA InitInv == Init => IInv
<1> SUFFICES ASSUME Init PROVE IInv
  OBVIOUS
<1>1. Cached = {} /\ lruList = <<>> /\ cold = {}
  BY DEF Init, Cached
<1>2. Bookkeeping
  BY CounterAssumption DEF Init, Bookkeeping, Stats, Counter
<1>3. MapAndList
  <2>1. items \in [Cached -> cacheEntry]
    BY <1>1 DEF Init, Cached
  <2>2. lruList \in Seq(UID) /\ IsInjective(lruList) /\ Range(lruList) = {}
    BY <1>1 DEF IsInjective, Range
  <2> QED BY <1>1, <2>1, <2>2 DEF MapAndList, ListMatchesMap
<1>4. Capacity
  <2>1. Size = 0
    BY <1>1, FS_EmptySet DEF Size
  <2> QED BY <2>1, ConfigAssumption DEF Capacity
<1>5. RecencyOrder
  BY <1>1 DEF RecencyOrder
<1> QED BY <1>2, <1>3, <1>4, <1>5, InvariantParts

(* Set of a uid that is not cached: an eviction makes room if need be.     *)
LEMMA SetNewStep ==
    ASSUME IInv, NEW o \in Order, SetNew(o)
    PROVE  IInv'
<1> DEFINE victims == IF Full THEN Oldest ELSE {}
<1>1. MapAndList /\ Bookkeeping /\ Capacity /\ RecencyOrder
  BY InvariantParts
<1>2. /\ o.uid \in UID /\ o.uid \notin Cached
      /\ Front(o.uid, o, victims)
      /\ stats' = [stats EXCEPT !.evictions = Plus(@, Cardinality(victims))]
      /\ gauge' = Cardinality(DOMAIN items')
      /\ loop' = loop
  BY OrderAssumption DEF SetNew
<1>3. victims \in SUBSET Cached
  BY DEF Oldest
<1>4. /\ MapAndList'
      /\ Cached' = (Cached \ victims) \union {o.uid}
      /\ RecencyOrder'
  <2> HIDE DEF victims
  <2> QED BY <1>1, <1>2, <1>3, FrontStep
<1>5. Size \in Nat /\ IsFiniteSet(Cached) /\ Size = Len(lruList)
  BY <1>1, SizeIsLength
<1>6. Cardinality(victims) \in Nat
  BY <1>3, <1>5, FS_Subset, FS_CardinalityType
<1>7. ASSUME Full PROVE Size' = Size
  <2> DEFINE v == lruList[Len(lruList)]
  <2>1. Len(lruList) \in Nat \ {0} /\ lruList # <<>>
    BY <1>5, <1>7, ConfigAssumption DEF Full
  <2>2. v \in Cached
    BY <1>1, <2>1, LenProperties DEF MapAndList, ListMatchesMap, Range
  <2>3. victims = {v}
    BY <1>7, <2>1, <2>2 DEF Oldest
  <2>4. /\ IsFiniteSet(Cached \ {v})
        /\ Cardinality(Cached \ {v}) = Size - 1
    BY <1>5, <2>2, FS_RemoveElement DEF Size
  <2>5. Cached' = (Cached \ {v}) \union {o.uid} /\ o.uid \notin Cached \ {v}
    BY <1>2, <1>4, <2>3
  <2> HIDE DEF v
  <2>6. Cardinality((Cached \ {v}) \union {o.uid}) = Cardinality(Cached \ {v}) + 1
    BY <2>4, <2>5, FS_AddElement
  <2> QED BY <2>4, <2>5, <2>6, <1>5 DEF Size
<1>8. ASSUME ~Full PROVE Size' = Size + 1
  <2>1. Cached' = Cached \union {o.uid}
    BY <1>4, <1>8
  <2>2. Cardinality(Cached \union {o.uid}) = Cardinality(Cached) + 1
    BY <1>2, <1>5, FS_AddElement
  <2> QED BY <2>1, <2>2 DEF Size
<1>9. Capacity'
  <2>1. CASE Full
    BY <1>1, <1>7, <2>1 DEF Capacity
  <2>2. CASE ~Full
    BY <1>5, <1>8, <2>2, ConfigAssumption DEF Full, Capacity
  <2> QED BY <2>1, <2>2
<1>10. Bookkeeping'
  <2>1. stats' \in Stats
    BY <1>1, <1>2, <1>6, PlusType DEF Bookkeeping, Stats
  <2>2. gauge' \in Nat
    <3>1. IsFiniteSet(Cached')
      BY <1>3, <1>4, <1>5, FS_Subset, FS_AddElement
    <3> QED BY <3>1, <1>2, FS_CardinalityType DEF Cached
  <2> QED BY <1>1, <1>2, <2>1, <2>2 DEF Bookkeeping
<1> QED
  <2>1. (MapAndList /\ Bookkeeping /\ Capacity /\ RecencyOrder)'
    BY <1>4, <1>9, <1>10
  <2> QED BY <2>1 DEF IInv, TypeOK, MapAndList, Bookkeeping

(* The remaining methods of the map either bring an entry to the front,    *)
(* remove entries, or leave map and list alone.                            *)
LEMMA FrontInv ==
    ASSUME IInv, NEW u \in Cached, NEW o \in Order, o.uid = u, Front(u, o, {}), Bookkeeping'
    PROVE  IInv'
<1>1. MapAndList /\ Capacity /\ RecencyOrder /\ u \in UID
  BY InvariantParts DEF MapAndList
<1>2. MapAndList' /\ Cached' = (Cached \ {}) \union {u} /\ RecencyOrder'
  <2>1. {} \in SUBSET Cached /\ u \notin {}
    OBVIOUS
  <2> QED BY <1>1, <2>1, FrontStep
<1>3. Cached' = Cached
  BY <1>2
<1>4. Capacity'
  BY <1>1, <1>3 DEF Capacity, Size
<1> QED BY <1>2, <1>4 DEF IInv, TypeOK, MapAndList, Bookkeeping

LEMMA RemoveInv ==
    ASSUME IInv, NEW gone, removeEntry(gone), Bookkeeping'
    PROVE  IInv'
<1>1. MapAndList /\ Capacity /\ RecencyOrder
  BY InvariantParts
<1>2. MapAndList' /\ Cached' = Cached \ gone /\ RecencyOrder'
  BY <1>1, RemoveStep
<1>3. Capacity'
  <2>1. IsFiniteSet(Cached) /\ Size \in Nat
    BY <1>1, SizeIsLength
  <2>2. Cached \ gone \in SUBSET Cached
    OBVIOUS
  <2>3. Cardinality(Cached \ gone) <= Cardinality(Cached) /\ Cardinality(Cached \ gone) \in Nat
    BY <2>1, <2>2, FS_Subset, FS_CardinalityType
  <2> QED BY <1>1, <1>2, <2>1, <2>3, ConfigAssumption DEF Capacity, Size
<1> QED BY <1>2, <1>3 DEF IInv, TypeOK, MapAndList, Bookkeeping

LEMMA TickInv ==
    ASSUME IInv, Tick
    PROVE  IInv'
<1>1. MapAndList /\ Bookkeeping /\ Capacity /\ RecencyOrder
  BY InvariantParts
<1>2. /\ items' = [u \in Cached |->
                      [order |-> items[u].order, idle |-> Older(items[u].idle)]]
      /\ UNCHANGED <<lruList, stats, gauge, loop, cold>>
  BY DEF Tick
<1>3. \A m, n \in 0 .. IdleCap : Older(m) \in 0 .. IdleCap /\ (m <= n => Older(m) <= Older(n))
  BY ConfigAssumption DEF IdleCap, Older
<1>4. \A u \in Cached : items[u].order \in Order /\ items[u].idle \in 0 .. IdleCap
  BY <1>1 DEF MapAndList, cacheEntry
<1>5. \A u \in Cached : /\ items'[u].order = items[u].order
                        /\ items'[u].idle = Older(items[u].idle)
                        /\ items'[u] \in cacheEntry
  BY <1>2, <1>3, <1>4 DEF cacheEntry
<1>6. Cached' = Cached
  BY <1>2 DEF Cached
<1>7. items' \in [Cached' -> cacheEntry]
  BY <1>2, <1>5, <1>6
<1>8. MapAndList'
  <2>1. lruList' = lruList /\ cold' = cold /\ ListMatchesMap'
    BY <1>1, <1>2, <1>6 DEF MapAndList, ListMatchesMap
  <2>2. (\A u \in Cached : items[u].order.uid = u)'
    BY <1>1, <1>5, <1>6 DEF MapAndList
  <2> QED BY <1>1, <1>6, <1>7, <2>1, <2>2 DEF MapAndList
<1>9. RecencyOrder'
  <2> SUFFICES ASSUME NEW i \in DOMAIN lruList, NEW j \in DOMAIN lruList, i < j,
                      lruList[j] \notin cold
               PROVE  /\ lruList[i] \notin cold
                      /\ items'[lruList[i]].idle <= items'[lruList[j]].idle
    BY <1>2 DEF RecencyOrder
  <2>1. lruList[i] \in Cached /\ lruList[j] \in Cached
    BY <1>1 DEF MapAndList, ListMatchesMap, Range
  <2>2. lruList[i] \notin cold /\ items[lruList[i]].idle <= items[lruList[j]].idle
    BY <1>1 DEF RecencyOrder
  <2> QED BY <2>1, <2>2, <1>3, <1>4, <1>5
<1>10. Capacity' /\ Bookkeeping'
  BY <1>1, <1>2, <1>6 DEF Capacity, Size, Bookkeeping
<1> QED BY <1>8, <1>9, <1>10 DEF IInv, TypeOK, MapAndList, Bookkeeping

LEMMA NextInv == IInv /\ [Next]_vars => IInv'
<1> SUFFICES ASSUME IInv, [Next]_vars PROVE IInv'
  OBVIOUS
<1>0. MapAndList /\ Bookkeeping /\ Capacity /\ RecencyOrder
  BY InvariantParts
<1>1. \A u \in Cached : u \in UID /\ items[u].order \in Order /\ items[u].order.uid = u
  BY <1>0 DEF MapAndList, cacheEntry
<1>2. ASSUME NEW o \in Order, SetExisting(o) PROVE IInv'
  BY <1>0, <1>2, FrontInv DEF SetExisting, Bookkeeping
<1>3. ASSUME NEW o \in Order, SetNew(o) PROVE IInv'
  BY <1>3, SetNewStep
<1>4. ASSUME NEW u \in UID, GetMiss(u) PROVE IInv'
  <2>1. stats' \in Stats
    BY <1>0, <1>4, PlusType DEF GetMiss, Bookkeeping, Stats
  <2>2. UNCHANGED <<items, lruList, gauge, loop, cold>>
    BY <1>4 DEF GetMiss
  <2> QED BY <1>0, <2>1, <2>2 DEF IInv, TypeOK, Bookkeeping, Capacity, Size, Cached,
                                  ListMatchesMap, RecencyOrder
<1>5. ASSUME NEW u \in UID, GetExpired(u) PROVE IInv'
  <2>1. stats' \in Stats
    BY <1>0, <1>5, PlusType DEF GetExpired, Bookkeeping, Stats
  <2> QED BY <1>0, <1>5, <2>1, RemoveInv DEF GetExpired, Bookkeeping
<1>6. ASSUME NEW u \in UID, GetHit(u) PROVE IInv'
  <2>1. stats' \in Stats
    BY <1>0, <1>6, PlusType DEF GetHit, Bookkeeping, Stats
  <2>2. u \in Cached /\ Front(u, items[u].order, {}) /\ Bookkeeping'
    BY <1>0, <1>6, <2>1 DEF GetHit, Exists, Bookkeeping
  <2> QED BY <1>1, <2>2, FrontInv
<1>7. ASSUME NEW u \in UID, Delete(u) PROVE IInv'
  BY <1>0, <1>7, RemoveInv DEF Delete, Bookkeeping
<1>8. ASSUME NEW orders \in Batches, LoadFromSlice(orders) PROVE IInv'
  <2>1. MapAndList' /\ Capacity' /\ RecencyOrder'
    BY <1>0, <1>8, LoadStep
  <2>2. Bookkeeping'
    BY <1>0, <1>8 DEF LoadFromSlice, Bookkeeping
  <2> QED BY <2>1, <2>2 DEF IInv, TypeOK, MapAndList, Bookkeeping
<1>9. ASSUME cleanupExpired PROVE IInv'
  <2>1. Cardinality(ExpiredUIDs) \in Nat
    <3>1. IsFiniteSet(Cached)
      BY <1>0, SizeIsLength
    <3>2. ExpiredUIDs \in SUBSET Cached
      BY DEF ExpiredUIDs
    <3> QED BY <3>1, <3>2, FS_Subset, FS_CardinalityType
  <2>2. stats' \in Stats
    BY <1>0, <1>9, <2>1, PlusType DEF cleanupExpired, Bookkeeping, Stats
  <2> QED BY <1>0, <1>9, <2>2, RemoveInv DEF cleanupExpired, Bookkeeping
<1>10. ASSUME cleanupExit \/ Stop PROVE IInv'
  <2>1. UNCHANGED <<items, lruList, stats, gauge, cold>>
        /\ loop' \in {"none", "running", "cancelled", "exited"}
    BY <1>0, <1>10 DEF cleanupExit, Stop, Bookkeeping
  <2> QED BY <1>0, <2>1 DEF IInv, TypeOK, Bookkeeping, Capacity, Size, Cached,
                            ListMatchesMap, RecencyOrder
<1>11. ASSUME Tick PROVE IInv'
  BY <1>11, TickInv
<1>12. ASSUME UNCHANGED vars PROVE IInv'
  BY <1>12 DEF IInv, TypeOK, Capacity, Size, Cached, ListMatchesMap, RecencyOrder, vars
<1> QED
  BY <1>2, <1>3, <1>4, <1>5, <1>6, <1>7, <1>8, <1>9, <1>10, <1>11, <1>12 DEF Next, Set, Get

THEOREM InductiveInvariant == Spec => []IInv
BY InitInv, NextInv, PTL DEF Spec

(* Every variable keeps its type, and an order is only ever filed under    *)
(* its own uid.                                                            *)
THEOREM TypeCorrect == Spec => []TypeOK
<1>1. IInv => TypeOK
  BY DEF IInv
<1> QED BY <1>1, InductiveInvariant, PTL

(* The map and the list of the cache never come apart.                     *)
THEOREM ListAlwaysMatchesMap == Spec => []ListMatchesMap
<1>1. IInv => ListMatchesMap
  BY DEF IInv
<1> QED BY <1>1, InductiveInvariant, PTL

(* The cache never holds more orders than its configuration allows.        *)
THEOREM NeverOverCapacity == Spec => []Capacity
<1>1. IInv => Capacity
  BY DEF IInv
<1> QED BY <1>1, InductiveInvariant, PTL

(* The list is always in order of last use.                                *)
THEOREM ListInRecencyOrder == Spec => []RecencyOrder
<1>1. IInv => RecencyOrder
  BY DEF IInv
<1> QED BY <1>1, InductiveInvariant, PTL

-----------------------------------------------------------------------------
(* An entry that makes room for another is one that was used least         *)
(* recently, and it goes alone, from a full cache.                         *)
LEMMA EvictionStep ==
    ASSUME IInv, NEW o \in Order, SetNew(o), NEW u \in Cached \ DOMAIN items'
    PROVE  /\ Full
           /\ Cached \ DOMAIN items' = {u}
           /\ \A v \in Cached \ {u} :
                 \/ u \in cold
                 \/ v \notin cold /\ items[v].idle <= items[u].idle
<1> DEFINE victims == IF Full THEN Oldest ELSE {}
<1>1. MapAndList /\ RecencyOrder
  BY InvariantParts
<1>2. DOMAIN items' = (Cached \ victims) \union {o.uid}
  BY DEF SetNew, Front
<1>3. u \in victims
  BY <1>2
<1>4. Full /\ lruList # <<>> /\ u = lruList[Len(lruList)]
  BY <1>3 DEF Oldest
<1>5. /\ lruList \in Seq(UID) /\ Len(lruList) \in Nat \ {0}
      /\ DOMAIN lruList = 1 .. Len(lruList) /\ Range(lruList) = Cached
  BY <1>1, <1>4, LenProperties, EmptySeq DEF MapAndList, ListMatchesMap
<1>6. victims = {u}
  BY <1>4 DEF Oldest
<1>7. ASSUME NEW v \in Cached \ {u}, u \notin cold
      PROVE  v \notin cold /\ items[v].idle <= items[u].idle
  <2>1. PICK k \in 1 .. Len(lruList) : v = lruList[k]
    BY <1>5 DEF Range
  <2>2. k < Len(lruList)
    BY <2>1, <1>4, <1>5
  <2> QED BY <2>1, <2>2, <1>1, <1>4, <1>5, <1>7 DEF RecencyOrder
<1>8. Cached \ DOMAIN items' = {u}
  <2>1. o.uid \notin Cached
    BY DEF SetNew
  <2> QED BY <2>1, <1>2, <1>6
<1> QED BY <1>4, <1>7, <1>8

THEOREM EvictionIsLRU == Spec => EvictsLeastRecentlyUsed
<1> DEFINE Evicted(u) ==
             DOMAIN items' \ Cached # {} =>
                 /\ Full
                 /\ Cached \ DOMAIN items' = {u}
                 /\ \A v \in Cached \ {u} :
                       \/ u \in cold
                       \/ v \notin cold /\ items[v].idle <= items[u].idle
<1>1. ASSUME IInv, [Next]_vars
      PROVE  [\A u \in Cached \ DOMAIN items' : Evicted(u)]_vars
  <2> SUFFICES ASSUME Next, NEW u \in Cached \ DOMAIN items', DOMAIN items' \ Cached # {}
               PROVE  Evicted(u)
    BY <1>1
  <2>1. CASE \E o \in Order : SetNew(o)
    BY <2>1, <1>1, EvictionStep
  <2>2. CASE \E o \in Order : SetExisting(o)
    BY <2>2 DEF SetExisting, Front
  <2>3. CASE \E v \in UID : GetMiss(v)
    BY <2>3 DEF GetMiss, Cached
  <2>4. CASE \E v \in UID : GetExpired(v) \/ Delete(v)
    BY <2>4 DEF GetExpired, Delete, removeEntry
  <2>5. CASE \E v \in UID : GetHit(v)
    BY <2>5 DEF GetHit, Exists, Front
  <2>6. CASE \E orders \in Batches : LoadFromSlice(orders)
    BY <2>6 DEF LoadFromSlice
  <2>7. CASE cleanupExpired
    BY <2>7 DEF cleanupExpired, removeEntry
  <2>8. CASE cleanupExit \/ Stop \/ Tick
    BY <2>8 DEF cleanupExit, Stop, Tick, Cached
  <2> QED BY <2>1, <2>2, <2>3, <2>4, <2>5, <2>6, <2>7, <2>8 DEF Next, Set, Get
<1> QED BY <1>1, InductiveInvariant, PTL DEF Spec, EvictsLeastRecentlyUsed

-----------------------------------------------------------------------------
(* The operations on the list are functions: the set Without(s, D), which  *)
(* says what is left of s, has one element, and so has Ascending(K), which *)
(* says in which order a batch enters.  So no method of the model is ever  *)
(* held up, or left a choice, by the way its list is written down.         *)

(* A set of numbers has a least one.                                       *)
LEMMA LeastNumber ==
    ASSUME NEW S \in SUBSET Nat, S # {}
    PROVE  \E n \in S : \A m \in S : n <= m
<1> DEFINE R == OpToRel(<, Nat)
<1>1. IsWellFoundedOn(R, Nat)
  BY NatLessThanWellFounded
<1>2. R = {ss \in Nat \X Nat : ss[1] < ss[2]}
  BY Zenon DEF OpToRel
<1> HIDE DEF R
<1>3. PICK n \in S : \A m \in S : ~ (<<m, n>> \in R)
  BY <1>1, WFMin
<1>4. \A m \in S : <<m, n>> \in R <=> m < n
  BY <1>2
<1>5. ASSUME NEW m \in S PROVE n <= m
  <2>1. ~ (m < n)
    BY <1>3, <1>4
  <2>2. m \in Nat /\ n \in Nat
    OBVIOUS
  <2> QED BY <2>1, <2>2
<1> QED BY <1>5

(* A set with 0 that holds n + 1 whenever it holds n holds every number.   *)
LEMMA Induction ==
    ASSUME NEW S, 0 \in S, \A n \in Nat : n \in S => n + 1 \in S
    PROVE  Nat \subseteq S
<1> SUFFICES ASSUME Nat \ S # {} PROVE FALSE
  OBVIOUS
<1>1. PICK n \in Nat \ S : \A m \in Nat \ S : n <= m
  BY LeastNumber
<1>2. n # 0 /\ n - 1 \in Nat
  BY <1>1
<1>3. n - 1 \in S
  BY <1>1, <1>2
<1>4. (n - 1) + 1 = n
  BY <1>1
<1> QED BY <1>1, <1>2, <1>3, <1>4

(* The positions of a list, and what Ascending holds for them.             *)
LEMMA Positions ==
    ASSUME NEW b \in Nat, NEW K \in SUBSET (1 .. b)
    PROVE  IsFiniteSet(K) /\ Cardinality(K) \in Nat /\ K \subseteq Nat
<1>1. IsFiniteSet(1 .. b)
  BY FS_Interval
<1>2. IsFiniteSet(K)
  BY <1>1, FS_Subset
<1> QED BY <1>2, FS_CardinalityType

LEMMA AscendingFacts ==
    ASSUME NEW K, NEW f \in Ascending(K)
    PROVE  /\ f \in [1 .. Cardinality(K) -> K]
           /\ \A k \in K : \E i \in 1 .. Cardinality(K) : f[i] = k
           /\ \A i, j \in 1 .. Cardinality(K) : i < j => f[i] < f[j]
<1> DEFINE n == Cardinality(K)
<1>1. f \in [1 .. n -> K] /\ Range(f) = K /\ \A i, j \in DOMAIN f : i < j => f[i] < f[j]
  BY DEF Ascending
<1> HIDE DEF n
<1>2. \A k \in K : \E i \in 1 .. n : f[i] = k
  BY <1>1 DEF Range
<1> QED BY <1>1, <1>2 DEF n

LEMMA AscendingIntro ==
    ASSUME NEW K, NEW n \in Nat, Cardinality(K) = n, NEW f \in [1 .. n -> K],
           \A k \in K : \E i \in 1 .. n : f[i] = k,
           \A i, j \in 1 .. n : i < j => f[i] < f[j]
    PROVE  f \in Ascending(K)
<1>1. Range(f) = K
  BY DEF Range
<1> QED BY <1>1 DEF Ascending

(* Every finite set of positions can be listed in order: those up to b + 1 *)
(* by putting b + 1, if it is one of them, behind those up to b.           *)
LEMMA AscendingExists ==
    ASSUME NEW b \in Nat, NEW K \in SUBSET (1 .. b)
    PROVE  Ascending(K) # {}
<1> DEFINE Done == {n \in Nat : \A L \in SUBSET (1 .. n) : Ascending(L) # {}}
<1>1. 0 \in Done
  <2> SUFFICES ASSUME NEW L \in SUBSET (1 .. 0) PROVE Ascending(L) # {}
    OBVIOUS
  <2> DEFINE f == [i \in 1 .. 0 |-> 0]
  <2>1. L = {} /\ 1 .. 0 = {}
    OBVIOUS
  <2>2. Cardinality(L) = 0
    BY <2>1, FS_EmptySet
  <2>3. f \in [1 .. 0 -> L]
    BY <2>1
  <2>4. (\A k \in L : \E i \in 1 .. 0 : f[i] = k) /\ (\A i, j \in 1 .. 0 : i < j => f[i] < f[j])
    BY <2>1
  <2> HIDE DEF f
  <2>5. 0 \in Nat
    OBVIOUS
  <2>6. f \in Ascending(L)
    BY Zenon, <2>2, <2>3, <2>4, <2>5, AscendingIntro
  <2> QED BY <2>6
<1>2. ASSUME NEW n \in Nat, n \in Done PROVE n + 1 \in Done
  <2> SUFFICES ASSUME NEW L \in SUBSET (1 .. n + 1) PROVE Ascending(L) # {}
    OBVIOUS
  <2> DEFINE M == L \ {n + 1}
             c == Cardinality(M)
  <2>1. M \in SUBSET (1 .. n)
    OBVIOUS
  <2>2. PICK f : f \in Ascending(M)
    BY <1>2, <2>1
  <2>3. c \in Nat /\ IsFiniteSet(M) /\ n + 1 \notin M
    BY <2>1, Positions
  <2>4. CASE n + 1 \notin L
    <3>1. M = L
      BY <2>4
    <3> QED BY <2>2, <3>1
  <2>5. CASE n + 1 \in L
    <3> DEFINE g == [i \in 1 .. c + 1 |-> IF i = c + 1 THEN n + 1 ELSE f[i]]
    <3>1. L = M \union {n + 1}
      BY <2>5
    <3>2. Cardinality(L) = c + 1
      BY <2>3, <3>1, FS_AddElement
    <3>3. /\ f \in [1 .. c -> M]
          /\ \A k \in M : \E i \in 1 .. c : f[i] = k
          /\ \A i, j \in 1 .. c : i < j => f[i] < f[j]
      BY <2>2, AscendingFacts
    <3> HIDE DEF c, M
    <3>4. ASSUME NEW i \in 1 .. c PROVE f[i] \in M /\ f[i] \in 1 .. n /\ g[i] = f[i]
      <4>1. f[i] \in M
        BY <3>3
      <4>2. i # c + 1 /\ i \in 1 .. c + 1
        BY <2>3
      <4> QED BY <2>1, <4>1, <4>2
    <3>5. g[c + 1] = n + 1
      BY <2>3
    <3>6. g \in [1 .. c + 1 -> L]
      <4>1. ASSUME NEW i \in 1 .. c + 1 PROVE g[i] \in L
        <5>1. i = c + 1 \/ i \in 1 .. c
          BY <2>3
        <5> HIDE DEF g
        <5> QED BY <2>5, <3>1, <3>4, <3>5, <5>1
      <4> QED BY <4>1
    <3> HIDE DEF g
    <3>7. \A k \in L : \E i \in 1 .. c + 1 : g[i] = k
      <4> SUFFICES ASSUME NEW k \in L PROVE \E i \in 1 .. c + 1 : g[i] = k
        OBVIOUS
      <4>1. CASE k = n + 1
        BY <2>3, <3>5, <4>1
      <4>2. CASE k \in M
        <5>1. PICK i \in 1 .. c : f[i] = k
          BY <3>3, <4>2
        <5>2. i \in 1 .. c + 1
          BY <2>3
        <5> QED BY <3>4, <5>1, <5>2
      <4> QED BY <3>1, <4>1, <4>2
    <3>8. ASSUME NEW i \in 1 .. c + 1, NEW j \in 1 .. c + 1, i < j PROVE g[i] < g[j]
      <4>1. i \in 1 .. c
        BY <2>3, <3>8
      <4>2. CASE j = c + 1
        <5>1. g[i] \in 1 .. n /\ g[j] = n + 1
          BY <3>4, <3>5, <4>1, <4>2
        <5> QED BY <5>1
      <4>3. CASE j \in 1 .. c
        BY <3>3, <3>4, <3>8, <4>1, <4>3
      <4> QED BY <2>3, <4>2, <4>3
    <3>9. c + 1 \in Nat
      BY <2>3
    <3>10. g \in Ascending(L)
      BY <3>2, <3>6, <3>7, <3>8, <3>9, AscendingIntro
    <3> QED BY <3>10
  <2> QED BY <2>4, <2>5
<1>3. b \in Done => Ascending(K) # {}
  OBVIOUS
<1> HIDE DEF Done
<1>4. b \in Done
  BY <1>1, <1>2, Induction
<1> QED BY <1>3, <1>4

(* Two listings cannot first differ at position i: the lesser of the two   *)
(* entries occurs in the other listing as well, but could do so only       *)
(* before i.                                                               *)
LEMMA NoFirstDifference ==
    ASSUME NEW b \in Nat, NEW K \in SUBSET (1 .. b),
           NEW f \in Ascending(K), NEW g \in Ascending(K),
           NEW i \in 1 .. Cardinality(K),
           \A j \in 1 .. Cardinality(K) : j < i => f[j] = g[j]
    PROVE  ~ (f[i] < g[i])
<1> SUFFICES ASSUME f[i] < g[i] PROVE FALSE
  OBVIOUS
<1> DEFINE n == Cardinality(K)
<1>1. n \in Nat /\ K \subseteq Nat
  BY Positions
<1>2. /\ f \in [1 .. n -> K] /\ g \in [1 .. n -> K]
      /\ \A k \in K : \E j \in 1 .. n : g[j] = k
      /\ \A j, k \in 1 .. n : j < k => f[j] < f[k] /\ g[j] < g[k]
  BY AscendingFacts
<1> HIDE DEF n
<1>3. i \in 1 .. n /\ \A j \in 1 .. n : j < i => f[j] = g[j]
  BY DEF n
<1>4. f[i] \in K /\ g[i] \in K
  BY <1>2, <1>3
<1>5. PICK j \in 1 .. n : g[j] = f[i]
  BY <1>2, <1>4
<1>6. f[i] \in Nat /\ g[i] \in Nat
  BY <1>1, <1>4
<1>7. CASE j < i
  <2>1. f[j] < f[i] /\ f[j] = f[i]
    BY <1>2, <1>3, <1>5, <1>7
  <2> QED BY <1>6, <2>1
<1>8. CASE j = i
  BY <1>5, <1>6, <1>8
<1>9. CASE i < j
  <2>1. g[i] < f[i]
    BY <1>2, <1>3, <1>5, <1>9
  <2> QED BY <1>6, <2>1
<1> QED BY <1>1, <1>3, <1>7, <1>8, <1>9

LEMMA AscendingUnique ==
    ASSUME NEW b \in Nat, NEW K \in SUBSET (1 .. b),
           NEW f \in Ascending(K), NEW g \in Ascending(K)
    PROVE  f = g
<1> DEFINE n == Cardinality(K)
           Differ == {i \in 1 .. n : f[i] # g[i]}
<1>1. n \in Nat /\ K \subseteq Nat
  BY Positions
<1>2. f \in [1 .. n -> K] /\ g \in [1 .. n -> K]
  BY AscendingFacts
<1>3. Differ = {}
  <2> SUFFICES ASSUME Differ # {} PROVE FALSE
    OBVIOUS
  <2>1. PICK i \in Differ : \A j \in Differ : i <= j
    <3>1. Differ \in SUBSET Nat
      BY <1>1
    <3> HIDE DEF Differ
    <3> QED BY <3>1, LeastNumber
  <2>2. i \in 1 .. n /\ \A j \in 1 .. n : j < i => f[j] = g[j]
    <3>1. i \in Nat /\ \A j \in 1 .. n : j < i => ~ (i <= j)
      BY <1>1
    <3> QED BY <2>1, <3>1
  <2>3. ~ (f[i] < g[i]) /\ ~ (g[i] < f[i])
    BY <2>2, NoFirstDifference
  <2> HIDE DEF n
  <2>4. f[i] \in Nat /\ g[i] \in Nat
    BY <1>1, <1>2, <2>2
  <2> QED BY <2>1, <2>3, <2>4
<1> HIDE DEF n
<1>4. \A i \in 1 .. n : f[i] = g[i]
  BY <1>3
<1>5. f = [i \in 1 .. n |-> f[i]] /\ g = [i \in 1 .. n |-> g[i]]
  BY <1>2
<1> QED BY <1>4, <1>5

LEMMA AscendingDetermined ==
    ASSUME NEW b \in Nat, NEW K \in SUBSET (1 .. b)
    PROVE  \E f : Ascending(K) = {f}
<1>1. PICK f : f \in Ascending(K)
  BY AscendingExists
<1>2. \A g \in Ascending(K) : g = f
  BY <1>1, AscendingUnique
<1> QED BY <1>1, <1>2

(* Unlinking entries has exactly one outcome for every list and every set  *)
(* of entries: removeEntry, Front and with them Set, Get, Delete and the   *)
(* cleanup are neither held up nor left a choice (cache.go:213-285).       *)
THEOREM UnlinkingIsAFunction ==
    ASSUME NEW S, NEW s \in Seq(S), NEW D
    PROVE  \E r : Without(s, D) = {r}
<1> DEFINE K == {k \in DOMAIN s : s[k] \notin D}
<1>1. Len(s) \in Nat /\ K \in SUBSET (1 .. Len(s))
  BY LenProperties
<1>2. Without(s, D) = {[i \in DOMAIN f |-> s[f[i]]] : f \in Ascending(K)}
  BY DEF Without
<1> HIDE DEF K
<1>3. PICK f : Ascending(K) = {f}
  BY <1>1, AscendingDetermined
<1> DEFINE r == [i \in DOMAIN f |-> s[f[i]]]
<1>4. Without(s, D) = {r}
  BY <1>2, <1>3
<1> QED BY <1>4

(* So has the list of a batch: LoadFromSlice appends the first occurrences *)
(* of absent uids in the order of the slice (cache.go:144-174).            *)
THEOREM LoadingIsAFunction ==
    ASSUME NEW orders \in Seq(Order)
    PROVE  \E f : Ascending(FirstOccurrences(orders)) = {f}
<1>1. Len(orders) \in Nat /\ FirstOccurrences(orders) \in SUBSET (1 .. Len(orders))
  BY LenProperties DEF FirstOccurrences
<1> QED BY <1>1, AscendingDetermined

-----------------------------------------------------------------------------
(* Counters that wrap: a sum of counters may be reduced before or after    *)
(* the addition, because a remainder is unique.                            *)
LEMMA UniqueRemainder ==
    ASSUME NEW n \in Nat \ {0}, NEW q \in Int, NEW r \in Int,
           NEW a \in 0 .. n - 1, NEW b \in 0 .. n - 1, n * q + a = n * r + b
    PROVE  a = b
OBVIOUS

LEMMA Remainder ==
    ASSUME NEW n \in Nat \ {0}, NEW a \in Int
    PROVE  a \div n \in Int /\ a % n \in 0 .. n - 1 /\ a = n * (a \div n) + (a % n)
OBVIOUS

LEMMA PlusPlus ==
    ASSUME NEW x \in Nat, NEW y \in Nat, NEW c \in Nat
    PROVE  /\ Plus(x + y, c) = Plus(Plus(x, c) + y, 0)
           /\ Plus(x + y, c) = Plus(y + Plus(x, c), 0)
<1> DEFINE n == CounterSize
           a == x + c
           b == a % n
           s == b + y
           t == a + y
<1>1. n \in Nat \ {0} /\ a \in Int /\ t \in Int
  BY CounterAssumption
<1>2. b \in 0 .. n - 1 /\ a \div n \in Int /\ a = n * (a \div n) + b
  BY <1>1, Remainder
<1>3. s \in Int
  BY <1>1, <1>2
<1>4. /\ s \div n \in Int /\ s % n \in 0 .. n - 1 /\ s = n * (s \div n) + (s % n)
      /\ t \div n \in Int /\ t % n \in 0 .. n - 1 /\ t = n * (t \div n) + (t % n)
  BY <1>1, <1>3, Remainder
<1>5. t % n = s % n
  <2> DEFINE p == a \div n
             q == s \div n
             r == t \div n
             u == s % n
             v == t % n
  <2>1. /\ p \in Int /\ q \in Int /\ r \in Int /\ u \in 0 .. n - 1 /\ v \in 0 .. n - 1
        /\ a = n * p + b /\ b + y = n * q + u /\ a + y = n * r + v
    BY <1>2, <1>4
  <2> HIDE DEF n, a, b, p, q, r, u, v
  <2>2. n * p \in Int /\ n * q \in Int /\ n * r \in Int /\ n * (p + q) = n * p + n * q
    BY <1>1, <2>1
  <2>3. n * (p + q) + u = n * r + v
    BY <1>2, <2>1, <2>2
  <2>4. p + q \in Int
    BY <2>1
  <2> QED BY <1>1, <2>1, <2>3, <2>4, UniqueRemainder DEF u, v
<1>6. Plus(x + y, c) = t % n
  BY DEF Plus
<1>7. Plus(Plus(x, c) + y, 0) = s % n /\ Plus(y + Plus(x, c), 0) = s % n
  BY <1>1, <1>2 DEF Plus
<1> QED BY <1>5, <1>6, <1>7

(* What leaves is counted: as evicted, as expired, or nothing leaves.      *)
LEMMA Tallied ==
    ASSUME stats \in Stats, NEW c \in Nat,
           \/ stats'.evictions = Plus(stats.evictions, c) /\ stats'.expirations = stats.expirations
           \/ stats'.evictions = stats.evictions /\ stats'.expirations = Plus(stats.expirations, c)
    PROVE  Plus(stats.evictions + stats.expirations, c)
                = Plus(stats'.evictions + stats'.expirations, 0)
<1> DEFINE e == stats.evictions
           x == stats.expirations
<1>1. e \in Nat /\ x \in Nat
  BY CounterAssumption DEF Stats, Counter
<1>2. e + x = x + e
  BY <1>1
<1> HIDE DEF e, x
<1>3. /\ Plus(e + x, c) = Plus(Plus(e, c) + x, 0)
      /\ Plus(x + e, c) = Plus(e + Plus(x, c), 0)
  BY <1>1, PlusPlus
<1>4. CASE stats'.evictions = Plus(e, c) /\ stats'.expirations = x
  BY <1>3, <1>4 DEF e, x
<1>5. CASE stats'.evictions = e /\ stats'.expirations = Plus(x, c)
  BY <1>2, <1>3, <1>5 DEF e, x
<1> QED BY <1>4, <1>5 DEF e, x

LEMMA NobodyLeft ==
    ASSUME Cached \subseteq DOMAIN items',
           stats'.evictions = stats.evictions, stats'.expirations = stats.expirations
    PROVE  Plus(stats.evictions + stats.expirations, Cardinality(Cached \ DOMAIN items'))
                = Plus(stats'.evictions + stats'.expirations, 0)
<1>1. Cached \ DOMAIN items' = {}
  OBVIOUS
<1>2. Cardinality(Cached \ DOMAIN items') = 0
  BY <1>1, FS_EmptySet
<1> QED BY <1>2

(* Every departure that no caller asked for is counted once, however many  *)
(* entries leave in the step and wherever the counters wrap                *)
(* (cache.go:76-84, 104-113, 254-277).                                     *)
THEOREM DeparturesAreCounted == Spec => DeparturesCounted
<1> DEFINE gone == Cached \ DOMAIN items'
           Counts == Plus(stats.evictions + stats.expirations, Cardinality(gone))
                         = Plus(stats'.evictions + stats'.expirations, 0)
<1>1. ASSUME IInv, [Next]_vars
      PROVE  [(\E u \in UID : Delete(u)) \/ Counts]_vars
  <2> SUFFICES ASSUME Next, ~ (\E u \in UID : Delete(u)) PROVE Counts
    BY <1>1
  <2>0. MapAndList /\ stats \in Stats /\ IsFiniteSet(Cached)
    BY <1>1, InvariantParts, SizeIsLength DEF Bookkeeping
  <2>1. ASSUME NEW o \in Order, SetNew(o) PROVE Counts
    <3> DEFINE victims == IF Full THEN Oldest ELSE {}
    <3>1. /\ victims \subseteq Cached /\ o.uid \notin Cached
          /\ DOMAIN items' = (Cached \ victims) \union {o.uid}
          /\ stats' = [stats EXCEPT !.evictions = Plus(@, Cardinality(victims))]
      BY <2>1 DEF SetNew, Front, Oldest
    <3> HIDE DEF victims
    <3>2. gone = victims
      BY <3>1
    <3>3. Cardinality(gone) \in Nat
      BY <2>0, <3>1, <3>2, FS_Subset, FS_CardinalityType
    <3>4. /\ stats'.evictions = Plus(stats.evictions, Cardinality(gone))
          /\ stats'.expirations = stats.expirations
      BY <2>0, <3>1, <3>2 DEF Stats
    <3> HIDE DEF gone
    <3> QED BY <2>0, <3>3, <3>4, Tallied
  <2>2. ASSUME NEW o \in Order, SetExisting(o) PROVE Counts
    BY <2>2, NobodyLeft DEF SetExisting, Front
  <2>3. ASSUME NEW u \in UID, GetMiss(u) PROVE Counts
    <3>1. items' = items /\ stats' = [stats EXCEPT !.misses = Plus(@, 1)]
      BY <2>3 DEF GetMiss
    <3>2. stats'.evictions = stats.evictions /\ stats'.expirations = stats.expirations
      BY <2>0, <3>1 DEF Stats
    <3> QED BY <3>1, <3>2, NobodyLeft DEF Cached
  <2>4. ASSUME NEW u \in UID, GetExpired(u) PROVE Counts
    <3>1. /\ u \in Cached /\ DOMAIN items' = Cached \ {u}
          /\ stats' = [stats EXCEPT !.expirations = Plus(@, 1), !.misses = Plus(@, 1)]
      BY <2>4 DEF GetExpired, removeEntry
    <3>2. gone = {u}
      BY <3>1
    <3>3. Cardinality(gone) = 1
      BY <3>2, FS_Singleton
    <3>4. /\ stats'.expirations = Plus(stats.expirations, 1)
          /\ stats'.evictions = stats.evictions
      BY <2>0, <3>1 DEF Stats
    <3> HIDE DEF gone
    <3> QED BY <2>0, <3>3, <3>4, Tallied
  <2>5. ASSUME NEW u \in UID, GetHit(u) PROVE Counts
    <3>1. /\ Cached \subseteq DOMAIN items' /\ stats' = [stats EXCEPT !.hits = Plus(@, 1)]
      BY <2>5 DEF GetHit, Front
    <3>2. stats'.evictions = stats.evictions /\ stats'.expirations = stats.expirations
      BY <2>0, <3>1 DEF Stats
    <3> QED BY <3>1, <3>2, NobodyLeft
  <2>6. ASSUME NEW orders \in Batches, LoadFromSlice(orders) PROVE Counts
    BY <2>6, NobodyLeft DEF LoadFromSlice
  <2>7. ASSUME cleanupExpired PROVE Counts
    <3>1. /\ DOMAIN items' = Cached \ ExpiredUIDs /\ ExpiredUIDs \subseteq Cached
          /\ stats' = [stats EXCEPT !.expirations = Plus(@, Cardinality(ExpiredUIDs))]
      BY <2>7 DEF cleanupExpired, removeEntry, ExpiredUIDs
    <3>2. gone = ExpiredUIDs
      BY <3>1
    <3>3. Cardinality(gone) \in Nat
      BY <2>0, <3>1, <3>2, FS_Subset, FS_CardinalityType
    <3>4. /\ stats'.expirations = Plus(stats.expirations, Cardinality(gone))
          /\ stats'.evictions = stats.evictions
      BY <2>0, <3>1, <3>2 DEF Stats
    <3> HIDE DEF gone
    <3> QED BY <2>0, <3>3, <3>4, Tallied
  <2>8. ASSUME cleanupExit \/ Stop \/ Tick PROVE Counts
    <3>1. Cached \subseteq DOMAIN items' /\ stats' = stats
      BY <2>8 DEF cleanupExit, Stop, Tick, Cached
    <3> QED BY <3>1, NobodyLeft
  <2> QED
    BY <2>1, <2>2, <2>3, <2>4, <2>5, <2>6, <2>7, <2>8 DEF Next, Set, Get
<1> QED BY <1>1, InductiveInvariant, PTL DEF Spec, DeparturesCounted

-----------------------------------------------------------------------------
(* The cache implements the bounded map of its callers.                    *)
LEMMA ContentNext ==
    ASSUME IInv, IInv', Next
    PROVE  [Map!Next]_([u \in Cached |-> items[u].order])
<1> DEFINE content == [u \in Cached |-> items[u].order]
<1>0. /\ MapAndList /\ (MapAndList)' /\ Capacity'
      /\ DOMAIN content = Cached /\ DOMAIN content' = Cached'
      /\ \A u \in Cached : content[u] = items[u].order
      /\ content' = [u \in Cached' |-> items'[u].order]
  BY DEF IInv, TypeOK, MapAndList
<1>1. Map!Fits(DOMAIN content')
  BY <1>0 DEF Map!Fits, Capacity, Size, Map!Cardinality, Cardinality
<1>2. ASSUME NEW o \in Order, NEW gone \in SUBSET Cached, o.uid \notin gone,
             Front(o.uid, o, gone),
             gone # {} => o.uid \notin Cached /\ Cardinality(gone) = 1
      PROVE  Map!Put(o)
  <2>1. items' = [v \in (Cached \ gone) \union {o.uid} |->
                     IF v = o.uid THEN [order |-> o, idle |-> 0] ELSE items[v]]
    BY <1>2 DEF Front
  <2>2. content' = [u \in (Cached \ gone) \union {o.uid} |->
                       IF u = o.uid THEN o ELSE content[u]]
    BY <2>1, <1>0 DEF Cached
  <2>3. gone \in SUBSET (Cached \ {o.uid})
    BY <1>2
  <2> QED BY <2>2, <2>3, <1>0, <1>1, <1>2 DEF Map!Put, Map!Cardinality, Cardinality
<1>3. ASSUME NEW gone, removeEntry(gone) PROVE Map!Forget
  <2>1. content' = [u \in Cached \ (gone \cap Cached) |-> content[u]]
    BY <1>3, <1>0 DEF removeEntry, Cached
  <2> QED BY <2>1, <1>0 DEF Map!Forget
<1>4. ASSUME NEW o \in Order, SetExisting(o) PROVE Map!Next
  <2>1. Front(o.uid, o, {})
    BY <1>4 DEF SetExisting
  <2>2. Map!Put(o)
    BY <2>1, <1>2
  <2> QED BY <2>2 DEF Map!Next
<1>5. ASSUME NEW o \in Order, SetNew(o) PROVE Map!Next
  <2> DEFINE victims == IF Full THEN Oldest ELSE {}
  <2>1. Front(o.uid, o, victims) /\ o.uid \notin Cached
    BY <1>5 DEF SetNew
  <2>2. victims \in SUBSET Cached /\ (victims # {} => \E v : victims = {v})
    BY DEF Oldest
  <2> HIDE DEF victims
  <2>3. victims # {} => Cardinality(victims) = 1
    BY <2>2, FS_Singleton
  <2>4. Map!Put(o)
    BY <2>1, <2>2, <2>3, <1>2
  <2> QED BY <2>4 DEF Map!Next
<1>6. ASSUME NEW u \in UID, GetHit(u) PROVE content' = content
  <2>1. u \in Cached /\ Front(u, items[u].order, {})
    BY <1>6 DEF GetHit, Exists
  <2>2. items' = [v \in (Cached \ {}) \union {u} |->
                     IF v = u THEN [order |-> items[u].order, idle |-> 0] ELSE items[v]]
    BY <2>1 DEF Front
  <2>3. Cached' = Cached /\ \A v \in Cached : items'[v].order = items[v].order
    BY <2>1, <2>2 DEF Cached
  <2> QED BY <2>3, <1>0
<1>7. ASSUME NEW orders \in Batches, LoadFromSlice(orders) PROVE Map!Fill
  <2>1. Cached \subseteq Cached' /\ \A u \in Cached : items'[u] = items[u]
    <3> DEFINE taken == Trimmed(orders)
               loaded == {taken[k].uid : k \in FirstOccurrences(taken)}
    <3>1. items' = [u \in Cached \union loaded |->
                       IF u \in loaded THEN [order |-> FirstFor(taken, u), idle |-> 0]
                       ELSE items[u]]
      BY <1>7 DEF LoadFromSlice
    <3>2. loaded \cap Cached = {}
      BY DEF FirstOccurrences
    <3> HIDE DEF loaded
    <3> QED BY <3>1, <3>2 DEF Cached
  <2>2. \A u \in Cached' : content'[u] \in Order /\ content'[u].uid = u
    BY <1>0 DEF MapAndList, cacheEntry
  <2>3. Map!Kept'
    BY <2>2, <1>0, <1>1 DEF Map!Kept, MapAndList, Map!Fits
  <2> QED BY <2>1, <2>3, <1>0 DEF Map!Fill
<1>8. ASSUME Tick PROVE content' = content
  BY <1>8, <1>0 DEF Tick, Cached
<1>9. ASSUME UNCHANGED items PROVE content' = content
  BY <1>9, <1>0 DEF Cached
<1> QED
  <2>1. CASE \E o \in Order : Set(o)
    BY <2>1, <1>4, <1>5 DEF Set
  <2>2. CASE \E u \in UID : GetMiss(u)
    BY <2>2, <1>9 DEF GetMiss
  <2>3. CASE \E u \in UID : GetExpired(u) \/ Delete(u)
    BY <2>3, <1>3 DEF GetExpired, Delete, Map!Next
  <2>4. CASE \E u \in UID : GetHit(u)
    BY <2>4, <1>6
  <2>5. CASE \E orders \in Batches : LoadFromSlice(orders)
    BY <2>5, <1>7 DEF Map!Next
  <2>6. CASE cleanupExpired
    BY <2>6, <1>3 DEF cleanupExpired, Map!Next
  <2>7. CASE cleanupExit \/ Stop
    BY <2>7, <1>9 DEF cleanupExit, Stop
  <2>8. CASE Tick
    BY <2>8, <1>8
  <2> QED BY <2>1, <2>2, <2>3, <2>4, <2>5, <2>6, <2>7, <2>8 DEF Next, Get

(* Whatever the list, the clock and the statistics do, callers see a map   *)
(* that never holds too much, never files an order wrongly, never replaces *)
(* an order except by a Set of its uid, and gives up one order at most for *)
(* each one it takes in.                                                   *)
THEOREM ImplementsBoundedMap == Spec => RefinesBoundedMap
<1>1. Init => Map!Init
  BY DEF Init, Map!Init, Cached
<1>2. IInv /\ IInv' /\ [Next]_vars => [Map!Next]_([u \in Cached |-> items[u].order])
  <2>1. CASE Next
    BY <2>1, ContentNext
  <2>2. CASE UNCHANGED vars
    BY <2>2 DEF vars, Cached
  <2> QED BY <2>1, <2>2
<1> QED BY <1>1, <1>2, InductiveInvariant, PTL DEF Spec, RefinesBoundedMap, Map!Spec
=============================================================================
