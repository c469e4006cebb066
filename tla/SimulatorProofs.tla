-------------------------- MODULE SimulatorProofs --------------------------
(***************************************************************************)
(* Proofs about Simulator, for any number of workers, uids, seeds and      *)
(* operations.                                                             *)
(***************************************************************************)
EXTENDS Simulator, FiniteSetTheorems, SequenceTheorems, TLAPS

-----------------------------------------------------------------------------
(* The slice of tracked orders and the topic: what a list holds after an   *)
(* append, a batch and a read, and what removing with a swap leaves.       *)
LEMMA AppendFacts ==
    ASSUME NEW S, NEW s \in Seq(S), NEW e \in S
    PROVE  /\ Append(s, e) \in Seq(S)
           /\ Range(Append(s, e)) = Range(s) \union {e}
           /\ IsInjective(s) /\ e \notin Range(s) => IsInjective(Append(s, e))
<1> DEFINE t == Append(s, e)
<1>1. /\ t \in Seq(S) /\ Len(s) \in Nat /\ DOMAIN s = 1 .. Len(s)
      /\ DOMAIN t = 1 .. Len(s) + 1
      /\ \A i \in 1 .. Len(s) : t[i] = s[i]
      /\ t[Len(s) + 1] = e
  OBVIOUS
<1> HIDE DEF t
<1>2. Range(t) = Range(s) \union {e}
  <2>1. ASSUME NEW x \in Range(t) PROVE x \in Range(s) \union {e}
    <3>1. PICK i \in DOMAIN t : x = t[i]
      BY <2>1 DEF Range
    <3>2. i \in 1 .. Len(s) \/ i = Len(s) + 1
      BY <3>1, <1>1
    <3> QED BY <3>1, <3>2, <1>1 DEF Range
  <2>2. ASSUME NEW x \in Range(s) PROVE x \in Range(t)
    <3>1. PICK i \in DOMAIN s : x = s[i]
      BY <2>2 DEF Range
    <3>2. i \in DOMAIN t /\ x = t[i]
      BY <3>1, <1>1
    <3> QED BY <3>2 DEF Range
  <2>3. e \in Range(t)
    <3>1. Len(s) + 1 \in DOMAIN t
      BY <1>1
    <3> QED BY <3>1, <1>1 DEF Range
  <2> QED BY <2>1, <2>2, <2>3
<1>3. ASSUME IsInjective(s), e \notin Range(s) PROVE IsInjective(t)
  <2>1. \A i \in 1 .. Len(s) : s[i] # e
    BY <1>1, <1>3 DEF Range
  <2>2. \A i, j \in 1 .. Len(s) : s[i] = s[j] => i = j
    BY <1>1, <1>3 DEF IsInjective
  <2>3. ASSUME NEW i \in DOMAIN t, NEW j \in DOMAIN t, t[i] = t[j] PROVE i = j
    <3>1. (i \in 1 .. Len(s) \/ i = Len(s) + 1) /\ (j \in 1 .. Len(s) \/ j = Len(s) + 1)
      BY <1>1
    <3> QED BY <3>1, <2>1, <2>2, <2>3, <1>1
  <2> QED BY <2>3 DEF IsInjective
<1> QED BY <1>1, <1>2, <1>3 DEF t

LEMMA ConcatFacts ==
    ASSUME NEW S, NEW s \in Seq(S), NEW t \in Seq(S)
    PROVE  s \o t \in Seq(S) /\ Range(s \o t) = Range(s) \union Range(t)
<1> DEFINE c == s \o t
<1>1. /\ c \in Seq(S) /\ Len(s) \in Nat /\ Len(t) \in Nat
      /\ DOMAIN s = 1 .. Len(s) /\ DOMAIN t = 1 .. Len(t) /\ DOMAIN c = 1 .. Len(s) + Len(t)
      /\ \A i \in 1 .. Len(s) + Len(t) : c[i] = IF i <= Len(s) THEN s[i] ELSE t[i - Len(s)]
  OBVIOUS
<1> HIDE DEF c
<1>2. ASSUME NEW x \in Range(c) PROVE x \in Range(s) \union Range(t)
  <2>1. PICK i \in DOMAIN c : x = c[i]
    BY <1>2 DEF Range
  <2>2. CASE i <= Len(s)
    <3>1. i \in DOMAIN s /\ x = s[i]
      BY <2>1, <2>2, <1>1
    <3> QED BY <3>1 DEF Range
  <2>3. CASE ~ (i <= Len(s))
    <3>1. i - Len(s) \in DOMAIN t /\ x = t[i - Len(s)]
      BY <2>1, <2>3, <1>1
    <3> QED BY <3>1 DEF Range
  <2> QED BY <2>2, <2>3
<1>3. ASSUME NEW x \in Range(s) PROVE x \in Range(c)
  <2>1. PICK i \in DOMAIN s : x = s[i]
    BY <1>3 DEF Range
  <2>2. i \in DOMAIN c /\ x = c[i]
    BY <2>1, <1>1
  <2> QED BY <2>2 DEF Range
<1>4. ASSUME NEW x \in Range(t) PROVE x \in Range(c)
  <2>1. PICK i \in DOMAIN t : x = t[i]
    BY <1>4 DEF Range
  <2>2. i + Len(s) \in DOMAIN c /\ x = c[i + Len(s)]
    BY <2>1, <1>1
  <2> QED BY <2>2 DEF Range
<1> QED BY <1>1, <1>2, <1>3, <1>4 DEF c

LEMMA TailFacts ==
    ASSUME NEW S, NEW s \in Seq(S), s # <<>>
    PROVE  /\ Tail(s) \in Seq(S) /\ Head(s) \in S
           /\ Range(s) = {Head(s)} \union Range(Tail(s))
<1> DEFINE t == Tail(s)
<1>1. /\ t \in Seq(S) /\ Head(s) \in S /\ Head(s) = s[1] /\ Len(s) \in Nat \ {0}
      /\ DOMAIN s = 1 .. Len(s) /\ DOMAIN t = 1 .. Len(s) - 1
      /\ \A i \in 1 .. Len(s) - 1 : t[i] = s[i + 1]
  OBVIOUS
<1> HIDE DEF t
<1>2. ASSUME NEW x \in Range(s) PROVE x \in {Head(s)} \union Range(t)
  <2>1. PICK i \in DOMAIN s : x = s[i]
    BY <1>2 DEF Range
  <2>2. CASE i = 1
    BY <2>1, <2>2, <1>1
  <2>3. CASE i # 1
    <3>1. i - 1 \in DOMAIN t /\ x = t[i - 1]
      BY <2>1, <2>3, <1>1
    <3> QED BY <3>1 DEF Range
  <2> QED BY <2>2, <2>3
<1>3. ASSUME NEW x \in Range(t) PROVE x \in Range(s)
  <2>1. PICK i \in DOMAIN t : x = t[i]
    BY <1>3 DEF Range
  <2>2. i + 1 \in DOMAIN s /\ x = s[i + 1]
    BY <2>1, <1>1
  <2> QED BY <2>2 DEF Range
<1>4. Head(s) \in Range(s)
  <2>1. 1 \in DOMAIN s
    BY <1>1
  <2> QED BY <2>1, <1>1 DEF Range
<1> QED BY <1>1, <1>2, <1>3, <1>4 DEF t

(* Exactly the picked order leaves the slice, and none is doubled.         *)
LEMMA UntrackFacts ==
    ASSUME orders \in Seq(UID), IsInjective(orders), NEW i \in DOMAIN orders, Untrack(i)
    PROVE  /\ orders' \in Seq(UID)
           /\ IsInjective(orders')
           /\ Tracked' = Tracked \ {orders[i]}
<1> DEFINE n == Len(orders)
<1>1. /\ n \in Nat /\ DOMAIN orders = 1 .. n /\ i \in 1 .. n
      /\ \A j \in 1 .. n : orders[j] \in UID
      /\ \A j, k \in 1 .. n : orders[j] = orders[k] => j = k
  BY DEF IsInjective
<1>2. /\ DOMAIN orders' = 1 .. n - 1
      /\ \A j \in 1 .. n - 1 : orders'[j] = IF j = i THEN orders[n] ELSE orders[j]
  BY <1>1 DEF Untrack
<1>3. orders' \in Seq(UID)
  <2>1. \A j \in 1 .. n - 1 : (IF j = i THEN orders[n] ELSE orders[j]) \in UID
    BY <1>1
  <2>2. orders' \in [1 .. n - 1 -> UID] /\ n - 1 \in Nat
    BY <2>1, <1>1 DEF Untrack
  <2> QED BY <2>2
<1> HIDE DEF n
<1>4. IsInjective(orders')
  BY <1>1, <1>2 DEF IsInjective
<1>5. ASSUME NEW x \in Range(orders') PROVE x \in Range(orders) /\ x # orders[i]
  <2>1. PICK j \in 1 .. n - 1 : x = orders'[j]
    BY <1>5, <1>2 DEF Range
  <2>2. PICK k \in 1 .. n : x = orders[k] /\ k # i
    BY <2>1, <1>1, <1>2
  <2> QED BY <2>2, <1>1 DEF Range
<1>6. ASSUME NEW x \in Range(orders), x # orders[i] PROVE x \in Range(orders')
  <2>1. PICK k \in 1 .. n : x = orders[k]
    BY <1>6, <1>1 DEF Range
  <2>2. PICK j \in 1 .. n - 1 : x = orders'[j]
    <3>1. CASE k = n
      BY <3>1, <2>1, <1>1, <1>2, <1>6
    <3>2. CASE k # n
      BY <3>2, <2>1, <1>1, <1>2, <1>6
    <3> QED BY <3>1, <3>2
  <2> QED BY <2>2, <1>2 DEF Range
<1> QED BY <1>3, <1>4, <1>5, <1>6 DEF Tracked
-----------------------------------------------------------------------------
(* Order u may still be, or come to be, in the service: it is stored, a    *)
(* message holds it that is in the topic or may get there, or a worker is  *)
(* about to write one.                                                     *)
Live(u) ==
    \/ u \in db \union Range(topic) \union late
    \/ \E v \in Worker : work[v].at = "update" /\ work[v].uid = u

Owned(u) == \E w \in Worker : Owns(w, u)

(* What lives is tracked, owned or a stray.                                *)
Accounted == \A u \in UID : Live(u) => u \in Tracked \union strays \/ Owned(u)

(* An order that has not been written yet lives nowhere.                   *)
CreateIsNew ==
    \A w \in Worker, u \in UID : work[w].at = "create" /\ work[w].uid = u => ~ Live(u)

(* An order about to be tracked has been written.                          *)
Published ==
    \A w \in Worker : work[w].at = "track" => work[w].uid \in db \union Range(topic)

(* A uid that is known was drawn.                                          *)
KnownDrawn == \A u \in UID : u \in Tracked \union strays \/ Owned(u) => u \in drawn

Core ==
    /\ OneOwner /\ TrackedExists /\ Accounted
    /\ CreateIsNew /\ Published /\ KnownDrawn

SInv == TypeOK /\ Core

-----------------------------------------------------------------------------
(* What Become does to the workers.                                        *)
LEMMA BecomeEffect ==
    ASSUME TypeOK, NEW w \in Worker, NEW at \in Activity, NEW u \in UID \union {NoOrder},
           at \in Holding <=> u # NoOrder, Become(w, at, u)
    PROVE  /\ work' \in [Worker -> [at : Activity, uid : UID \union {NoOrder}]]
           /\ \A v \in Worker : work'[v].at \in Holding <=> work'[v].uid # NoOrder
           /\ work'[w].at = at /\ work'[w].uid = u
           /\ \A v \in Worker \ {w} : work'[v] = work[v]
BY DEF TypeOK, Become

(* A step of a worker that owns nothing before or after, writes nothing    *)
(* but what lives, and takes up an update of a tracked order at most.      *)
LEMMA QuietStep ==
    ASSUME TypeOK, Core, NEW w \in Worker,
           work[w].at \notin {"create", "track", "delete"},
           work'[w].at \notin {"create", "track", "delete"},
           work'[w].at = "update" => work'[w].uid \in Tracked,
           \A v \in Worker \ {w} : work'[v] = work[v],
           Range(topic) \subseteq Range(topic)',
           \A u \in (Range(topic) \union late)' : u = NoOrder \/ Live(u),
           UNCHANGED <<main, orders, drawn, db, unsent, strays>>
    PROVE  Core'
<1>1. Tracked' = Tracked
  BY DEF Tracked
<1>2. \A v \in Worker, u \in UID : Owns(v, u)' <=> Owns(v, u)
  BY DEF Owns
<1>3. \A u \in UID : Owned(u)' <=> Owned(u)
  BY <1>2 DEF Owned
<1>4. \A u \in UID : Live(u)' => Live(u) \/ u \in Tracked
  BY UidAssumption DEF Live
<1>5. OneOwner' /\ TrackedExists'
  BY <1>1, <1>2 DEF Core, OneOwner, TrackedExists
<1>6. Accounted' /\ KnownDrawn'
  BY <1>1, <1>3, <1>4 DEF Core, Accounted, KnownDrawn
<1>7. CreateIsNew'
  BY <1>4 DEF Core, CreateIsNew, OneOwner, Owns
<1>8. Published'
  BY DEF Core, Published
<1> QED BY <1>5, <1>6, <1>7, <1>8 DEF Core

(* A worker that owned nothing takes a uid nobody has drawn.               *)
LEMMA CreateStep ==
    ASSUME TypeOK, Core, NEW w \in Worker,
           work[w].at \notin {"create", "track", "delete", "update"},
           StartCreate(w),
           UNCHANGED <<main, orders, topic, late, db, unsent, strays>>
    PROVE  Core'
<1>1. PICK n \in UID \ drawn : drawn' = drawn \union {n} /\ Become(w, "create", n)
  BY DEF StartCreate
<1>2. /\ work'[w].at = "create" /\ work'[w].uid = n
      /\ \A v \in Worker \ {w} : work'[v] = work[v]
  BY <1>1, BecomeEffect, UidAssumption DEF Activity, Holding
<1>3. n \notin Tracked \union strays /\ ~ Owned(n) /\ ~ Live(n)
  BY <1>1 DEF Core, KnownDrawn, Accounted
<1>4. \A v \in Worker, u \in UID : Owns(v, u)' <=> Owns(v, u) \/ (v = w /\ u = n)
  BY <1>2 DEF Owns
<1>5. \A u \in UID : (Owned(u)' <=> Owned(u) \/ u = n) /\ (Live(u)' <=> Live(u))
  <2>1. \A u \in UID : Owned(u)' <=> Owned(u) \/ u = n
    BY <1>4, <1>1 DEF Owned
  <2>2. \A u \in UID : Live(u)' <=> Live(u)
    BY <1>2 DEF Live
  <2> QED BY <2>1, <2>2
<1>6. OneOwner' /\ TrackedExists'
  <2>1. \A v \in Worker : ~ Owns(v, n)
    BY <1>3 DEF Owned
  <2> QED BY <1>3, <1>4, <2>1 DEF Core, OneOwner, TrackedExists, Tracked
<1>7. Accounted' /\ KnownDrawn'
  BY <1>1, <1>5 DEF Core, Accounted, KnownDrawn, Tracked
<1>8. CreateIsNew'
  BY <1>1, <1>2, <1>3, <1>5 DEF Core, CreateIsNew
<1>9. Published'
  BY <1>2 DEF Core, Published
<1> QED BY <1>6, <1>7, <1>8, <1>9 DEF Core

(* An order leaves the slice for the hands of the worker that deletes it.  *)
LEMMA PickToDeleteStep ==
    ASSUME TypeOK, Core, NEW w \in Worker, PickToDelete(w), orders # <<>>
    PROVE  Core' /\ orders' \in Seq(UID)
<1>1. PICK i \in DOMAIN orders : Untrack(i) /\ Become(w, "delete", orders[i])
  BY DEF PickToDelete
<1> DEFINE n == orders[i]
<1>2. n \in UID /\ n \in Tracked
  BY DEF TypeOK, Tracked, Range
<1>3. orders' \in Seq(UID) /\ IsInjective(orders)' /\ Tracked' = Tracked \ {n}
  BY <1>1, UntrackFacts DEF TypeOK, Core, OneOwner
<1>4. /\ work'[w].at = "delete" /\ work'[w].uid = n /\ work[w].at = "delete?"
      /\ \A v \in Worker \ {w} : work'[v] = work[v]
      /\ UNCHANGED <<main, drawn, topic, late, db, unsent, strays>>
  BY <1>1, <1>2, BecomeEffect, UidAssumption DEF Activity, Holding, PickToDelete, outside
<1> HIDE DEF n
<1>5. \A v \in Worker, u \in UID : Owns(v, u)' <=> Owns(v, u) \/ (v = w /\ u = n)
  BY <1>4 DEF Owns
<1>6. \A u \in UID : Owned(u)' <=> Owned(u) \/ u = n
  BY <1>5, <1>2 DEF Owned
<1>7. \A u \in UID : Live(u)' <=> Live(u)
  BY <1>4 DEF Live
<1>8. OneOwner' /\ TrackedExists'
  BY <1>2, <1>3, <1>4, <1>5 DEF Core, OneOwner, TrackedExists
<1>9. Accounted' /\ KnownDrawn'
  BY <1>2, <1>3, <1>4, <1>6, <1>7 DEF Core, Accounted, KnownDrawn
<1>10. CreateIsNew'
  BY <1>4, <1>7 DEF Core, CreateIsNew
<1>11. Published'
  BY <1>4 DEF Core, Published
<1> QED BY <1>3, <1>8, <1>9, <1>10, <1>11 DEF Core

(* A new order is written, or its write reports an error: then nobody is   *)
(* left who knows it.                                                      *)
LEMMA WriteCreateStep ==
    ASSUME TypeOK, Core, NEW w \in Worker, WriteCreate(w) \/ WriteCreateFails(w)
    PROVE  Core'
<1>1. PICK n \in UID : n = work[w].uid /\ work[w].at = "create"
  BY DEF WriteCreate, WriteCreateFails, TypeOK, Holding
<1>2. Owns(w, n) /\ ~ Live(n) /\ n \in drawn
  BY <1>1 DEF Owns, Core, CreateIsNew, KnownDrawn, Owned
<1>3. UNCHANGED <<main, orders, drawn, db, unsent>> /\ Tracked' = Tracked
  BY DEF WriteCreate, WriteCreateFails, Tracked, ghosts
<1>4. \/ /\ work'[w].at = "track" /\ work'[w].uid = n
         /\ Range(topic)' = Range(topic) \union {n} /\ UNCHANGED <<late, strays>>
      \/ /\ work'[w].at = "idle" /\ work'[w].uid = NoOrder
         /\ topic' = topic /\ late' = late \union {n} /\ strays' = strays \union {n}
  <2>1. Range(Append(topic, n)) = Range(topic) \union {n}
    BY <1>1, AppendFacts DEF TypeOK
  <2>2. CASE WriteCreate(w)
    BY <2>1, <2>2, <1>1, BecomeEffect, UidAssumption DEF WriteCreate, Activity, Holding, ghosts
  <2>3. CASE WriteCreateFails(w)
    BY <2>3, <1>1, BecomeEffect DEF WriteCreateFails, Unconfirmed, Rest, Activity, Holding
  <2> QED BY <2>2, <2>3
<1>5. \A v \in Worker \ {w} : work'[v] = work[v]
  <2>1. CASE WriteCreate(w)
    BY <2>1, <1>1, BecomeEffect, UidAssumption DEF WriteCreate, Activity, Holding
  <2>2. CASE WriteCreateFails(w)
    BY <2>2, <1>1, BecomeEffect DEF WriteCreateFails, Rest, Activity, Holding
  <2> QED BY <2>1, <2>2
<1>6. \A v \in Worker, u \in UID : /\ Owns(v, u)' => Owns(v, u)
                                   /\ Owns(v, u) /\ (u # n \/ v # w) => Owns(v, u)'
  BY <1>1, <1>2, <1>4, <1>5, UidAssumption DEF Owns
<1>7. \A u \in UID : u # n => (Owned(u)' <=> Owned(u)) /\ (Live(u)' <=> Live(u))
  <2>1. \A u \in UID : u # n => (Owned(u)' <=> Owned(u))
    BY <1>6 DEF Owned
  <2>2. \A u \in UID : u # n => (Live(u)' <=> Live(u))
    BY <1>1, <1>3, <1>4, <1>5 DEF Live
  <2> QED BY <2>1, <2>2
<1>8. Live(n)' => n \in strays' \/ Owned(n)'
  BY <1>1, <1>2, <1>3, <1>4, <1>5 DEF Live, Owned, Owns
<1>9. OneOwner' /\ TrackedExists'
  BY <1>3, <1>4, <1>6 DEF Core, OneOwner, TrackedExists
<1>10. Accounted' /\ KnownDrawn'
  <2>1. Accounted'
    BY <1>3, <1>4, <1>7, <1>8 DEF Core, Accounted
  <2>2. KnownDrawn'
    BY <1>2, <1>3, <1>4, <1>7 DEF Core, KnownDrawn
  <2> QED BY <2>1, <2>2
<1>11. CreateIsNew'
  <2>1. \A v \in Worker, u \in UID :
           work'[v].at = "create" /\ work'[v].uid = u => v # w /\ Owns(v, u) /\ u # n
    BY <1>1, <1>2, <1>4, <1>5 DEF Owns, Core, OneOwner
  <2> QED BY <2>1, <1>5, <1>7 DEF Core, CreateIsNew
<1>12. Published'
  BY <1>3, <1>4, <1>5 DEF Core, Published
<1> QED BY <1>9, <1>10, <1>11, <1>12 DEF Core

(* The created order is tracked.                                           *)
LEMMA TrackStep ==
    ASSUME TypeOK, Core, NEW w \in Worker, Track(w)
    PROVE  Core'
<1>1. PICK n \in UID : n = work[w].uid /\ work[w].at = "track" /\ orders' = Append(orders, n)
  BY DEF Track, TypeOK, Holding
<1>2. Owns(w, n) /\ n \notin Tracked /\ n \in drawn /\ n \in db \union Range(topic)
  BY <1>1 DEF Owns, Core, OneOwner, KnownDrawn, Owned, Published
<1>3. UNCHANGED <<main, drawn, topic, late, db, unsent, strays>>
  BY DEF Track, outside, ghosts
<1>4. IsInjective(orders)' /\ Tracked' = Tracked \union {n}
  BY <1>1, <1>2, AppendFacts DEF TypeOK, Core, OneOwner, Tracked
<1>5. work'[w].at = "idle" /\ \A v \in Worker \ {w} : work'[v] = work[v]
  BY BecomeEffect DEF Track, Rest, Activity, Holding
<1>6. \A v \in Worker, u \in UID : Owns(v, u)' <=> Owns(v, u) /\ v # w
  BY <1>5 DEF Owns
<1>7. \A u \in UID : /\ Owned(u)' => Owned(u)
                     /\ Owned(u) => Owned(u)' \/ u = n
                     /\ Live(u)' <=> Live(u)
  <2>1. \A u \in UID : Live(u)' <=> Live(u)
    BY <1>1, <1>3, <1>5 DEF Live
  <2>2. \A u \in UID : Owns(w, u) => u = n
    BY <1>1 DEF Owns
  <2> QED BY <1>6, <2>1, <2>2 DEF Owned
<1>8. OneOwner' /\ TrackedExists'
  BY <1>2, <1>3, <1>4, <1>6 DEF Core, OneOwner, TrackedExists
<1>9. Accounted' /\ KnownDrawn'
  BY <1>2, <1>3, <1>4, <1>7 DEF Core, Accounted, KnownDrawn
<1>10. CreateIsNew' /\ Published'
  BY <1>3, <1>5, <1>7 DEF Core, CreateIsNew, Published
<1> QED BY <1>8, <1>9, <1>10 DEF Core

(* The owner of an order deletes it, or its request reports an error.      *)
LEMMA DeleteStep ==
    ASSUME TypeOK, Core, NEW w \in Worker, Delete(w) \/ DeleteFails(w)
    PROVE  Core'
<1>1. PICK n \in UID : n = work[w].uid /\ work[w].at = "delete"
  BY DEF Delete, DeleteFails, TypeOK, Holding
<1>2. Owns(w, n) /\ n \notin Tracked /\ n \in drawn
  BY <1>1 DEF Owns, Core, OneOwner, KnownDrawn, Owned
<1>3. /\ UNCHANGED <<main, orders, drawn, topic, late, unsent>> /\ Tracked' = Tracked
      /\ db \ {n} \subseteq db' /\ db' \subseteq db
      /\ strays \subseteq strays' /\ strays' \subseteq strays \union {n}
  BY <1>1 DEF Delete, DeleteFails, Tracked
<1>4. work'[w].at = "idle" /\ \A v \in Worker \ {w} : work'[v] = work[v]
  <2>1. Rest(w)
    BY DEF Delete, DeleteFails
  <2> QED BY <2>1, BecomeEffect DEF Rest, Activity, Holding
<1>5. Live(n)' => n \in strays'
  <2>1. ASSUME Delete(w), Live(n)' PROVE Returning(n)
    <3>1. n \notin db'
      BY <1>1, <2>1 DEF Delete
    <3>2. \/ n \in Range(topic) \union late
          \/ \E v \in Worker \ {w} : work[v].at = "update" /\ work[v].uid = n
      BY <2>1, <3>1, <1>3, <1>4 DEF Live
    <3>3. ASSUME NEW v \in Worker, work[v].at = "update", work[v].uid = n
          PROVE  work[v] = [at |-> "update", uid |-> n]
      BY <3>3 DEF TypeOK
    <3> QED BY <3>2, <3>3 DEF Returning
  <2>2. Delete(w) /\ Returning(n) => n \in strays'
    BY <1>1 DEF Delete
  <2>3. DeleteFails(w) => n \in strays'
    BY <1>1 DEF DeleteFails
  <2> QED BY <2>1, <2>2, <2>3
<1>6. \A v \in Worker, u \in UID : Owns(v, u)' <=> Owns(v, u) /\ v # w
  BY <1>4 DEF Owns
<1>7. \A u \in UID : /\ Owned(u)' => Owned(u)
                     /\ Owned(u) => Owned(u)' \/ u = n
                     /\ Live(u)' => Live(u)
  <2>1. \A u \in UID : Live(u)' => Live(u)
    BY <1>3, <1>4 DEF Live
  <2>2. \A u \in UID : Owns(w, u) => u = n
    BY <1>1 DEF Owns
  <2> QED BY <1>6, <2>1, <2>2 DEF Owned
<1>8. OneOwner' /\ TrackedExists'
  BY <1>2, <1>3, <1>6 DEF Core, OneOwner, TrackedExists
<1>9. Accounted'
  BY <1>3, <1>5, <1>7 DEF Core, Accounted
<1>10. KnownDrawn'
  BY <1>2, <1>3, <1>7 DEF Core, KnownDrawn
<1>11. CreateIsNew'
  BY <1>4, <1>7 DEF Core, CreateIsNew
<1>12. Published'
  <2>1. \A v \in Worker \ {w} : work[v].at = "track" => work[v].uid \in UID /\ work[v].uid # n
    BY <1>2 DEF Core, OneOwner, Owns, TypeOK, Holding
  <2> QED BY <2>1, <1>3, <1>4 DEF Core, Published
<1> QED BY <1>8, <1>9, <1>10, <1>11, <1>12 DEF Core

(* The seeds are drawn and tracked, then written; the service reads on.    *)
LEMMA SeedOrderStep ==
    ASSUME TypeOK, Core, SeedOrder
    PROVE  Core'
<1>1. PICK n \in UID \ drawn : drawn' = drawn \union {n} /\ orders' = Append(orders, n)
  BY DEF SeedOrder
<1>2. UNCHANGED <<main, work, topic, late, db, unsent, strays>> /\ main = "seed"
  BY DEF SeedOrder, outside, ghosts
<1>3. n \notin Tracked /\ ~ Owned(n)
  BY <1>1 DEF Core, KnownDrawn
<1>4. IsInjective(orders)' /\ Tracked' = Tracked \union {n}
  BY <1>1, <1>3, AppendFacts DEF TypeOK, Core, OneOwner, Tracked
<1>5. /\ \A v \in Worker, u \in UID : Owns(v, u)' <=> Owns(v, u)
      /\ \A u \in UID : Owned(u)' <=> Owned(u)
      /\ \A u \in UID : Live(u)' <=> Live(u)
  BY <1>2 DEF Owns, Owned, Live
<1>6. OneOwner' /\ TrackedExists'
  <2>1. \A v \in Worker : ~ Owns(v, n)
    BY <1>3 DEF Owned
  <2> QED BY <1>2, <1>3, <1>4, <1>5, <2>1 DEF Core, OneOwner, TrackedExists
<1>7. Accounted' /\ KnownDrawn'
  BY <1>1, <1>2, <1>4, <1>5 DEF Core, Accounted, KnownDrawn
<1>8. CreateIsNew' /\ Published'
  BY <1>2, <1>5 DEF Core, CreateIsNew, Published
<1> QED BY <1>6, <1>7, <1>8 DEF Core

LEMMA SeedWriteStep ==
    ASSUME TypeOK, Core, SeedWrite
    PROVE  Core'
<1>1. UNCHANGED <<orders, work, drawn, db, strays>> /\ Tracked' = Tracked
  BY DEF SeedWrite, Tracked
<1>2. /\ Range(topic) \subseteq Range(topic)'
      /\ (Range(topic) \union late)' \subseteq Range(topic) \union late \union Tracked
      /\ Tracked \subseteq Range(topic)' \union unsent'
  <2>1. Range(topic \o orders) = Range(topic) \union Tracked
    BY ConcatFacts DEF TypeOK, Tracked
  <2> QED BY <2>1 DEF SeedWrite, Unconfirmed
<1>3. /\ \A v \in Worker, u \in UID : Owns(v, u)' <=> Owns(v, u)
      /\ \A u \in UID : Owned(u)' <=> Owned(u)
      /\ \A u \in UID : Live(u)' => Live(u) \/ u \in Tracked
  BY <1>1, <1>2 DEF Owns, Owned, Live
<1>4. OneOwner' /\ TrackedExists'
  BY <1>1, <1>2, <1>3 DEF Core, OneOwner, TrackedExists
<1>5. Accounted' /\ KnownDrawn'
  BY <1>1, <1>3 DEF Core, Accounted, KnownDrawn
<1>6. CreateIsNew'
  <2>1. \A v \in Worker, u \in UID : work[v].at = "create" /\ work[v].uid = u => u \notin Tracked
    BY DEF Core, OneOwner, Owns
  <2> QED BY <1>1, <1>3, <2>1 DEF Core, CreateIsNew
<1>7. Published'
  BY <1>1, <1>2 DEF Core, Published
<1> QED BY <1>4, <1>5, <1>6, <1>7 DEF Core

LEMMA ConsumeStep ==
    ASSUME TypeOK, Core, Consume
    PROVE  Core' /\ topic' \in Seq(UID \union {NoOrder}) /\ db' \subseteq UID
<1>1. UNCHANGED <<main, orders, work, drawn, late, unsent, strays>> /\ Tracked' = Tracked
  BY DEF Consume, Tracked, ghosts
<1>2. /\ topic' \in Seq(UID \union {NoOrder}) /\ db' \subseteq UID
      /\ \A u \in UID : u \in (db \union Range(topic))' <=> u \in db \union Range(topic)
  <2>1. /\ topic' \in Seq(UID \union {NoOrder}) /\ Head(topic) \in UID \union {NoOrder}
        /\ Range(topic) = {Head(topic)} \union Range(topic')
    BY TailFacts DEF Consume, TypeOK
  <2> QED BY <2>1, UidAssumption DEF Consume, TypeOK
<1>3. /\ \A v \in Worker, u \in UID : Owns(v, u)' <=> Owns(v, u)
      /\ \A u \in UID : Owned(u)' <=> Owned(u)
      /\ \A u \in UID : Live(u)' <=> Live(u)
  BY <1>1, <1>2 DEF Owns, Owned, Live
<1>4. OneOwner' /\ Accounted' /\ KnownDrawn' /\ CreateIsNew'
  BY <1>1, <1>3 DEF Core, OneOwner, Accounted, KnownDrawn, CreateIsNew
<1>5. TrackedExists'
  <2>1. Tracked \subseteq UID
    BY DEF Tracked, Range, TypeOK
  <2> QED BY <1>1, <1>2, <2>1 DEF Core, TrackedExists
<1>6. Published'
  <2>1. \A v \in Worker : work[v].at = "track" => work[v].uid \in UID
    BY DEF TypeOK, Holding
  <2> QED BY <1>1, <1>2, <2>1 DEF Core, Published
<1> QED BY <1>2, <1>4, <1>5, <1>6 DEF Core

LEMMA LateWriteStep ==
    ASSUME TypeOK, Core, LateWrite
    PROVE  SInv'
<1>1. PICK u \in late : topic' = Append(topic, u) /\ late' = late \ {u}
  BY DEF LateWrite
<1>2. UNCHANGED <<main, orders, work, stats, drawn, db, ghosts>> /\ Tracked' = Tracked
  BY DEF LateWrite, Tracked
<1>3. /\ topic' \in Seq(UID \union {NoOrder}) /\ Range(topic)' = Range(topic) \union {u}
      /\ (Range(topic) \union late)' = Range(topic) \union late
  <2>1. u \in UID \union {NoOrder}
    BY DEF TypeOK
  <2>2. topic' \in Seq(UID \union {NoOrder}) /\ Range(topic)' = Range(topic) \union {u}
    BY <1>1, <2>1, AppendFacts DEF TypeOK
  <2> QED BY <1>1, <2>2
<1>4. TypeOK'
  BY <1>1, <1>2, <1>3 DEF TypeOK, ghosts
<1>5. /\ \A v \in Worker, x \in UID : Owns(v, x)' <=> Owns(v, x)
      /\ \A x \in UID : Owned(x)' <=> Owned(x)
      /\ \A x \in UID : Live(x)' <=> Live(x)
  BY <1>2, <1>3 DEF Owns, Owned, Live
<1>6. OneOwner' /\ Accounted' /\ KnownDrawn' /\ CreateIsNew'
  BY <1>2, <1>5 DEF Core, OneOwner, Accounted, KnownDrawn, CreateIsNew, ghosts
<1>7. TrackedExists' /\ Published'
  BY <1>2, <1>3 DEF Core, TrackedExists, Published, ghosts
<1> QED BY <1>4, <1>6, <1>7 DEF SInv, Core
-----------------------------------------------------------------------------
(* The types of counters and topic.                                        *)
LEMMA CountFacts ==
    ASSUME TypeOK
    PROVE  /\ \A c \in DOMAIN NoStats : Count(c) => stats' \in [DOMAIN NoStats -> Nat]
           /\ CountError => stats' \in [DOMAIN NoStats -> Nat]
<1>1. ASSUME NEW c \in DOMAIN NoStats, Count(c) PROVE stats' \in [DOMAIN NoStats -> Nat]
  BY <1>1 DEF Count, TypeOK
<1>2. "errors" \in DOMAIN NoStats
  BY DEF NoStats
<1>3. ASSUME CountError PROVE stats' \in [DOMAIN NoStats -> Nat]
  BY <1>1, <1>2, <1>3 DEF CountError, TypeOK
<1> QED BY <1>1, <1>3

LEMMA Counters ==
    {"creates", "reads", "updates", "deletes", "invalid", "errors"} \subseteq DOMAIN NoStats
BY DEF NoStats

LEMMA TopicFacts ==
    ASSUME TypeOK, NEW u \in UID \union {NoOrder}
    PROVE  /\ Append(topic, u) \in Seq(UID \union {NoOrder})
           /\ Range(Append(topic, u)) = Range(topic) \union {u}
BY AppendFacts DEF TypeOK

(* Every step of a worker preserves the invariant.                         *)
LEMMA ChooseSteps ==
    ASSUME SInv, NEW w \in Worker,
           Start(w) \/ Choose(w) \/ PickToRead(w) \/ PickToUpdate(w) \/ PickToDelete(w)
    PROVE  SInv'
<1> USE DEF SInv
<1>1. CASE Start(w)
  <2>1. /\ work'[w].at = "choose" /\ \A v \in Worker \ {w} : work'[v] = work[v]
        /\ work' \in [Worker -> [at : Activity, uid : UID \union {NoOrder}]]
        /\ \A v \in Worker : work'[v].at \in Holding <=> work'[v].uid # NoOrder
    BY <1>1, BecomeEffect DEF Start, Activity, Holding
  <2>2. TypeOK'
    BY <1>1, <2>1, SeedAssumption DEF Start, TypeOK, outside
  <2>3. Core'
    BY <1>1, <2>1, QuietStep DEF Start, outside, Live
  <2> QED BY <2>2, <2>3
<1>2. ASSUME StartCreate(w), work[w].at \in {"choose", "read?", "update?"},
             UNCHANGED <<main, orders, stats, outside, ghosts>>
      PROVE  SInv'
  <2>1. PICK u \in UID \ drawn : drawn' = drawn \union {u} /\ Become(w, "create", u)
    BY <1>2 DEF StartCreate
  <2>2. TypeOK'
    BY <1>2, <2>1, BecomeEffect, UidAssumption DEF TypeOK, Activity, Holding, outside, ghosts
  <2>3. Core'
    BY <1>2, CreateStep DEF outside, ghosts
  <2> QED BY <2>2, <2>3
<1>3. ASSUME NEW at \in Activity, NEW u \in Tracked \union {NoOrder}, Become(w, at, u),
             at \notin {"create", "track", "delete"}, at \in Holding <=> u # NoOrder,
             work[w].at \in {"choose", "read?", "update?"},
             UNCHANGED <<main, orders, stats, drawn, outside, ghosts>>
      PROVE  SInv'
  <2>1. u \in UID \union {NoOrder}
    BY DEF TypeOK, Tracked, Range
  <2>2. /\ work'[w].at = at /\ work'[w].uid = u /\ \A v \in Worker \ {w} : work'[v] = work[v]
        /\ work' \in [Worker -> [at : Activity, uid : UID \union {NoOrder}]]
        /\ \A v \in Worker : work'[v].at \in Holding <=> work'[v].uid # NoOrder
    BY <1>3, <2>1, BecomeEffect
  <2>3. TypeOK'
    BY <1>3, <2>2 DEF TypeOK, outside, ghosts
  <2>4. Core'
    BY <1>3, <2>2, QuietStep DEF outside, ghosts, Live, Holding
  <2> QED BY <2>3, <2>4
<1>4. CASE Choose(w)
  <2>1. CASE StartCreate(w)
    BY <1>2, <1>4, <2>1 DEF Choose
  <2>2. CASE ~ StartCreate(w)
    <3>1. PICK at \in {"invalid message", "read?", "update?", "delete?", "invalid request"} :
             Become(w, at, NoOrder)
      BY <1>4, <2>2 DEF Choose
    <3> QED BY <1>3, <1>4, <2>2, <3>1 DEF Choose, Activity, Holding
  <2> QED BY <2>1, <2>2
<1>5. CASE PickToRead(w)
  <2>1. CASE orders = <<>> /\ StartCreate(w)
    BY <1>2, <1>5, <2>1 DEF PickToRead
  <2>2. CASE ~ (orders = <<>> /\ StartCreate(w))
    <3>1. PICK i \in DOMAIN orders : Become(w, "read", orders[i]) /\ UNCHANGED drawn
      BY <1>5, <2>2 DEF PickToRead
    <3>2. orders[i] \in Tracked /\ orders[i] # NoOrder
      BY UidAssumption DEF Tracked, Range, TypeOK
    <3> QED BY <1>3, <1>5, <3>1, <3>2 DEF PickToRead, Activity, Holding
  <2> QED BY <2>1, <2>2
<1>6. CASE PickToUpdate(w)
  <2>1. CASE orders = <<>> /\ StartCreate(w)
    BY <1>2, <1>6, <2>1 DEF PickToUpdate
  <2>2. CASE ~ (orders = <<>> /\ StartCreate(w))
    <3>1. PICK i \in DOMAIN orders : Become(w, "update", orders[i]) /\ UNCHANGED drawn
      BY <1>6, <2>2 DEF PickToUpdate
    <3>2. orders[i] \in Tracked /\ orders[i] # NoOrder
      BY UidAssumption DEF Tracked, Range, TypeOK
    <3> QED BY <1>3, <1>6, <3>1, <3>2 DEF PickToUpdate, Activity, Holding
  <2> QED BY <2>1, <2>2
<1>7. CASE PickToDelete(w)
  <2>1. CASE orders = <<>>
    <3>1. Rest(w) /\ vain' = vain + 1 /\ work[w].at = "delete?"
          /\ UNCHANGED <<main, orders, stats, drawn, outside, ops, unsent, strays>>
      BY <1>7, <2>1 DEF PickToDelete
    <3>2. /\ work'[w].at = "idle" /\ \A v \in Worker \ {w} : work'[v] = work[v]
          /\ work' \in [Worker -> [at : Activity, uid : UID \union {NoOrder}]]
          /\ \A v \in Worker : work'[v].at \in Holding <=> work'[v].uid # NoOrder
      BY <3>1, BecomeEffect DEF Rest, Activity, Holding
    <3>3. TypeOK'
      BY <3>1, <3>2 DEF TypeOK, outside
    <3>4. Core'
      BY <3>1, <3>2, QuietStep DEF outside, Live
    <3> QED BY <3>3, <3>4
  <2>2. CASE orders # <<>>
    <3>1. PICK i \in DOMAIN orders : Become(w, "delete", orders[i]) /\ UNCHANGED vain
      BY <1>7, <2>2 DEF PickToDelete
    <3>2. orders[i] \in UID
      BY DEF TypeOK
    <3>3. /\ work' \in [Worker -> [at : Activity, uid : UID \union {NoOrder}]]
          /\ \A v \in Worker : work'[v].at \in Holding <=> work'[v].uid # NoOrder
      BY <3>1, <3>2, BecomeEffect, UidAssumption DEF Activity, Holding
    <3>4. Core' /\ orders' \in Seq(UID)
      BY <1>7, <2>2, PickToDeleteStep
    <3>5. TypeOK'
      BY <1>7, <3>1, <3>3, <3>4 DEF PickToDelete, TypeOK, outside
    <3> QED BY <3>4, <3>5
  <2> QED BY <2>1, <2>2
<1> QED BY <1>1, <1>4, <1>5, <1>6, <1>7

LEMMA CallSteps ==
    ASSUME SInv, NEW w \in Worker,
           \/ WriteCreate(w) \/ WriteCreateFails(w) \/ Track(w) \/ Read(w)
           \/ WriteUpdate(w) \/ WriteUpdateFails(w) \/ Delete(w) \/ DeleteFails(w)
           \/ WriteInvalid(w) \/ WriteInvalidFails(w) \/ RequestInvalid(w) \/ Return(w)
    PROVE  SInv'
<1> USE DEF SInv
<1> DEFINE Typed == /\ work' \in [Worker -> [at : Activity, uid : UID \union {NoOrder}]]
                    /\ \A v \in Worker : work'[v].at \in Holding <=> work'[v].uid # NoOrder
<1>1. work[w].at \in Holding => work[w].uid \in UID
  BY DEF TypeOK
<1>2. ASSUME Rest(w) \/ Become(w, "returned", NoOrder)
      PROVE  /\ Typed /\ work'[w].at \in {"idle", "returned"}
             /\ \A v \in Worker \ {w} : work'[v] = work[v]
  BY <1>2, BecomeEffect DEF Rest, Activity, Holding
<1>3. ASSUME WriteCreate(w) \/ WriteCreateFails(w) PROVE SInv'
  <2>1. work[w].uid \in UID /\ Append(topic, work[w].uid) \in Seq(UID \union {NoOrder})
    BY <1>1, <1>3, TopicFacts DEF WriteCreate, WriteCreateFails, Holding
  <2>2. CASE WriteCreate(w)
    <3>1. Typed
      BY <2>1, <2>2, BecomeEffect, UidAssumption DEF WriteCreate, Activity, Holding
    <3> QED BY <2>1, <2>2, <3>1, WriteCreateStep DEF WriteCreate, TypeOK, ghosts
  <2>3. CASE WriteCreateFails(w)
    <3>1. TypeOK'
      BY <2>1, <2>3, <1>2, CountFacts DEF WriteCreateFails, Unconfirmed, TypeOK
    <3> QED BY <2>3, <3>1, WriteCreateStep
  <2> QED BY <1>3, <2>2, <2>3
<1>4. ASSUME Track(w) PROVE SInv'
  <2>1. orders' \in Seq(UID)
    BY <1>1, <1>4, AppendFacts DEF Track, TypeOK, Holding
  <2>2. stats' \in [DOMAIN NoStats -> Nat]
    BY <1>4, CountFacts, Counters DEF Track
  <2>3. TypeOK'
    BY <1>2, <1>4, <2>1, <2>2 DEF Track, TypeOK, outside, ghosts
  <2> QED BY <1>4, <2>3, TrackStep
<1>5. ASSUME Delete(w) \/ DeleteFails(w) PROVE SInv'
  <2>1. stats' \in [DOMAIN NoStats -> Nat]
    BY <1>5, CountFacts, Counters DEF Delete, DeleteFails
  <2>2. work[w].uid \in UID
    BY <1>1, <1>5 DEF Delete, DeleteFails, Holding
  <2>3. TypeOK'
    BY <1>2, <1>5, <2>1, <2>2 DEF Delete, DeleteFails, TypeOK
  <2> QED BY <1>5, <2>3, DeleteStep
<1>6. ASSUME work[w].at \notin {"create", "track", "delete"},
             Rest(w) \/ Become(w, "returned", NoOrder),
             stats' \in [DOMAIN NoStats -> Nat],
             \/ UNCHANGED <<topic, late>>
             \/ \E u \in {NoOrder} \union (IF work[w].at = "update" THEN {work[w].uid} ELSE {}) :
                   (topic' = Append(topic, u) /\ UNCHANGED late) \/ Unconfirmed({u}),
             UNCHANGED <<main, orders, drawn, db, ghosts>>
      PROVE  SInv'
  <2>1. /\ topic' \in Seq(UID \union {NoOrder}) /\ late' \subseteq UID \union {NoOrder}
        /\ Range(topic) \subseteq Range(topic)'
        /\ \A u \in (Range(topic) \union late)' : u = NoOrder \/ Live(u)
    <3>1. CASE UNCHANGED <<topic, late>>
      BY <3>1 DEF TypeOK, Live
    <3>2. ASSUME NEW u \in {NoOrder} \union (IF work[w].at = "update" THEN {work[w].uid} ELSE {}),
                 (topic' = Append(topic, u) /\ UNCHANGED late) \/ Unconfirmed({u})
          PROVE  /\ topic' \in Seq(UID \union {NoOrder}) /\ late' \subseteq UID \union {NoOrder}
                 /\ Range(topic) \subseteq Range(topic)'
                 /\ \A x \in (Range(topic) \union late)' : x = NoOrder \/ Live(x)
      <4>1. u = NoOrder \/ (u \in UID /\ Live(u))
        <5>1. u # NoOrder => work[w].at = "update" /\ u = work[w].uid
          BY <3>2
        <5> QED BY <5>1, <1>1 DEF Live, Holding
      <4>2. Append(topic, u) \in Seq(UID \union {NoOrder})
            /\ Range(Append(topic, u)) = Range(topic) \union {u}
        BY <4>1, TopicFacts
      <4> QED BY <3>2, <4>1, <4>2 DEF Unconfirmed, TypeOK, Live
    <3> QED BY <1>6, <3>1, <3>2
  <2>2. TypeOK'
    BY <1>2, <1>6, <2>1 DEF TypeOK, ghosts
  <2>3. Core'
    BY <1>2, <1>6, <2>1, QuietStep DEF ghosts
  <2> QED BY <2>2, <2>3
<1>7. ASSUME Read(w) \/ RequestInvalid(w) PROVE SInv'
  <2>1. stats' \in [DOMAIN NoStats -> Nat]
    BY <1>7, CountFacts, Counters DEF Read, RequestInvalid
  <2> QED BY <1>6, <1>7, <2>1 DEF Read, RequestInvalid, outside
<1>8. ASSUME WriteUpdate(w) \/ WriteUpdateFails(w) PROVE SInv'
  <2>1. stats' \in [DOMAIN NoStats -> Nat]
    BY <1>8, CountFacts, Counters DEF WriteUpdate, WriteUpdateFails
  <2> QED BY <1>6, <1>8, <2>1 DEF WriteUpdate, WriteUpdateFails
<1>9. ASSUME WriteInvalid(w) \/ WriteInvalidFails(w) PROVE SInv'
  <2>1. stats' \in [DOMAIN NoStats -> Nat]
    BY <1>9, CountFacts, Counters DEF WriteInvalid, WriteInvalidFails
  <2> QED BY <1>6, <1>9, <2>1 DEF WriteInvalid, WriteInvalidFails
<1>10. ASSUME Return(w) PROVE SInv'
  BY <1>6, <1>10 DEF Return, outside, TypeOK
<1> QED BY <1>3, <1>4, <1>5, <1>7, <1>8, <1>9, <1>10

-----------------------------------------------------------------------------
(* The invariant holds in every behaviour: each order that lives is known, *)
(* and has one owner at most.                                              *)
THEOREM InductiveInvariant == Spec => []SInv
<1>1. Init => SInv
  <2> SUFFICES ASSUME Init PROVE SInv
    OBVIOUS
  <2>1. Tracked = {} /\ Range(topic) = {} /\ IsInjective(orders)
    BY DEF Init, Tracked, Range, IsInjective
  <2>2. TypeOK
    BY SeedAssumption DEF Init, TypeOK, Activity, Holding, NoStats
  <2>3. \A u \in UID : ~ Live(u) /\ ~ Owned(u)
    BY <2>1 DEF Init, Live, Owned, Owns
  <2>4. Core
    BY <2>1, <2>3 DEF Init, Core, OneOwner, TrackedExists, Accounted, CreateIsNew, Published,
                      KnownDrawn, Owned, Owns
  <2> QED BY <2>2, <2>4 DEF SInv
<1>2. SInv /\ [Next]_vars => SInv'
  <2> SUFFICES ASSUME SInv, [Next]_vars PROVE SInv'
    OBVIOUS
  <2> USE DEF SInv
  <2>1. CASE SeedOrder
    <3>1. PICK n \in UID : drawn' = drawn \union {n} /\ orders' = Append(orders, n)
      BY <2>1 DEF SeedOrder
    <3>2. orders' \in Seq(UID) /\ stats' \in [DOMAIN NoStats -> Nat]
      BY <2>1, <3>1, AppendFacts, CountFacts, Counters DEF SeedOrder, TypeOK
    <3>3. TypeOK'
      BY <2>1, <3>1, <3>2 DEF SeedOrder, TypeOK, outside, ghosts
    <3> QED BY <2>1, <3>3, SeedOrderStep
  <2>2. CASE SeedWrite
    <3>1. topic \o orders \in Seq(UID \union {NoOrder}) /\ Tracked \subseteq UID
      BY ConcatFacts DEF TypeOK, Tracked, Range
    <3>2. TypeOK'
      BY <2>2, <3>1 DEF SeedWrite, Unconfirmed, TypeOK
    <3> QED BY <2>2, <3>2, SeedWriteStep
  <2>3. ASSUME NEW w \in Worker, Step(w) PROVE SInv'
    BY <2>3, ChooseSteps, CallSteps DEF Step
  <2>4. CASE Stop \/ Finish
    <3>1. UNCHANGED <<orders, work, stats, drawn, topic, late, db, ops, vain, unsent, strays>>
      BY <2>4 DEF Stop, Finish, outside, ghosts
    <3>2. main # "seed" /\ main' \in {"stopping", "done"}
      BY <2>4 DEF Stop, Finish
    <3>3. TypeOK'
      BY <3>1, <3>2 DEF TypeOK
    <3>4. Core'
      BY <3>1, <3>2 DEF Core, OneOwner, TrackedExists, Accounted, CreateIsNew, Published,
                        KnownDrawn, Owned, Owns, Live, Tracked
    <3> QED BY <3>3, <3>4
  <2>5. CASE Consume
    <3>1. TypeOK'
      BY <2>5, ConsumeStep DEF Consume, TypeOK, ghosts
    <3> QED BY <2>5, <3>1, ConsumeStep
  <2>6. CASE LateWrite
    BY <2>6, LateWriteStep
  <2>7. CASE UNCHANGED vars
    BY <2>7 DEF vars, TypeOK, Core, OneOwner, TrackedExists, Accounted, CreateIsNew, Published,
                KnownDrawn, Owned, Owns, Live, Tracked
  <2> QED BY <2>1, <2>2, <2>3, <2>4, <2>5, <2>6, <2>7 DEF Next
<1> QED BY <1>1, <1>2, PTL DEF Spec

(* Every variable keeps its type.                                          *)
THEOREM TypeCorrect == Spec => []TypeOK
<1>1. SInv => TypeOK
  BY DEF SInv
<1> QED BY <1>1, InductiveInvariant, PTL

(* No two workers create, track or delete the same order: what one takes   *)
(* out of the slice (main.go:910-921) is its own.                          *)
THEOREM OwnersAreUnique == Spec => []OneOwner
<1>1. SInv => OneOwner
  BY DEF SInv, Core
<1> QED BY <1>1, InductiveInvariant, PTL

(* What is tracked is stored or on its way, the seeds of a failed batch    *)
(* apart (main.go:287-290, 398-403, 494-498).                              *)
THEOREM TrackedAlwaysExists == Spec => []TrackedExists
<1>1. SInv => TrackedExists
  BY DEF SInv, Core
<1> QED BY <1>1, InductiveInvariant, PTL

(* What the service stores is tracked, in a worker's hands, or one of the  *)
(* strays whose ways are listed in StoredIsTracked (main.go:389-396,       *)
(* 457-488, 494-525).                                                      *)
THEOREM StoredAlwaysTracked == Spec => []StoredIsTracked
<1>1. SInv => StoredIsTracked
  BY DEF SInv, Core, Accounted, Live, Owned, StoredIsTracked, TypeOK
<1> QED BY <1>1, InductiveInvariant, PTL

-----------------------------------------------------------------------------
(* Counting: what is counted, and the workers that are about to count.     *)
Counted == Total + stats.errors
Busy == Worker \ Resting
InFlight == Cardinality(Busy)

(* While the seeds are made, nothing else has been counted.                *)
Seeding ==
    main = "seed" =>
        /\ \A w \in Worker : work[w].at = "idle"
        /\ Counted = Len(orders) /\ ops = 0 /\ vain = 0

BInv == SInv /\ Seeding /\ CountedOnce

LEMMA CountsOne ==
    ASSUME TypeOK
    PROVE  /\ Counted \in Nat
           /\ \A c \in DOMAIN NoStats : Count(c) => Counted' = Counted + 1
           /\ CountError => Counted' \in {Counted, Counted + 1}
           /\ CountError /\ main # "stopping" => Counted' = Counted + 1
<1>1. stats \in [{"creates", "reads", "updates", "deletes", "invalid", "errors"} -> Nat]
  BY DEF TypeOK, NoStats
<1>2. Counted \in Nat
  BY <1>1 DEF Counted, Total
<1>3. ASSUME NEW c \in DOMAIN NoStats, Count(c) PROVE Counted' = Counted + 1
  BY <1>1, <1>3 DEF Count, NoStats, Counted, Total
<1>4. "errors" \in DOMAIN NoStats
  BY DEF NoStats
<1>5. UNCHANGED stats => Counted' = Counted
  BY DEF Counted, Total
<1> QED BY <1>2, <1>3, <1>4, <1>5 DEF CountError

LEMMA InFlightFacts ==
    ASSUME NEW w \in Worker, \A v \in Worker \ {w} : work'[v] = work[v]
    PROVE  /\ InFlight \in Nat /\ InFlight' \in Nat
           /\ w \in Resting /\ w \in Resting' => InFlight' = InFlight
           /\ w \notin Resting /\ w \notin Resting' => InFlight' = InFlight
           /\ w \in Resting /\ w \notin Resting' => InFlight' = InFlight + 1
           /\ w \notin Resting /\ w \in Resting' => InFlight' = InFlight - 1
<1>1. IsFiniteSet(Busy) /\ IsFiniteSet(Busy')
  BY WorkerAssumption, FS_Subset DEF Busy
<1>2. InFlight \in Nat /\ InFlight' \in Nat
  BY <1>1, FS_CardinalityType DEF InFlight
<1>3. Busy \ {w} = Busy' \ {w}
  BY DEF Busy, Resting
<1>4. (w \in Busy <=> w \notin Resting) /\ (w \in Busy' <=> w \notin Resting')
  BY DEF Busy
<1>5. CASE (w \in Busy) = (w \in Busy')
  <2>1. Busy = Busy'
    BY <1>3, <1>5
  <2> QED BY <2>1, <1>2, <1>4 DEF InFlight
<1>6. CASE w \notin Busy /\ w \in Busy'
  <2>1. Busy' = Busy \union {w}
    BY <1>3, <1>6
  <2>2. Cardinality(Busy') = Cardinality(Busy) + 1
    BY <2>1, <1>1, <1>6, FS_AddElement
  <2> QED BY <2>2, <1>2, <1>4, <1>6 DEF InFlight
<1>7. CASE w \in Busy /\ w \notin Busy'
  <2>1. Busy' = Busy \ {w}
    BY <1>3, <1>7
  <2>2. Cardinality(Busy') = Cardinality(Busy) - 1
    BY <2>1, <1>1, <1>7, FS_RemoveElement
  <2> QED BY <2>2, <1>2, <1>4, <1>7 DEF InFlight
<1> QED BY <1>5, <1>6, <1>7

(* A step of a worker opens one operation, passes one on, or closes one    *)
(* and counts it.                                                          *)
LEMMA BalanceSteps ==
    ASSUME BInv, NEW w \in Worker, Step(w)
    PROVE  Seeding' /\ CountedOnce'
<1>1. TypeOK /\ main # "seed" /\ main' = main
  BY DEF BInv, SInv, Seeding, Step, Start, Choose, PickToRead, PickToUpdate, PickToDelete,
         WriteCreate, WriteCreateFails, Track, Read, WriteUpdate, WriteUpdateFails, Delete,
         DeleteFails, WriteInvalid, WriteInvalidFails, RequestInvalid, Return
<1>2. /\ Counted \in Nat /\ InFlight \in Nat /\ vain \in Nat /\ ops \in Nat /\ SeedCount \in Nat
      /\ main = "run" => Counted + vain + InFlight = SeedCount + ops
      /\ Counted + vain + InFlight <= SeedCount + ops
  <2>1. Counted \in Nat /\ vain \in Nat /\ ops \in Nat /\ SeedCount \in Nat
    BY <1>1, CountsOne, SeedAssumption DEF TypeOK
  <2>2. InFlight \in Nat
    BY WorkerAssumption, FS_Subset, FS_CardinalityType DEF InFlight, Busy
  <2>3. /\ main = "run" => Counted + vain + InFlight = SeedCount + ops
        /\ Counted + vain + InFlight <= SeedCount + ops
    BY <1>1 DEF BInv, CountedOnce, Counted, InFlight, Busy
  <2> QED BY <2>1, <2>2, <2>3
<1>3. SUFFICES
        /\ main = "run" => Counted' + vain' + InFlight' = SeedCount + ops'
        /\ Counted' + vain' + InFlight' <= SeedCount + ops'
  BY <1>1 DEF Seeding, CountedOnce, Counted, InFlight, Busy
<1>4. ASSUME NEW at \in Activity, NEW u, Become(w, at, u)
      PROVE  /\ w \in Resting' <=> at \in {"idle", "returned"}
             /\ \A v \in Worker \ {w} : work'[v] = work[v]
  BY <1>1, <1>4 DEF Become, TypeOK, Resting
<1>5. w \in Resting <=> work[w].at \in {"idle", "returned"}
  BY DEF Resting
<1>6. UNCHANGED stats => Counted' = Counted
  BY DEF Counted, Total
<1>7. CASE Start(w)
  <2>1. InFlight' = InFlight + 1
    BY <1>4, <1>5, <1>7, InFlightFacts DEF Start, Activity
  <2>2. Counted' = Counted /\ vain' = vain /\ ops' = ops + 1
    BY <1>6, <1>7 DEF Start
  <2> QED BY <1>2, <2>1, <2>2
<1>8. ASSUME w \notin Resting, UNCHANGED <<stats, vain, ops>>,
             \E at \in Activity \ {"idle", "returned"}, u \in UID \union {NoOrder} : Become(w, at, u)
      PROVE  /\ Counted' = Counted /\ InFlight' = InFlight /\ vain' = vain /\ ops' = ops
  BY <1>4, <1>6, <1>8, InFlightFacts
<1>9. CASE Choose(w) \/ PickToRead(w) \/ PickToUpdate(w) \/ WriteCreate(w)
  <2>1. w \notin Resting /\ UNCHANGED <<stats, vain, ops>>
    BY <1>5, <1>9 DEF Choose, PickToRead, PickToUpdate, WriteCreate, ghosts
  <2>2. \E at \in Activity \ {"idle", "returned"}, u \in UID \union {NoOrder} : Become(w, at, u)
    <3>1. CASE StartCreate(w)
      BY <3>1 DEF StartCreate, Activity
    <3>2. CASE Choose(w) /\ ~ StartCreate(w)
      BY <3>2 DEF Choose, Activity
    <3>3. CASE (PickToRead(w) \/ PickToUpdate(w)) /\ ~ StartCreate(w)
      <4>1. \A i \in DOMAIN orders : orders[i] \in UID
        BY <1>1 DEF TypeOK
      <4> QED BY <3>3, <4>1 DEF PickToRead, PickToUpdate, Activity
    <3>4. CASE WriteCreate(w)
      BY <1>1, <3>4 DEF WriteCreate, Activity, TypeOK
    <3> QED BY <1>9, <3>1, <3>2, <3>3, <3>4
  <2> QED BY <1>2, <1>8, <2>1, <2>2
<1>10. ASSUME w \notin Resting, Rest(w) PROVE InFlight' = InFlight - 1
  BY <1>4, <1>10, InFlightFacts DEF Rest, Activity
<1>11. CASE PickToDelete(w)
  <2>1. CASE orders = <<>>
    <3>1. InFlight' = InFlight - 1 /\ Counted' = Counted /\ vain' = vain + 1 /\ ops' = ops
      BY <1>5, <1>6, <1>10, <1>11, <2>1 DEF PickToDelete
    <3> QED BY <1>2, <3>1
  <2>2. CASE orders # <<>>
    <3>1. PICK i \in DOMAIN orders : Become(w, "delete", orders[i]) /\ UNCHANGED vain
      BY <1>11, <2>2 DEF PickToDelete
    <3>2. orders[i] \in UID
      BY <1>1 DEF TypeOK
    <3>3. /\ Counted' = Counted /\ InFlight' = InFlight /\ vain' = vain /\ ops' = ops
      BY <1>5, <1>8, <1>11, <3>1, <3>2 DEF PickToDelete, Activity
    <3> QED BY <1>2, <3>3
  <2> QED BY <2>1, <2>2
<1>12. ASSUME w \notin Resting, Rest(w), UNCHANGED <<vain, ops>>,
              \/ \E c \in DOMAIN NoStats : Count(c)
              \/ CountError
       PROVE  /\ InFlight' = InFlight - 1 /\ vain' = vain /\ ops' = ops
              /\ Counted' \in {Counted, Counted + 1}
              /\ main = "run" => Counted' = Counted + 1
  BY <1>1, <1>10, <1>12, CountsOne
<1>13. CASE \/ WriteCreateFails(w) \/ Track(w) \/ Read(w) \/ WriteUpdate(w)
            \/ WriteUpdateFails(w) \/ Delete(w) \/ DeleteFails(w) \/ WriteInvalid(w)
            \/ WriteInvalidFails(w) \/ RequestInvalid(w)
  <2>1. w \notin Resting /\ Rest(w) /\ UNCHANGED <<vain, ops>>
    BY <1>5, <1>13 DEF WriteCreateFails, Track, Read, WriteUpdate, WriteUpdateFails, Delete,
                       DeleteFails, WriteInvalid, WriteInvalidFails, RequestInvalid, ghosts
  <2>2. (\E c \in DOMAIN NoStats : Count(c)) \/ CountError
    BY <1>13, Counters
       DEF WriteCreateFails, Track, Read, WriteUpdate, WriteUpdateFails, Delete, DeleteFails,
           WriteInvalid, WriteInvalidFails, RequestInvalid
  <2> QED BY <1>2, <1>12, <2>1, <2>2
<1>14. CASE Return(w)
  <2>1. InFlight' = InFlight
    BY <1>4, <1>5, <1>14, InFlightFacts DEF Return, Activity
  <2>2. Counted' = Counted /\ vain' = vain /\ ops' = ops
    BY <1>6, <1>14 DEF Return, ghosts
  <2> QED BY <1>2, <2>1, <2>2
<1> QED BY <1>7, <1>9, <1>11, <1>13, <1>14 DEF Step

(* Every operation is counted once, whatever it turned into                *)
(* (main.go:341-348, 410-415, 457-462, 494-498).                           *)
THEOREM OperationsCountedOnce == Spec => []CountedOnce
<1>1. Init => Seeding /\ CountedOnce
  BY DEF Init, Seeding, CountedOnce, Counted, Total, NoStats
<1>2. BInv /\ [Next]_vars => (Seeding /\ CountedOnce)'
  <2> SUFFICES ASSUME BInv, [Next]_vars PROVE Seeding' /\ CountedOnce'
    OBVIOUS
  <2>1. TypeOK /\ Counted \in Nat
    BY CountsOne DEF BInv, SInv
  <2>2. CASE SeedOrder
    <3>1. PICK n \in UID : orders' = Append(orders, n)
      BY <2>2 DEF SeedOrder
    <3>2. Len(orders') = Len(orders) + 1
      BY <2>1, <3>1 DEF TypeOK
    <3>3. Counted' = Counted + 1
      BY <2>1, <2>2, CountsOne, Counters DEF SeedOrder
    <3> QED BY <2>2, <3>2, <3>3 DEF BInv, Seeding, CountedOnce, SeedOrder, ghosts
  <2>3. CASE SeedWrite
    <3>1. Worker \ Resting = {} /\ Counted = SeedCount /\ ops = 0 /\ vain = 0
      BY <2>3 DEF SeedWrite, BInv, Seeding, Resting
    <3>2. main' = "run" /\ UNCHANGED <<stats, work, ops, vain>>
      BY <2>3 DEF SeedWrite
    <3>3. (Worker \ Resting)' = {} /\ Counted' = Counted
      BY <3>1, <3>2 DEF Resting, Counted, Total
    <3>4. Cardinality((Worker \ Resting)') = 0
      BY <3>3, FS_EmptySet
    <3> QED BY <3>1, <3>2, <3>3, <3>4, SeedAssumption DEF Seeding, CountedOnce, Counted
  <2>4. ASSUME NEW w \in Worker, Step(w) PROVE Seeding' /\ CountedOnce'
    BY <2>4, BalanceSteps
  <2>5. CASE Stop \/ Finish \/ Consume \/ LateWrite \/ UNCHANGED vars
    <3>1. UNCHANGED <<orders, work, stats, ops, vain>>
      BY <2>5 DEF Stop, Finish, Consume, LateWrite, vars, ghosts
    <3>2. main' = main \/ (main \in {"run", "stopping"} /\ main' \in {"stopping", "done"})
      BY <2>5 DEF Stop, Finish, Consume, LateWrite, vars
    <3>3. Counted' = Counted /\ Total' = Total /\ Resting' = Resting
      BY <3>1 DEF Counted, Total, Resting
    <3> QED BY <3>1, <3>2, <3>3 DEF BInv, Seeding, CountedOnce
  <2> QED BY <2>2, <2>3, <2>4, <2>5 DEF Next
<1>3. Spec => [](Seeding /\ CountedOnce)
  BY <1>1, <1>2, InductiveInvariant, PTL DEF Spec, BInv
<1> QED BY <1>3, PTL
=============================================================================
