-------------------------- MODULE OrderRepoProofs ---------------------------
(***************************************************************************)
(* Proofs about OrderRepo, for any orders, versions and items, any number  *)
(* of sessions and readers, and any size of the pool.                      *)
(***************************************************************************)
EXTENDS OrderRepo, FiniteSetTheorems, TLAPS

-----------------------------------------------------------------------------
(* The inductive invariant.  That what is committed is whole rests on how  *)
(* far each transaction is, on who holds the row of the order, and on the  *)
(* items a transaction has seen and removed being all there are.           *)

SessionRecord == [at : At, uid : Uid \union {NoUid}, version : MaybeVersion,
                  wrote : SUBSET Table, removed : SUBSET Item,
                  added : SUBSET Item, gone : BOOLEAN]

Picked == UNION {[S -> Rows] : S \in SUBSET Uid}

ReadRecord == [at : {"idle", "first", "second", "answered"}, all : BOOLEAN,
               uid : Uid \union {NoUid}, got : Picked, changed : SUBSET Uid]

Types ==
    /\ sess \in [Session -> SessionRecord]
    /\ reads \in [Reader -> ReadRecord]
    /\ overtaken \subseteq Session

DbIsWhole == db \in [Uid -> {Whole(v) : v \in MaybeVersion}]

(* What a transaction has done at each of its statements.                  *)
StageOf(x) ==
    /\ x.at = "idle" => x = Idle
    /\ x.at # "idle" => x.uid \in Uid
    /\ x.at = "delete" => x.version = NoVersion
    /\ x.at \notin {"idle", "begin", "delete"} => x.version \in Version
    /\ x.at \in {"idle", "begin", "delete", "orders"} => x.wrote = {}
    /\ x.at = "deliveries" => x.wrote = {"orders"}
    /\ x.at = "payments" => x.wrote = {"orders", "deliveries"}
    /\ x.at \in {"clear", "items", "commit"} => x.wrote = Table
    /\ x.at \in {"items", "commit"} => x.removed = db[x.uid].items
    /\ x.at = "commit" => x.added = ItemsOf(x.version)

Stages == \A s \in Session : StageOf(sess[s])

(* One transaction at a time has written the row of an order.              *)
Exclusive ==
    \A s, x \in Session :
        /\ s # x
        /\ "orders" \in sess[s].wrote
        /\ "orders" \in sess[x].wrote
        => sess[s].uid # sess[x].uid

(* Who has been overtaken has lost its client before it wrote anything.    *)
Overtaken ==
    \A s \in overtaken :
        /\ sess[s].gone
        /\ sess[s].version # NoVersion
        /\ "orders" \notin sess[s].wrote

(* What a reader holds is, unless the order was changed, what is stored.   *)
HeadOf(x, u) ==
    \E v \in Version :
        /\ x.got[u] = [Whole(v) EXCEPT !.items = {}]
        /\ db[u] = Whole(v) \/ u \in x.changed

AnswerOf(x, u) ==
    \E v \in Version, w \in MaybeVersion :
        /\ x.got[u] = [Whole(v) EXCEPT !.items = ItemsOf(w)]
        /\ v = w \/ u \in x.changed

ReadStageOf(x) ==
    \A u \in DOMAIN x.got : /\ x.at = "second" => HeadOf(x, u)
                            /\ x.at = "answered" => AnswerOf(x, u)

ReadStages == \A r \in Reader : ReadStageOf(reads[r])

RInv == Types /\ DbIsWhole /\ Stages /\ Exclusive /\ Overtaken /\ ReadStages

-----------------------------------------------------------------------------
(* The rows of an order.                                                   *)
LEMMA ItemsAreItems == \A v \in MaybeVersion : ItemsOf(v) \in SUBSET Item
BY DEF ItemsOf, Item, MaybeVersion

LEMMA WholeIsRows == \A v \in MaybeVersion : Whole(v) \in Rows
BY ItemsAreItems DEF Whole, Rows

LEMMA DbRows ==
    ASSUME DbIsWhole, NEW u \in Uid
    PROVE  /\ db[u] \in Rows
           /\ \E v \in MaybeVersion : db[u] = Whole(v)
<1>1. PICK v \in MaybeVersion : db[u] = Whole(v)
  BY DEF DbIsWhole
<1> QED BY <1>1, WholeIsRows

LEMMA NothingIsWhole == Nothing \in {Whole(v) : v \in MaybeVersion}
BY DEF Nothing, MaybeVersion

LEMMA IdleIsIdle == Idle \in SessionRecord /\ StageOf(Idle) /\ ~ Idle.gone /\ Idle.wrote = {}
BY DEF Idle, SessionRecord, At, MaybeVersion, StageOf

LEMMA UnreadIsRead == Unread \in ReadRecord /\ ReadStageOf(Unread)
<1>1. [u \in {} |-> Nothing] \in [{} -> Rows]
  OBVIOUS
<1>2. [u \in {} |-> Nothing] \in Picked
  BY <1>1 DEF Picked
<1> QED BY <1>2 DEF Unread, ReadRecord, ReadStageOf

(* What a reader holds is in order as long as nothing is committed.        *)
LEMMA HeldIsKept ==
    ASSUME NEW r \in Reader, ReadStageOf(reads[r]), reads'[r] = reads[r], db' = db
    PROVE  ReadStageOf(reads[r])'
<1> SUFFICES ASSUME NEW u \in DOMAIN reads[r].got
             PROVE  /\ reads[r].at = "second" => HeadOf(reads[r], u)'
                    /\ reads[r].at = "answered" => AnswerOf(reads[r], u)'
  BY DEF ReadStageOf
<1>1. ASSUME reads[r].at = "second" PROVE HeadOf(reads[r], u)'
  <2>1. HeadOf(reads[r], u)
    BY <1>1 DEF ReadStageOf
  <2> QED BY <2>1 DEF HeadOf
<1>2. ASSUME reads[r].at = "answered" PROVE AnswerOf(reads[r], u)'
  <2>1. AnswerOf(reads[r], u)
    BY <1>2 DEF ReadStageOf
  <2> QED BY <2>1 DEF AnswerOf
<1> QED BY <1>1, <1>2

-----------------------------------------------------------------------------
LEMMA RepoInit == Init => RInv
<1> SUFFICES ASSUME Init PROVE RInv
  OBVIOUS
<1>1. Types
  BY IdleIsIdle, UnreadIsRead DEF Init, Types
<1>2. DbIsWhole
  BY NothingIsWhole DEF Init, DbIsWhole
<1>3. Stages /\ Exclusive /\ Overtaken
  BY IdleIsIdle DEF Init, Stages, Exclusive, Overtaken
<1>4. ReadStages
  BY UnreadIsRead DEF Init, ReadStages
<1> QED BY <1>1, <1>2, <1>3, <1>4 DEF RInv

(* A step of session s that commits nothing preserves the invariant if the *)
(* session itself is in order afterwards.                                  *)
LEMMA SessionStep ==
    ASSUME RInv, NEW s \in Session, NEW x \in SessionRecord,
           sess' = [sess EXCEPT ![s] = x], UNCHANGED <<db, reads>>,
           overtaken' \subseteq overtaken,
           StageOf(x),
           "orders" \in x.wrote =>
               \A y \in Session \ {s} : "orders" \in sess[y].wrote => sess[y].uid # x.uid,
           s \in overtaken' => x.gone /\ x.version # NoVersion /\ "orders" \notin x.wrote
    PROVE  RInv'
<1> USE DEF RInv, Types
<1>1. sess'[s] = x /\ \A y \in Session \ {s} : sess'[y] = sess[y]
  OBVIOUS
<1>2. Types'
  OBVIOUS
<1>3. DbIsWhole' /\ ReadStages'
  BY HeldIsKept DEF DbIsWhole, ReadStages
<1>4. Stages'
  BY <1>1 DEF Stages, StageOf
<1>5. Exclusive'
  BY <1>1 DEF Exclusive
<1>6. Overtaken'
  BY <1>1 DEF Overtaken
<1> QED BY <1>2, <1>3, <1>4, <1>5, <1>6

(* The call starts, its transaction begins, or it loses its client.        *)
LEMMA CallSteps ==
    ASSUME RInv, NEW s \in Session,
           \/ \E u \in Uid : DeleteOrder(s, u)
           \/ \E u \in Uid, v \in Version : SaveOrder(s, u, v)
           \/ Begin(s) \/ Lose(s)
    PROVE  RInv'
<1> DEFINE old == sess[s]
<1>0. /\ old \in SessionRecord /\ StageOf(old)
      /\ s \in overtaken => Overtaken /\ old.gone /\ old.version # NoVersion
                            /\ "orders" \notin old.wrote
  BY DEF RInv, Types, Stages, Overtaken
<1>1. ASSUME NEW u \in Uid, NEW v \in MaybeVersion,
             old.at = "idle", UNCHANGED <<db, reads, overtaken>>,
             sess' = [sess EXCEPT ![s] = [Idle EXCEPT !.at = "begin", !.uid = u, !.version = v]]
      PROVE  RInv'
  <2> DEFINE x == [Idle EXCEPT !.at = "begin", !.uid = u, !.version = v]
  <2>1. x \in SessionRecord /\ StageOf(x) /\ "orders" \notin x.wrote
    BY DEF Idle, SessionRecord, At, StageOf
  <2>2. s \notin overtaken
    BY <1>0, <1>1, IdleIsIdle DEF StageOf
  <2> HIDE DEF x
  <2> QED BY <1>1, <2>1, <2>2, SessionStep DEF x
<1>2. CASE \/ \E u \in Uid : DeleteOrder(s, u)
           \/ \E u \in Uid, v \in Version : SaveOrder(s, u, v)
  BY <1>1, <1>2 DEF DeleteOrder, SaveOrder, Called, MaybeVersion
<1>3. CASE Begin(s)
  <2> DEFINE x == [old EXCEPT !.at = IF old.version = NoVersion THEN "delete" ELSE "orders"]
  <2>1. x \in SessionRecord /\ StageOf(x) /\ x.wrote = {} /\ x.gone = old.gone
        /\ x.version = old.version
    BY <1>0, <1>3 DEF Begin, SessionRecord, At, StageOf, MaybeVersion
  <2>2. sess' = [sess EXCEPT ![s] = x] /\ UNCHANGED <<db, reads, overtaken>>
    BY <1>3 DEF Begin, RInv, Types
  <2> HIDE DEF x
  <2> QED BY <1>0, <2>1, <2>2, SessionStep
<1>4. CASE Lose(s)
  <2> DEFINE x == [old EXCEPT !.gone = TRUE]
  <2>1. /\ x \in SessionRecord /\ StageOf(x) /\ x.gone
        /\ x.wrote = old.wrote /\ x.uid = old.uid /\ x.version = old.version
    BY <1>0, <1>4 DEF Lose, SessionRecord, StageOf
  <2>2. sess' = [sess EXCEPT ![s] = x] /\ UNCHANGED <<db, reads, overtaken>>
    BY <1>4 DEF Lose, RInv, Types
  <2>3. "orders" \in x.wrote =>
            \A y \in Session \ {s} : "orders" \in sess[y].wrote => sess[y].uid # x.uid
    BY <2>1 DEF RInv, Exclusive
  <2> HIDE DEF x
  <2> QED BY <1>0, <2>1, <2>2, <2>3, SessionStep
<1> QED BY <1>2, <1>3, <1>4

LEMMA RollbackStep ==
    ASSUME RInv, NEW s \in Session, Rollback(s)
    PROVE  RInv'
BY IdleIsIdle, SessionStep DEF Rollback, End

(* A statement of SaveOrder is answered.                                   *)
LEMMA StatementSteps ==
    ASSUME RInv, NEW s \in Session,
           (\E t \in Table : Upsert(s, t)) \/ ClearItems(s) \/ InsertItems(s)
    PROVE  RInv'
<1> DEFINE old == sess[s]
<1>0. /\ old \in SessionRecord /\ StageOf(old) /\ ~ old.gone
      /\ s \notin overtaken
  BY DEF RInv, Types, Stages, Overtaken, Upsert, ClearItems, InsertItems, Sends
<1>1. UNCHANGED <<db, reads, overtaken>>
  BY DEF Upsert, ClearItems, InsertItems
<1>2. old.uid \in Uid /\ old.version \in Version
  BY <1>0 DEF StageOf, Upsert, ClearItems, InsertItems, Sends, Table
<1>3. CASE \E t \in Table : Upsert(s, t)
  <2>1. PICK t \in Table : Upsert(s, t)
    BY <1>3
  <2> DEFINE x == [old EXCEPT !.wrote = @ \union {t}, !.at = After(t)]
  <2>2. sess' = [sess EXCEPT ![s] = x]
    BY <2>1 DEF Upsert, RInv, Types
  <2>3. /\ x \in SessionRecord /\ x.uid = old.uid
        /\ t = "orders" => x.wrote = {"orders"}
        /\ t # "orders" => "orders" \in old.wrote
    BY <1>0, <2>1 DEF SessionRecord, StageOf, Upsert, Sends, Table, After, At
  <2>4. StageOf(x)
    BY <1>0, <2>1 DEF SessionRecord, StageOf, Upsert, Sends, Table, After
  <2>5. \A y \in Session \ {s} : "orders" \in sess[y].wrote => sess[y].uid # x.uid
    BY <2>1, <2>3 DEF RInv, Exclusive, Upsert, Locked
  <2> HIDE DEF x
  <2> QED BY <1>0, <1>1, <2>2, <2>3, <2>4, <2>5, SessionStep
<1>4. CASE ClearItems(s)
  <2> DEFINE x == [old EXCEPT !.removed = db[old.uid].items, !.at = "items"]
  <2>1. sess' = [sess EXCEPT ![s] = x]
    BY <1>4 DEF ClearItems, After, RInv, Types
  <2>2. db[old.uid].items \in SUBSET Item
    BY <1>2, DbRows DEF RInv, Rows
  <2>3. x \in SessionRecord /\ StageOf(x) /\ x.wrote = old.wrote /\ x.uid = old.uid
    BY <1>0, <1>4, <2>2 DEF SessionRecord, StageOf, ClearItems, Sends, At
  <2>4. "orders" \in x.wrote =>
            \A y \in Session \ {s} : "orders" \in sess[y].wrote => sess[y].uid # x.uid
    BY <2>3 DEF RInv, Exclusive
  <2> HIDE DEF x
  <2> QED BY <1>0, <1>1, <2>1, <2>3, <2>4, SessionStep
<1>5. CASE InsertItems(s)
  <2> DEFINE x == [old EXCEPT !.added = ItemsOf(old.version), !.at = "commit"]
  <2>1. sess' = [sess EXCEPT ![s] = x]
    BY <1>5 DEF InsertItems, After, RInv, Types
  <2>2. ItemsOf(old.version) \in SUBSET Item
    BY <1>2, ItemsAreItems DEF MaybeVersion
  <2>3. x \in SessionRecord /\ StageOf(x) /\ x.wrote = old.wrote /\ x.uid = old.uid
    BY <1>0, <1>5, <2>2 DEF SessionRecord, StageOf, InsertItems, Sends, At
  <2>4. "orders" \in x.wrote =>
            \A y \in Session \ {s} : "orders" \in sess[y].wrote => sess[y].uid # x.uid
    BY <2>3 DEF RInv, Exclusive
  <2> HIDE DEF x
  <2> QED BY <1>0, <1>1, <2>1, <2>3, <2>4, SessionStep
<1> QED BY <1>3, <1>4, <1>5

-----------------------------------------------------------------------------
(* The rows of an order that nobody else has written become those of       *)
(* another version.                                                        *)
LEMMA ChangeStep ==
    ASSUME RInv, NEW s \in Session, NEW v \in MaybeVersion,
           sess[s].uid \in Uid,
           Change(sess[s].uid, Whole(v)), End(s),
           \A y \in Session \ {s} : "orders" \in sess[y].wrote => sess[y].uid # sess[s].uid,
           overtaken' \subseteq Session \ {s},
           \A y \in overtaken' : y \notin overtaken =>
               sess[y].gone /\ sess[y].version # NoVersion /\ sess[y].uid = sess[s].uid
    PROVE  RInv'
<1> DEFINE u == sess[s].uid
<1>1. /\ sess'[s] = Idle
      /\ \A y \in Session \ {s} : sess'[y] = sess[y]
      /\ sess' \in [Session -> SessionRecord]
  BY IdleIsIdle DEF End, RInv, Types
<1>2. DbIsWhole' /\ \A z \in Uid \ {u} : db'[z] = db[z]
  BY DEF Change, RInv, DbIsWhole
<1>3. \A r \in Reader :
          /\ reads'[r] \in ReadRecord
          /\ reads'[r].at = reads[r].at
          /\ reads'[r].got = reads[r].got
          /\ reads[r].changed \subseteq reads'[r].changed
          /\ u \in DOMAIN reads[r].got => u \in reads'[r].changed
  BY DEF Change, RInv, Types, ReadRecord
<1>4. Types'
  BY <1>1, <1>3 DEF Types, Change
<1>5. Stages'
  <2> SUFFICES ASSUME NEW y \in Session PROVE StageOf(sess[y])'
    BY DEF Stages
  <2>1. CASE y = s
    BY <1>1, <2>1, IdleIsIdle DEF StageOf, Idle
  <2>2. CASE y # s
    <3>1. StageOf(sess[y]) /\ sess'[y] = sess[y]
      BY <1>1, <2>2 DEF RInv, Stages
    <3>2. sess[y].at \in {"items", "commit"} => sess[y].uid # u /\ sess[y].uid \in Uid
      BY <2>2, <3>1 DEF StageOf, Table
    <3>3. sess[y].at \in {"items", "commit"} => db'[sess[y].uid] = db[sess[y].uid]
      BY <1>2, <3>2
    <3> QED BY <3>1, <3>3 DEF StageOf
  <2> QED BY <2>1, <2>2
<1>6. Exclusive'
  BY <1>1, IdleIsIdle DEF RInv, Exclusive
<1>7. Overtaken'
  BY <1>1 DEF RInv, Overtaken
<1>8. ReadStages'
  <2> SUFFICES ASSUME NEW r \in Reader, NEW z \in DOMAIN reads[r].got
               PROVE  /\ reads[r].at = "second" => HeadOf(reads[r], z)'
                      /\ reads[r].at = "answered" => AnswerOf(reads[r], z)'
    BY <1>3 DEF ReadStages, ReadStageOf
  <2>1. z \in Uid
    BY DEF RInv, Types, ReadRecord, Picked
  <2>2. ASSUME reads[r].at = "second" PROVE HeadOf(reads[r], z)'
    <3>1. HeadOf(reads[r], z)
      BY <2>2 DEF RInv, ReadStages, ReadStageOf
    <3> QED BY <1>2, <1>3, <2>1, <3>1 DEF HeadOf
  <2>3. ASSUME reads[r].at = "answered" PROVE AnswerOf(reads[r], z)'
    <3>1. AnswerOf(reads[r], z)
      BY <2>3 DEF RInv, ReadStages, ReadStageOf
    <3> QED BY <1>3, <3>1 DEF AnswerOf
  <2> QED BY <2>2, <2>3
<1> QED BY <1>2, <1>4, <1>5, <1>6, <1>7, <1>8 DEF RInv

(* What a transaction that has come to its COMMIT leaves is whole.         *)
LEMMA MergedIsWhole ==
    ASSUME RInv, NEW s \in Session, sess[s].at = "commit"
    PROVE  /\ Merged(s) = Whole(sess[s].version)
           /\ sess[s].uid \in Uid /\ sess[s].version \in Version
           /\ "orders" \in sess[s].wrote
<1>1. /\ StageOf(sess[s]) /\ sess[s].uid \in Uid
  BY DEF RInv, Stages, StageOf
<1>2. db[sess[s].uid] \in Rows
  BY <1>1, DbRows DEF RInv
<1>3. /\ sess[s].wrote = Table
      /\ sess[s].removed = db[sess[s].uid].items
      /\ sess[s].added = ItemsOf(sess[s].version)
      /\ sess[s].version \in Version
  BY <1>1 DEF StageOf
<1> QED BY <1>1, <1>3 DEF Merged, Whole, Table

LEMMA CommitStep ==
    ASSUME RInv, NEW s \in Session, Commit(s)
    PROVE  RInv'
<1>1. /\ Merged(s) = Whole(sess[s].version) /\ "orders" \in sess[s].wrote
      /\ sess[s].uid \in Uid /\ sess[s].version \in MaybeVersion
  BY MergedIsWhole DEF Commit, MaybeVersion
<1>2. \A y \in Session \ {s} : "orders" \in sess[y].wrote => sess[y].uid # sess[s].uid
  BY <1>1 DEF RInv, Exclusive
<1>3. overtaken' \subseteq Session \ {s}
  BY DEF Commit, RInv, Types
<1>4. \A y \in overtaken' : y \notin overtaken =>
          sess[y].gone /\ sess[y].version # NoVersion /\ sess[y].uid = sess[s].uid
  BY DEF Commit
<1>5. Change(sess[s].uid, Whole(sess[s].version)) /\ End(s)
  BY <1>1 DEF Commit
<1> QED BY <1>1, <1>2, <1>3, <1>4, <1>5, ChangeStep

LEMMA DeleteStep ==
    ASSUME RInv, NEW s \in Session, Delete(s)
    PROVE  RInv'
<1>1. sess[s].uid \in Uid /\ sess[s].version = NoVersion
  BY DEF RInv, Stages, StageOf, Delete
<1>2. s \notin overtaken
  BY <1>1 DEF RInv, Overtaken
<1>3. CASE UNCHANGED <<db, reads>>
  BY <1>2, <1>3, IdleIsIdle, SessionStep DEF Delete, End
<1>4. CASE (\A t \in Table : ~ Locked(s, t)) /\ Change(sess[s].uid, Nothing)
  <2>1. \A y \in Session \ {s} : "orders" \in sess[y].wrote => sess[y].uid # sess[s].uid
    BY <1>4 DEF Locked, Table
  <2>2. overtaken' = overtaken /\ overtaken' \subseteq Session \ {s}
    BY <1>2 DEF Delete, RInv, Types
  <2> QED BY <1>1, <1>4, <2>1, <2>2, ChangeStep DEF Delete, Nothing, MaybeVersion
<1> QED BY <1>3, <1>4 DEF Delete

-----------------------------------------------------------------------------
(* A step of reader r preserves the invariant if what it holds is in order.*)
LEMMA ReaderStep ==
    ASSUME RInv, NEW r \in Reader, NEW x \in ReadRecord, ReadStageOf(x),
           reads' = [reads EXCEPT ![r] = x], UNCHANGED <<db, sess, overtaken>>
    PROVE  RInv'
<1> USE DEF RInv
<1>1. reads'[r] = x /\ \A y \in Reader \ {r} : reads'[y] = reads[y]
  BY DEF Types
<1>2. Types'
  BY DEF Types
<1>3. DbIsWhole' /\ Stages' /\ Exclusive' /\ Overtaken'
  BY DEF DbIsWhole, Stages, StageOf, Exclusive, Overtaken
<1>4. ReadStages'
  <2> SUFFICES ASSUME NEW y \in Reader PROVE ReadStageOf(reads[y])'
    BY DEF ReadStages
  <2>1. CASE y = r
    <3> SUFFICES ASSUME NEW u \in DOMAIN x.got
                 PROVE  /\ x.at = "second" => HeadOf(reads[r], u)'
                        /\ x.at = "answered" => AnswerOf(reads[r], u)'
      BY <1>1, <2>1 DEF ReadStageOf
    <3>1. ASSUME x.at = "second" PROVE HeadOf(reads[r], u)'
      <4>1. HeadOf(x, u)
        BY <3>1 DEF ReadStageOf
      <4> QED BY <1>1, <4>1 DEF HeadOf
    <3>2. ASSUME x.at = "answered" PROVE AnswerOf(reads[r], u)'
      <4>1. AnswerOf(x, u)
        BY <3>2 DEF ReadStageOf
      <4> QED BY <1>1, <4>1 DEF AnswerOf
    <3> QED BY <3>1, <3>2
  <2>2. CASE y # r
    BY <1>1, <2>2, HeldIsKept DEF ReadStages
  <2> QED BY <2>1, <2>2
<1> QED BY <1>2, <1>3, <1>4

LEMMA ReadStarts ==
    ASSUME RInv, NEW r \in Reader, GetAllOrders(r) \/ \E u \in Uid : GetOrder(r, u)
    PROVE  RInv'
<1>0. reads[r] \in ReadRecord
  BY DEF RInv, Types
<1>1. ASSUME NEW x \in ReadRecord, x.at = "first",
             reads' = [reads EXCEPT ![r] = x], UNCHANGED <<db, sess, overtaken>>
      PROVE  RInv'
  BY <1>1, ReaderStep DEF ReadStageOf
<1>2. CASE GetAllOrders(r)
  <2> DEFINE x == [reads[r] EXCEPT !.at = "first", !.all = TRUE]
  <2>1. x \in ReadRecord /\ x.at = "first"
    BY <1>0 DEF ReadRecord
  <2>2. reads' = [reads EXCEPT ![r] = x]
    BY <1>2 DEF GetAllOrders, RInv, Types
  <2> HIDE DEF x
  <2> QED BY <1>1, <1>2, <2>1, <2>2 DEF GetAllOrders
<1>3. CASE \E u \in Uid : GetOrder(r, u)
  <2>0. PICK u \in Uid : GetOrder(r, u)
    BY <1>3
  <2> DEFINE x == [reads[r] EXCEPT !.at = "first", !.uid = u]
  <2>1. x \in ReadRecord /\ x.at = "first"
    BY <1>0 DEF ReadRecord
  <2>2. reads' = [reads EXCEPT ![r] = x]
    BY <2>0 DEF GetOrder, RInv, Types
  <2> HIDE DEF x
  <2> QED BY <1>1, <2>0, <2>1, <2>2 DEF GetOrder
<1> QED BY <1>2, <1>3

LEMMA FirstQueryStep ==
    ASSUME RInv, NEW r \in Reader, FirstQuery(r)
    PROVE  RInv'
<1>0. reads[r] \in ReadRecord
  BY DEF RInv, Types
<1>1. PICK S \in Found(r) :
          reads' = [reads EXCEPT ![r] =
              IF S = {} THEN Unread
              ELSE [@ EXCEPT !.at = "second",
                             !.got = [u \in S |-> [db[u] EXCEPT !.items = {}]]]]
  BY DEF FirstQuery
<1>2. S \subseteq Stored
  BY DEF Found
<1>3. CASE S = {}
  BY <1>1, <1>3, UnreadIsRead, ReaderStep DEF FirstQuery
<1>4. CASE S # {}
  <2> DEFINE got == [u \in S |-> [db[u] EXCEPT !.items = {}]]
             x == [reads[r] EXCEPT !.at = "second", !.got = got]
  <2>1. \A u \in S : \E v \in Version : db[u] = Whole(v)
    <3> SUFFICES ASSUME NEW u \in S PROVE \E v \in Version : db[u] = Whole(v)
      OBVIOUS
    <3>1. u \in Uid /\ db[u].orders # NoVersion
      BY <1>2 DEF Stored
    <3>2. PICK v \in MaybeVersion : db[u] = Whole(v)
      BY <3>1, DbRows DEF RInv
    <3>3. v # NoVersion
      BY <3>1, <3>2 DEF Whole
    <3> QED BY <3>2, <3>3 DEF MaybeVersion
  <2>2. got \in [S -> Rows] /\ S \in SUBSET Uid
    BY <1>2, DbRows DEF RInv, Rows, Stored
  <2>3. got \in Picked
    BY <2>2 DEF Picked
  <2>4. x \in ReadRecord /\ x.at = "second" /\ x.got = got
    BY <1>0, <2>3 DEF ReadRecord
  <2>5. ReadStageOf(x)
    BY <2>1, <2>4 DEF ReadStageOf, HeadOf
  <2>6. reads' = [reads EXCEPT ![r] = x]
    BY <1>1, <1>4 DEF RInv, Types
  <2> HIDE DEF x
  <2> QED BY <2>4, <2>5, <2>6, ReaderStep DEF FirstQuery
<1> QED BY <1>3, <1>4

LEMMA SecondQueryStep ==
    ASSUME RInv, NEW r \in Reader, SecondQuery(r)
    PROVE  RInv'
<1> DEFINE old == reads[r]
           S == DOMAIN old.got
           got == [u \in S |-> [old.got[u] EXCEPT !.items = db[u].items]]
           x == [old EXCEPT !.at = "answered", !.got = got]
<1>0. old \in ReadRecord /\ old.got \in [S -> Rows] /\ S \in SUBSET Uid
  BY DEF RInv, Types, ReadRecord, Picked
<1>1. \A u \in S : db[u] \in Rows /\ \E w \in MaybeVersion : db[u] = Whole(w)
  BY <1>0, DbRows DEF RInv
<1>2. got \in [S -> Rows]
  BY <1>0, <1>1 DEF Rows
<1>3. got \in Picked
  BY <1>0, <1>2 DEF Picked
<1>4. /\ x \in ReadRecord /\ x.at = "answered" /\ x.got = got
      /\ x.changed = old.changed
  BY <1>0, <1>3 DEF ReadRecord
<1>5. ReadStageOf(x)
  <2> SUFFICES ASSUME NEW u \in S PROVE AnswerOf(x, u)
    BY <1>4 DEF ReadStageOf
  <2>1. HeadOf(old, u)
    BY DEF RInv, ReadStages, ReadStageOf, SecondQuery
  <2>2. PICK v \in Version : /\ old.got[u] = [Whole(v) EXCEPT !.items = {}]
                             /\ db[u] = Whole(v) \/ u \in old.changed
    BY <2>1 DEF HeadOf
  <2>3. PICK w \in MaybeVersion : db[u] = Whole(w)
    BY <1>1
  <2>4. got[u] = [Whole(v) EXCEPT !.items = ItemsOf(w)]
    BY <2>2, <2>3 DEF Whole
  <2>5. v = w \/ u \in old.changed
    BY <2>2, <2>3 DEF Whole
  <2> QED BY <1>4, <2>4, <2>5 DEF AnswerOf
<1>6. reads' = [reads EXCEPT ![r] = x]
  BY DEF SecondQuery, RInv, Types
<1> HIDE DEF x
<1> QED BY <1>4, <1>5, <1>6, ReaderStep DEF SecondQuery

LEMMA ReturnStep ==
    ASSUME RInv, NEW r \in Reader, Return(r)
    PROVE  RInv'
BY UnreadIsRead, ReaderStep DEF Return

-----------------------------------------------------------------------------
LEMMA RepoStep == RInv /\ [Next]_vars => RInv'
<1> SUFFICES ASSUME RInv, [Next]_vars PROVE RInv'
  OBVIOUS
<1>1. CASE UNCHANGED vars
  <2>1. ReadStages'
    BY <1>1, HeldIsKept DEF vars, RInv, ReadStages
  <2> QED BY <1>1, <2>1
          DEF vars, RInv, Types, DbIsWhole, Stages, StageOf, Exclusive, Overtaken
<1>2. ASSUME NEW s \in Session, Write(s) PROVE RInv'
  BY <1>2, CallSteps, RollbackStep, StatementSteps, CommitStep, DeleteStep
  DEF Write, Proceed
<1>3. ASSUME NEW r \in Reader, Read(r) PROVE RInv'
  BY <1>3, ReadStarts, FirstQueryStep, SecondQueryStep, ReturnStep DEF Read, Query
<1> QED BY <1>1, <1>2, <1>3 DEF Next

THEOREM RepoInvariant == Spec => []RInv
BY RepoInit, RepoStep, PTL DEF Spec

(* The variables keep their types.                                         *)
THEOREM RepoTypeCorrect == Spec => []TypeOK
<1>1. RInv => TypeOK
  <2> SUFFICES ASSUME RInv PROVE TypeOK
    OBVIOUS
  <2>1. db \in [Uid -> Rows]
    BY WholeIsRows DEF RInv, DbIsWhole
  <2>2. \A r \in Reader : /\ reads[r] \in ReadRecord
                          /\ DOMAIN reads[r].got \subseteq Uid
                          /\ \A u \in DOMAIN reads[r].got : reads[r].got[u] \in Rows
    BY DEF RInv, Types, ReadRecord, Picked
  <2> QED BY <2>1, <2>2 DEF RInv, Types, TypeOK, SessionRecord, ReadRecord
<1> QED BY <1>1, RepoInvariant, PTL

(* What is committed under a uid is one whole order or nothing, whatever   *)
(* calls overlap, fail halfway or lose their connection.                   *)
THEOREM CommittedOrdersAreWhole == Spec => []CommittedIsWhole
<1>1. RInv => CommittedIsWhole
  BY DbRows DEF RInv, CommittedIsWhole
<1> QED BY <1>1, RepoInvariant, PTL

(* A read gives one version of an order, unless the order was changed      *)
(* between its two queries; then the items may be those of another.        *)
THEOREM AnswersAreWhole == Spec => []ReadsAreWhole
<1>1. RInv => ReadsAreWhole
  BY DEF RInv, ReadsAreWhole, ReadStages, ReadStageOf, AnswerOf
<1> QED BY <1>1, RepoInvariant, PTL

(* A save that has failed and goes through later replaces nothing newer.   *)
THEOREM LateSavesAreFirst == Spec => []NoLateOverwrite
<1>1. RInv => NoLateOverwrite
  BY DEF RInv, Types, NoLateOverwrite, Overtaken, Stages, StageOf, Table
<1> QED BY <1>1, RepoInvariant, PTL

-----------------------------------------------------------------------------
(* Nobody waits in a circle.  A statement waits while another transaction  *)
(* has written the row.                                                    *)
Waits(s) ==
    \/ \E t \in Table : Sends(s, t) /\ Locked(s, t)
    \/ /\ sess[s].at = "delete" /\ db[sess[s].uid].orders # NoVersion
       /\ \E t \in Table : Locked(s, t)

HasRow(x, u) == sess[x].uid = u /\ "orders" \in sess[x].wrote

(* Whoever waits for a row waits for one that waits for no row itself,     *)
(* because every transaction takes the row of its order first; and when    *)
(* the pool is exhausted, somebody who has a connection can go on, unless  *)
(* all wait for transactions whose clients are lost (postgres.go:129-243). *)
NoCircularWait ==
    /\ \A s \in Session : Waits(s) =>
           \E x \in Session : HasRow(x, sess[s].uid) /\ ~ Waits(x)
    /\ ~ Free => \/ Holding # {}
                 \/ \E x \in Writing : ~ Waits(x)
                 \/ \E x \in Session : sess[x].gone /\ \E s \in Writing : HasRow(x, sess[s].uid)

LEMMA WroteOrdersFirst ==
    ASSUME RInv, NEW x \in Session, NEW t \in Table, t \in sess[x].wrote
    PROVE  "orders" \in sess[x].wrote
BY DEF RInv, Stages, StageOf, Types, SessionRecord, At, Table

(* Who has the row of an order waits for no other row of it.               *)
LEMMA HoldersDoNotWait ==
    ASSUME RInv, NEW s \in Session, "orders" \in sess[s].wrote
    PROVE  ~ Waits(s)
<1> SUFFICES ASSUME NEW t \in Table, Locked(s, t) PROVE FALSE
  BY DEF Waits
<1>1. PICK x \in Session \ {s} : sess[x].uid = sess[s].uid /\ t \in sess[x].wrote
  BY DEF Locked
<1>2. "orders" \in sess[x].wrote
  BY <1>1, WroteOrdersFirst
<1> QED BY <1>1, <1>2 DEF RInv, Exclusive

(* So no set of calls can be left waiting for each other, for any number   *)
(* of sessions and any size of the pool: what is left for fairness is that *)
(* those who can go on do.                                                 *)
THEOREM NobodyWaitsInACircle == Spec => []NoCircularWait
<1>1. RInv => NoCircularWait
  <2> SUFFICES ASSUME RInv PROVE NoCircularWait
    OBVIOUS
  <2>1. ASSUME NEW s \in Session, Waits(s)
        PROVE  \E x \in Session : HasRow(x, sess[s].uid) /\ ~ Waits(x)
    <3>1. PICK t \in Table : Locked(s, t)
      BY <2>1 DEF Waits
    <3>2. PICK x \in Session \ {s} : sess[x].uid = sess[s].uid /\ t \in sess[x].wrote
      BY <3>1 DEF Locked
    <3>3. "orders" \in sess[x].wrote
      BY <3>2, WroteOrdersFirst
    <3> QED BY <3>2, <3>3, HoldersDoNotWait DEF HasRow
  <2>2. ASSUME ~ Free, Holding = {}, \A x \in Writing : Waits(x)
        PROVE  \E x \in Session : sess[x].gone /\ \E s \in Writing : HasRow(x, sess[s].uid)
    <3>1. Cardinality({}) = 0
      BY FS_EmptySet
    <3>2. Writing # {}
      BY <2>2, <3>1, PoolAssumption DEF Free
    <3>3. PICK s \in Session : s \in Writing
      BY <3>2 DEF Writing
    <3>4. PICK x \in Session : HasRow(x, sess[s].uid) /\ ~ Waits(x)
      BY <2>1, <2>2, <3>3
    <3>5. sess[x].at \notin {"idle", "begin"}
      BY <3>4 DEF HasRow, RInv, Stages, StageOf
    <3>6. sess[x].gone
      BY <2>2, <3>4, <3>5 DEF Writing
    <3> QED BY <3>3, <3>4, <3>6
  <2> QED BY <2>1, <2>2 DEF NoCircularWait
<1> QED BY <1>1, RepoInvariant, PTL

-----------------------------------------------------------------------------
(* The repository implements OrderStore.                                   *)
PendingOf(x) == IF x.at = "idle" THEN NoCall ELSE [uid |-> x.uid, content |-> Whole(x.version)]

Calls == [s \in Session |-> PendingOf(sess[s])]

LEMMA RequestsAreNotNoCall ==
    ASSUME RInv, NEW s \in Session
    PROVE  PendingOf(sess[s]) = NoCall <=> sess[s].at = "idle"
BY UidAssumption DEF PendingOf, NoCall, RInv, Stages, StageOf

(* Only session s changes, and db as given.                                *)
LEMMA CallsChange ==
    ASSUME RInv, NEW s \in Session, NEW x, sess' = [sess EXCEPT ![s] = x]
    PROVE  Calls' = [Calls EXCEPT ![s] = PendingOf(x)]
BY DEF Calls, RInv, Types, PendingOf

LEMMA StoreInit == Init => Store!Init
<1> SUFFICES ASSUME Init PROVE Store!Init
  OBVIOUS
<1>1. db \in [Uid -> {Whole(v) : v \in MaybeVersion}]
  BY NothingIsWhole DEF Init
<1>2. Calls = [c \in Session |-> NoCall]
  BY DEF Init, Calls, PendingOf, Idle
<1> QED BY <1>1, <1>2 DEF Store!Init, Calls, PendingOf

LEMMA StoreStep == RInv /\ [Next]_vars => [Store!Next]_<<db, Calls>>
<1> SUFFICES ASSUME RInv, [Next]_vars PROVE [Store!Next]_<<db, Calls>>
  OBVIOUS
<1>1. ASSUME UNCHANGED <<db, sess>> PROVE UNCHANGED <<db, Calls>>
  BY <1>1 DEF Calls
<1>2. ASSUME NEW s \in Session, Write(s) PROVE [Store!Next]_<<db, Calls>>
  <2>1. ASSUME NEW u \in Uid, NEW v \in MaybeVersion, sess[s].at = "idle", UNCHANGED db,
               sess' = [sess EXCEPT ![s] = [Idle EXCEPT !.at = "begin", !.uid = u, !.version = v]]
        PROVE  Store!Next
    <3> DEFINE request == [uid |-> u, content |-> Whole(v)]
    <3>1. PendingOf([Idle EXCEPT !.at = "begin", !.uid = u, !.version = v]) = request
      BY DEF PendingOf, Idle
    <3>2. Calls' = [Calls EXCEPT ![s] = request]
      BY <2>1, <3>1, CallsChange
    <3>3. request \in Store!Request /\ Calls[s] = NoCall
      BY <2>1 DEF Store!Request, Calls, PendingOf
    <3> QED BY <2>1, <3>2, <3>3 DEF Store!Next, Store!Start, Calls, PendingOf
  <2>2. ASSUME NEW x, sess' = [sess EXCEPT ![s] = x], UNCHANGED db,
               PendingOf(x) = PendingOf(sess[s])
        PROVE  UNCHANGED <<db, Calls>>
    <3>1. Calls' = [Calls EXCEPT ![s] = Calls[s]]
      BY <2>2, CallsChange DEF Calls
    <3> QED BY <2>2, <3>1 DEF Calls
  <2>3. ASSUME sess[s].at # "idle", End(s), UNCHANGED db PROVE Store!Next
    <3>1. Calls' = [Calls EXCEPT ![s] = NoCall]
      <4>1. Calls' = [Calls EXCEPT ![s] = PendingOf(Idle)]
        BY <2>3, CallsChange DEF End
      <4> QED BY <4>1 DEF PendingOf, Idle
    <3>2. Calls[s] # NoCall
      BY <2>3, RequestsAreNotNoCall DEF Calls
    <3> QED BY <2>3, <3>1, <3>2 DEF Store!Next, Store!NoEffect, Calls, PendingOf
  <2>4. ASSUME sess[s].at # "idle", End(s), Change(sess[s].uid, Whole(sess[s].version))
        PROVE  Store!Next
    <3>1. Calls' = [Calls EXCEPT ![s] = NoCall]
      <4>1. Calls' = [Calls EXCEPT ![s] = PendingOf(Idle)]
        BY <2>4, CallsChange DEF End
      <4> QED BY <4>1 DEF PendingOf, Idle
    <3>2. Calls[s] # NoCall
      BY <2>4, RequestsAreNotNoCall DEF Calls
    <3>3. Calls[s].uid = sess[s].uid /\ Calls[s].content = Whole(sess[s].version)
      BY <2>4 DEF Calls, PendingOf
    <3>4. db' = [db EXCEPT ![Calls[s].uid] = Calls[s].content]
      BY <2>4, <3>3 DEF Change
    <3> QED BY <3>1, <3>2, <3>4 DEF Store!Next, Store!TakeEffect, Calls, PendingOf
  <2>5. CASE \E u \in Uid : DeleteOrder(s, u)
    BY <2>1, <2>5 DEF DeleteOrder, Called, MaybeVersion
  <2>6. CASE \E u \in Uid, v \in Version : SaveOrder(s, u, v)
    BY <2>1, <2>6 DEF SaveOrder, Called, MaybeVersion
  <2>7. CASE Begin(s) \/ (\E t \in Table : Upsert(s, t)) \/ ClearItems(s) \/ InsertItems(s)
             \/ Lose(s)
    <3>0. sess \in [Session -> SessionRecord]
      BY DEF RInv, Types
    <3>1. PICK x \in SessionRecord :
              /\ sess' = [sess EXCEPT ![s] = x]
              /\ x.at # "idle" /\ x.uid = sess[s].uid /\ x.version = sess[s].version
      <4>1. sess' \in [Session -> SessionRecord]
        BY <2>7, CallSteps, StatementSteps DEF RInv, Types
      <4>2. sess' = [sess EXCEPT ![s] = sess'[s]]
        BY <2>7, <3>0, <4>1 DEF Begin, Upsert, ClearItems, InsertItems, Lose
      <4>3. /\ sess'[s].at # "idle"
            /\ sess'[s].uid = sess[s].uid /\ sess'[s].version = sess[s].version
        BY <2>7, <3>0 DEF Begin, Upsert, ClearItems, InsertItems, Lose, SessionRecord, Table,
                          After
      <4> QED BY <4>1, <4>2, <4>3
    <3>2. sess[s].at # "idle" /\ UNCHANGED db
      BY <2>7 DEF Begin, Upsert, ClearItems, InsertItems, Lose, Sends, Table
    <3> QED BY <2>2, <3>1, <3>2 DEF PendingOf
  <2>8. CASE Commit(s)
    BY <2>4, <2>8, MergedIsWhole DEF Commit
  <2>9. CASE Delete(s)
    <3>1. sess[s].version = NoVersion
      BY <2>9 DEF RInv, Stages, StageOf, Delete
    <3> QED BY <2>3, <2>4, <2>9, <3>1 DEF Delete, Nothing
  <2>10. CASE Rollback(s)
    BY <2>3, <2>10 DEF Rollback
  <2> QED BY <1>2, <2>5, <2>6, <2>7, <2>8, <2>9, <2>10 DEF Write, Proceed
<1>3. ASSUME NEW r \in Reader, Read(r) PROVE UNCHANGED <<db, Calls>>
  BY <1>1, <1>3 DEF Read, Query, GetOrder, GetAllOrders, FirstQuery, SecondQuery, Return
<1> QED BY <1>1, <1>2, <1>3 DEF Next, vars

(* Every call takes effect at one moment on the whole order, or not at all.*)
THEOREM ImplementsOrderStore == Spec => RefinesOrderStore
<1>1. RInv /\ [Next]_vars => [Store!Next]_<<db, Calls>>
  BY StoreStep
<1> QED BY <1>1, StoreInit, RepoInvariant, PTL
        DEF Spec, RefinesOrderStore, Store!Spec, Calls, PendingOf
=============================================================================
