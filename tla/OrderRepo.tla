----------------------------- MODULE OrderRepo ------------------------------
(***************************************************************************)
(* The repository of internal/repo, one statement at a time: the           *)
(* transaction of SaveOrder over the tables orders, deliveries, payments   *)
(* and items, DeleteOrder, the two queries of GetOrder and the two of      *)
(* GetAllOrders, and the connection pool they share.                       *)
(*                                                                         *)
(* PostgreSQL is external and runs at its default level, READ COMMITTED:   *)
(* every statement sees what was committed when it began, and the own      *)
(* writes of its transaction; an upsert or delete waits while another      *)
(* transaction has written the row.  A connection may be lost at any       *)
(* moment, by a failure, a crash or a context that is cancelled: the call  *)
(* returns an error, and the server finds out later; a COMMIT or a DELETE  *)
(* it has already been sent may still succeed.                             *)
(*                                                                         *)
(* The content of an order is a version; every row carries the version it  *)
(* was written from, and version v has Count[v] items.                     *)
(***************************************************************************)
EXTENDS Integers, FiniteSets

CONSTANTS Uid,        \* order uids
          Version,    \* contents of orders
          NoVersion,  \* no row
          Count,      \* version -> its number of items
          Session,    \* sessions of the server that write
          Reader,     \* calls of GetOrder and GetAllOrders at a time
          MaxConns,   \* connections of the pool, DB_MAX_CONNS
          Limit,      \* limit of GetAllOrders; 0 or less means none
          NoUid

ASSUME VersionAssumption ==
    /\ NoVersion \notin Version
    /\ Count \in [Version -> Nat \ {0}]
ASSUME UidAssumption == NoUid \notin Uid
ASSUME PoolAssumption == MaxConns \in Nat \ {0} /\ Limit \in Int
ASSUME FiniteAssumption ==
    IsFiniteSet(Uid) /\ IsFiniteSet(Session) /\ IsFiniteSet(Reader)

VARIABLES
    db,         \* uid -> the rows committed under it
    sess,       \* session -> its transaction
    reads,      \* reader -> what it has read so far
    overtaken   \* ghost: sessions of calls that have failed and whose order
                \* has been stored by another call since

vars == <<db, sess, reads, overtaken>>

-----------------------------------------------------------------------------
(* The tables with one row for an order.                                   *)
Table == {"orders", "deliveries", "payments"}

MaybeVersion == Version \union {NoVersion}

ItemsOf(v) == IF v = NoVersion THEN {} ELSE {v} \X (1 .. Count[v])

Item == UNION {ItemsOf(v) : v \in Version}

Rows == [orders : MaybeVersion, deliveries : MaybeVersion, payments : MaybeVersion,
         items : SUBSET Item]

Whole(v) == [orders |-> v, deliveries |-> v, payments |-> v, items |-> ItemsOf(v)]

Nothing == Whole(NoVersion)

(* The statements of SaveOrder in the order they are sent.                 *)
After_NoClear(at) == CASE at = "orders"     -> "deliveries"
                       [] at = "deliveries" -> "payments"
                       [] at = "payments"   -> "items"
                       [] at = "clear"      -> "items"
                       [] at = "items"      -> "commit"
After(at) == CASE at = "orders"     -> "deliveries"
               [] at = "deliveries" -> "payments"
               [] at = "payments"   -> "clear"
               [] at = "clear"      -> "items"
               [] at = "items"      -> "commit"

At == {"idle", "begin", "orders", "deliveries", "payments", "clear", "items",
       "commit", "delete"}

Idle == [at |-> "idle", uid |-> NoUid, version |-> NoVersion, wrote |-> {},
         removed |-> {}, added |-> {}, gone |-> FALSE]

Unread == [at |-> "idle", all |-> FALSE, uid |-> NoUid, got |-> [u \in {} |-> Nothing],
           changed |-> {}]

-----------------------------------------------------------------------------
(* The connections in use: a write has one from Begin to its end, the      *)
(* transaction of GetAllOrders one for both queries, GetOrder one for each *)
(* query only.                                                             *)
Holding == {r \in Reader : reads[r].all /\ reads[r].at = "second"}

Writing == {s \in Session : sess[s].at \notin {"idle", "begin"} /\ ~ sess[s].gone}

Free == Cardinality(Writing) + Cardinality(Holding) < MaxConns

(* Another transaction has written the row.                                *)
Locked(s, t) == \E x \in Session \ {s} : sess[x].uid = sess[s].uid /\ t \in sess[x].wrote

(* The client sends a statement once the one before it is answered.        *)
Sends_AllAtOnce(s, at) == sess[s].at = at
Sends(s, at) == sess[s].at = at /\ ~ sess[s].gone

End(s) == sess' = [sess EXCEPT ![s] = Idle]

(* The rows of u are committed: they become r.                             *)
Change(u, r) ==
    /\ db' = [db EXCEPT ![u] = r]
    /\ reads' = [x \in Reader |->
                    IF u \in DOMAIN reads[x].got
                    THEN [reads[x] EXCEPT !.changed = @ \union {u}]
                    ELSE reads[x]]

-----------------------------------------------------------------------------
Init ==
    /\ db = [u \in Uid |-> Nothing]
    /\ sess = [s \in Session |-> Idle]
    /\ reads = [r \in Reader |-> Unread]
    /\ overtaken = {}

(* SaveOrder is called with version v of order u; DeleteOrder is to leave  *)
(* no version.                                                             *)
Called(s, u, v) ==
    /\ sess[s].at = "idle"
    /\ sess' = [sess EXCEPT ![s] = [Idle EXCEPT !.at = "begin", !.uid = u, !.version = v]]
    /\ UNCHANGED <<db, reads, overtaken>>

SaveOrder(s, u, v) == v \in Version /\ Called(s, u, v)
DeleteOrder(s, u) == Called(s, u, NoVersion)

(* The pool hands out a connection.                                        *)
Begin(s) ==
    /\ sess[s].at = "begin"
    /\ Free
    /\ sess' = [sess EXCEPT ![s].at =
                    IF sess[s].version = NoVersion THEN "delete" ELSE "orders"]
    /\ UNCHANGED <<db, reads, overtaken>>

(* INSERT ... ON CONFLICT (order_uid) DO UPDATE.                           *)
Upsert(s, t) ==
    /\ Sends(s, t)
    /\ ~ Locked(s, t)
    /\ sess' = [sess EXCEPT ![s].wrote = @ \union {t}, ![s].at = After(t)]
    /\ UNCHANGED <<db, reads, overtaken>>

(* DELETE FROM items WHERE order_uid = $1.                                 *)
ClearItems_OutsideTx(s) ==
    /\ Sends(s, "clear")
    /\ Change(sess[s].uid, [db[sess[s].uid] EXCEPT !.items = {}])
    /\ sess' = [sess EXCEPT ![s].at = After("clear")]
    /\ UNCHANGED overtaken
ClearItems(s) ==
    /\ Sends(s, "clear")
    /\ sess' = [sess EXCEPT ![s].removed = db[sess[s].uid].items, ![s].at = After("clear")]
    /\ UNCHANGED <<db, reads, overtaken>>

(* The batch of INSERT INTO items; none is seen before the commit.         *)
InsertItems(s) ==
    /\ Sends(s, "items")
    /\ sess' = [sess EXCEPT ![s].added = ItemsOf(sess[s].version), ![s].at = After("items")]
    /\ UNCHANGED <<db, reads, overtaken>>

(* The server carries out the COMMIT; whether its answer arrives makes no  *)
(* difference to anything here.                                            *)
Merged(s) ==
    LET x == sess[s]
        old == db[x.uid]
        Row(t) == IF t \in x.wrote THEN x.version ELSE old[t]
    IN  [orders |-> Row("orders"), deliveries |-> Row("deliveries"),
         payments |-> Row("payments"), items |-> (old.items \ x.removed) \union x.added]

Commit(s) ==
    /\ sess[s].at = "commit"
    /\ Change(sess[s].uid, Merged(s))
    /\ overtaken' = (overtaken \ {s}) \union
          {x \in Session \ {s} : /\ sess[x].gone /\ sess[x].version # NoVersion
                                 /\ sess[x].uid = sess[s].uid}
    /\ End(s)

(* DELETE FROM orders WHERE order_uid = $1, which takes the rows of the    *)
(* other tables with it (ON DELETE CASCADE); ErrOrderNotFound if there is  *)
(* no row.                                                                 *)
Delete(s) ==
    /\ sess[s].at = "delete"
    /\ IF db[sess[s].uid].orders = NoVersion
       THEN UNCHANGED <<db, reads>>
       ELSE /\ \A t \in Table : ~ Locked(s, t)
            /\ Change(sess[s].uid, Nothing)
    /\ End(s)
    /\ UNCHANGED overtaken

(* A statement fails, or no connection is to be had: the deferred Rollback *)
(* undoes what the transaction wrote.  Or the server notices that a client *)
(* is gone, and does the same.                                             *)
Rollback_Forgotten(s) ==
    /\ sess[s].at # "idle"
    /\ IF sess[s].gone THEN End(s) ELSE sess' = [sess EXCEPT ![s].at = "leaked"]
    /\ overtaken' = overtaken \ {s}
    /\ UNCHANGED <<db, reads>>
Rollback(s) ==
    /\ sess[s].at # "idle"
    /\ End(s)
    /\ overtaken' = overtaken \ {s}
    /\ UNCHANGED <<db, reads>>

(* The connection is lost and the call returns an error; the caller may    *)
(* call again at once.                                                     *)
Lose(s) ==
    /\ sess[s].at \notin {"idle", "begin"}
    /\ ~ sess[s].gone
    /\ sess' = [sess EXCEPT ![s].gone = TRUE]
    /\ UNCHANGED <<db, reads, overtaken>>

-----------------------------------------------------------------------------
Stored == {u \in Uid : db[u].orders # NoVersion}

GetOrder(r, u) ==
    /\ reads[r].at = "idle"
    /\ reads' = [reads EXCEPT ![r].at = "first", ![r].uid = u]
    /\ UNCHANGED <<db, sess, overtaken>>

GetAllOrders(r) ==
    /\ reads[r].at = "idle"
    /\ reads' = [reads EXCEPT ![r].at = "first", ![r].all = TRUE]
    /\ UNCHANGED <<db, sess, overtaken>>

(* The uids the first query may find: one, or as many as the limit allows; *)
(* which are the newest is left open.                                      *)
Found(r) ==
    IF reads[r].all
    THEN {S \in SUBSET Stored : \/ Limit <= 0 /\ S = Stored
                                \/ /\ Limit > 0 /\ Cardinality(S) <= Limit
                                   /\ S # Stored => Cardinality(S) = Limit}
    ELSE {Stored \intersect {reads[r].uid}}

(* orders, deliveries and payments in one query; nothing found ends the    *)
(* call.                                                                   *)
FirstQuery(r) ==
    /\ reads[r].at = "first"
    /\ Free
    /\ \E S \in Found(r) :
          reads' = [reads EXCEPT ![r] =
              IF S = {} THEN Unread
              ELSE [@ EXCEPT !.at = "second",
                             !.got = [u \in S |-> [db[u] EXCEPT !.items = {}]]]]
    /\ UNCHANGED <<db, sess, overtaken>>

(* The items of what was found, in a second query.                         *)
SecondQuery_DeliveriesToo(r) ==
    /\ reads[r].at = "second"
    /\ reads[r].all \/ Free
    /\ reads' = [reads EXCEPT ![r].at = "answered",
                              ![r].got = [u \in DOMAIN @ |->
                                             [db[u] EXCEPT !.orders = reads[r].got[u].orders]]]
    /\ UNCHANGED <<db, sess, overtaken>>
SecondQuery(r) ==
    /\ reads[r].at = "second"
    /\ reads[r].all \/ Free
    /\ reads' = [reads EXCEPT ![r].at = "answered",
                              ![r].got = [u \in DOMAIN @ |->
                                             [@[u] EXCEPT !.items = db[u].items]]]
    /\ UNCHANGED <<db, sess, overtaken>>

(* The call returns what it has read, or an error at any moment.           *)
Return(r) ==
    /\ reads[r].at # "idle"
    /\ reads' = [reads EXCEPT ![r] = Unread]
    /\ UNCHANGED <<db, sess, overtaken>>

-----------------------------------------------------------------------------
(* A transaction goes on.                                                  *)
Proceed(s) ==
    \/ Begin(s)
    \/ \E t \in Table : Upsert(s, t)
    \/ ClearItems(s) \/ InsertItems(s) \/ Commit(s)
    \/ Delete(s)

Write(s) ==
    \/ \E u \in Uid : DeleteOrder(s, u) \/ \E v \in Version : SaveOrder(s, u, v)
    \/ Proceed(s)
    \/ Rollback(s) \/ Lose(s)

Query(r) == FirstQuery(r) \/ SecondQuery(r)

Read(r) ==
    \/ \E u \in Uid : GetOrder(r, u)
    \/ GetAllOrders(r) \/ Query(r) \/ Return(r)

Next == (\E s \in Session : Write(s)) \/ (\E r \in Reader : Read(r))

Spec == Init /\ [][Next]_vars

(* Waiting for a connection or a row is first come, first served, so that  *)
(* who waits is served when that is possible again and again; statements   *)
(* are answered, and a server notices that a client is gone.               *)
Fairness ==
    /\ \A s \in Session : SF_vars(Proceed(s)) /\ WF_vars(sess[s].gone /\ Rollback(s))
    /\ \A r \in Reader : SF_vars(Query(r)) /\ WF_vars(reads[r].at = "answered" /\ Return(r))

FairSpec == Spec /\ Fairness

-----------------------------------------------------------------------------
(* Every variable has values of its kind.                                  *)
TypeOK ==
    /\ db \in [Uid -> Rows]
    /\ sess \in [Session -> [at : At, uid : Uid \union {NoUid}, version : MaybeVersion,
                             wrote : SUBSET Table, removed : SUBSET Item,
                             added : SUBSET Item, gone : BOOLEAN]]
    /\ \A r \in Reader :
          /\ reads[r].at \in {"idle", "first", "second", "answered"}
          /\ reads[r].all \in BOOLEAN
          /\ reads[r].uid \in Uid \union {NoUid}
          /\ DOMAIN reads[r].got \subseteq Uid
          /\ \A u \in DOMAIN reads[r].got : reads[r].got[u] \in Rows
          /\ reads[r].changed \subseteq Uid
    /\ DOMAIN reads = Reader
    /\ overtaken \subseteq Session

(* What is committed under a uid is one whole order or nothing: the four   *)
(* tables never hold parts of two versions, whatever calls overlap, fail   *)
(* halfway or lose their connection.                                       *)
CommittedIsWhole == \A u \in Uid : \E v \in MaybeVersion : db[u] = Whole(v)

(* An order that was read has the order, delivery and payment of one       *)
(* version and the items of one version, and these are the same unless the *)
(* order was changed between the two queries of the call.                  *)
ReadsAreWhole ==
    \A r \in Reader : reads[r].at = "answered" =>
        \A u \in DOMAIN reads[r].got : \E v \in Version, w \in MaybeVersion :
            /\ reads[r].got[u] = [Whole(v) EXCEPT !.items = ItemsOf(w)]
            /\ v = w \/ u \in reads[r].changed

(* A save that reported an error and yet goes through later never replaces *)
(* what another save has stored since: once a call for the same order has  *)
(* committed, the earlier one can no longer commit.                        *)
NoLateOverwrite == \A s \in overtaken : sess[s].at # "commit"

(* Every call ends: saves and deletes wait for a row or a connection, and  *)
(* reads for a connection, but nobody who has one waits for another.       *)
CallsReturn ==
    /\ \A s \in Session : sess[s].at # "idle" ~> sess[s].at = "idle"
    /\ \A r \in Reader : reads[r].at # "idle" ~> reads[r].at = "idle"

NoCall == [uid |-> NoUid, content |-> Nothing]

Store == INSTANCE OrderStore
    WITH Content <- {Whole(v) : v \in MaybeVersion},
         Call <- Session,
         store <- db,
         pending <- [s \in Session |-> IF sess[s].at = "idle" THEN NoCall
                                       ELSE [uid |-> sess[s].uid,
                                             content |-> Whole(sess[s].version)]]

(* Saves and deletes are the calls of OrderStore: each changes a whole     *)
(* order at one moment, or nothing.                                        *)
RefinesOrderStore == Store!Spec
=============================================================================
