---------------------------- MODULE OrderService ----------------------------
(***************************************************************************)
(* The order service: the Kafka consumer, the HTTP handlers of             *)
(* internal/handler and the repository of internal/repo around one         *)
(* database and one cache.                                                 *)
(*                                                                         *)
(* Nothing spans the database and the cache: the consumer stores an order  *)
(* and then caches it, a DELETE removes the row and then the cached copy,  *)
(* a GET that misses reads the order in two queries and then caches what   *)
(* it read.  Each of these is a step of its own, so that consumer, readers *)
(* and deleters interleave the way their goroutines do.                    *)
(*                                                                         *)
(* The consumer is module Consumer, each of its steps joined with what it  *)
(* does to database and cache; the cache is what BoundedMap promises of    *)
(* it, and the database what OrderStore promises: a save or a DELETE whose *)
(* client is gone may take effect at any time later, even after a restart. *)
(* A save that the server has not decided on locks the row for writers.    *)
(* The content of an order is the message that brought it.                 *)
(***************************************************************************)
EXTENDS Consumer

CONSTANTS UID,        \* order uids
          UidOf,      \* message -> uid of the order in it
          Reader,     \* GET /order/{uid} requests served at a time
          Deleter,    \* DELETE /order/{uid} requests served at a time
          MaxItems    \* CACHE_MAX_ITEMS; 0 or less means unlimited

ASSUME UidAssumption ==
    /\ UidOf \in [Message -> UID]
    /\ IsFiniteSet(UID) /\ NoMessage \notin UID
ASSUME MaxItemsAssumption == MaxItems \in Int
ASSUME ReaderAssumption == "consumer" \notin Reader

VARIABLES
    db,          \* uid -> the message whose order is stored, or NoMessage
    cache,       \* the orders in the cache, keyed by uid
    gets,        \* what each GET has read so far
    deletes,     \* the uid whose row each DELETE has removed, if any
    lateDeletes, \* uid -> DELETEs that failed and may yet be carried out
    warm,        \* what the first query of a warm start has found
    overtaken,   \* ghost: requests, or the consumer, that hold a copy of an
                 \* order to be cached, of which the row changed meanwhile
    outdated     \* ghost: uids whose copy was out of date when it was cached,
                 \* because its row had changed since it was read, or was
                 \* passed over by a call that failed and took effect later

service == <<db, cache, gets, deletes, lateDeletes, warm, overtaken, outdated>>

svars == <<vars, service>>

(* An order as a GET assembles it: orders, deliveries and payments from    *)
(* one query, items from the next.                                         *)
Copy == [uid : UID, head : Message, items : Message \union {NoMessage}]

Map == INSTANCE BoundedMap WITH content <- cache, Order <- Copy

Whole(u, m) == [uid |-> u, head |-> m, items |-> m]

Idle == [at |-> "idle", uid |-> NoMessage, head |-> NoMessage, items |-> NoMessage]

EmptyCache == [u \in {} |-> 0]

Rows == {u \in UID : db[u] # NoMessage}

UpToDate(c) == c = Whole(c.uid, db[c.uid])

-----------------------------------------------------------------------------
SInit ==
    /\ Init
    /\ db = [u \in UID |-> NoMessage]
    /\ cache = EmptyCache
    /\ gets = [r \in Reader |-> Idle]
    /\ deletes = [d \in Deleter |-> NoMessage]
    /\ lateDeletes = [u \in UID |-> 0]
    /\ warm = EmptyCache
    /\ overtaken = {} /\ outdated = {}

(* cache.Set, by a request or the consumer.                                *)
Put(c, by) ==
    /\ Map!Put(c)
    /\ overtaken' = overtaken \ {by}
    /\ outdated' = ((outdated \ {c.uid}) \intersect DOMAIN cache')
                       \union {u \in {c.uid} : by \in overtaken /\ ~ UpToDate(c)}

(* cache.Delete, and an entry that expires.                                *)
Drop(u) ==
    /\ cache' = [v \in DOMAIN cache \ {u} |-> cache[v]]
    /\ outdated' = outdated \ {u}

(* Who holds a copy of an order, read or stored, to put it into the cache. *)
Holding(u) ==
    {r \in Reader : gets[r].at \in {"items", "fill"} /\ gets[r].uid = u}
        \union {c \in {"consumer"} : pc = "cache" /\ UidOf[msg] = u}

(* A transaction of SaveOrder or DeleteOrder: all tables change together.  *)
SetRow(u, m) ==
    /\ db' = [db EXCEPT ![u] = m]
    /\ overtaken' = overtaken \union Holding(u)

Store(m) == SetRow(UidOf[m], m)

(* A row changes and nobody will see to its cached copy.                   *)
Unnoticed(u) ==
    outdated' = outdated \union {v \in {u} \intersect (DOMAIN cache \union DOMAIN warm) :
                                    db'[v] # db[v]}

Unlocked(u) == \A m \in late : UidOf[m] # u

-----------------------------------------------------------------------------
(* The consumer's steps, with what they do to database and cache.          *)
SaveAndStore ==
    /\ SaveOrder
    /\ Unlocked(UidOf[msg])
    /\ Store(msg)
    /\ UNCHANGED <<cache, gets, deletes, lateDeletes, warm, outdated>>

(* Only one save of an order gets as far as its COMMIT.                    *)
SaveFails_CachedAnyway ==
    /\ SaveError
    /\ Put(Whole(UidOf[msg], msg), "consumer")
    /\ UNCHANGED <<db, gets, deletes, lateDeletes, warm>>
SaveFails ==
    /\ SaveError
    /\ UNCHANGED late \/ Unlocked(UidOf[msg])
    /\ UNCHANGED service

CacheSaved ==
    /\ CacheSet
    /\ Put(Whole(UidOf[msg], msg), "consumer")
    /\ UNCHANGED <<db, gets, deletes, lateDeletes, warm>>

(* The process ends: cache and requests are gone, what they have asked the *)
(* database for is not.                                                    *)
ProcessEnds ==
    /\ Exit \/ Crash
    /\ cache' = EmptyCache
    /\ gets' = [r \in Reader |-> Idle]
    /\ deletes' = [d \in Deleter |-> NoMessage]
    /\ overtaken' = {} /\ outdated' = {}
    /\ UNCHANGED <<db, lateDeletes, warm>>

(* main loads the newest orders, as many as the cache may hold; which are  *)
(* the newest is left open.  GetAllOrders reads the orders ...             *)
WarmRead ==
    /\ pc = "down"
    /\ \E S \in SUBSET Rows :
          /\ Map!Fits(S)
          /\ S = {} \/ \A u \in Rows \ S : ~ Map!Fits(S \union {u})
          /\ warm' = [u \in S |-> db[u]]
    /\ outdated' = {}
    /\ UNCHANGED <<vars, db, cache, gets, deletes, lateDeletes, overtaken>>

(* ... and then their items, at READ COMMITTED those there are by then.    *)
(* What it found goes into the cache, nothing if a query failed, and the   *)
(* consumer starts.                                                        *)
WarmStart ==
    /\ Restart
    /\ cache' = [u \in DOMAIN warm |-> [uid |-> u, head |-> warm[u], items |-> db[u]]]
    /\ warm' = EmptyCache
    /\ UNCHANGED <<db, gets, deletes, lateDeletes, overtaken, outdated>>

(* Steps of the consumer that touch neither database nor cache.            *)
ConsumerOnly ==
    /\ \/ \E p \in Partition : Fetch(p) \/ Flush(p)
       \/ FetchError \/ PauseOver \/ Stopped \/ ParseError
       \/ Retry \/ Interrupt \/ DeadLetter \/ CommitMessages
       \/ Rejoin \/ Cancel \/ Close \/ CloseWriter
    /\ UNCHANGED service

-----------------------------------------------------------------------------
(* GET /order/{uid}.  A hit is answered from the cache and changes nothing *)
(* here; a miss goes to the database.                                      *)
GetMiss(r, u) ==
    /\ pc # "down"
    /\ gets[r].at = "idle"
    /\ u \notin DOMAIN cache
    /\ gets' = [gets EXCEPT ![r].at = "row", ![r].uid = u]
    /\ UNCHANGED <<vars, db, cache, deletes, lateDeletes, warm, overtaken, outdated>>

(* GetOrder's first query finds the order ...                              *)
GetRow(r) ==
    /\ pc # "down"
    /\ gets[r].at = "row"
    /\ db[gets[r].uid] # NoMessage
    /\ gets' = [gets EXCEPT ![r].at = "items", ![r].head = db[gets[r].uid]]
    /\ UNCHANGED <<vars, db, cache, deletes, lateDeletes, warm, overtaken, outdated>>

(* ... and its second, outside any transaction, the items there are by     *)
(* then; none, if the order was deleted meanwhile.                         *)
GetItems(r) ==
    /\ pc # "down"
    /\ gets[r].at = "items"
    /\ gets' = [gets EXCEPT ![r].at = "fill", ![r].items = db[gets[r].uid]]
    /\ UNCHANGED <<vars, db, cache, deletes, lateDeletes, warm, overtaken, outdated>>

(* The order is not found, or a query fails or times out.                  *)
GetFails(r) ==
    /\ pc # "down"
    /\ gets[r].at \in {"row", "items"}
    /\ gets' = [gets EXCEPT ![r] = Idle]
    /\ overtaken' = overtaken \ {r}
    /\ UNCHANGED <<vars, db, cache, deletes, lateDeletes, warm, outdated>>

(* "Save to cache", and the answer.                                        *)
GetFill(r) ==
    /\ pc # "down"
    /\ gets[r].at = "fill"
    /\ Put([uid |-> gets[r].uid, head |-> gets[r].head, items |-> gets[r].items], r)
    /\ gets' = [gets EXCEPT ![r] = Idle]
    /\ UNCHANGED <<vars, db, deletes, lateDeletes, warm>>

(* DELETE /order/{uid}: DeleteOrder removes the row and all that hangs on  *)
(* it.  If there is none, the answer is 404 and nothing changes.           *)
DeleteRow(d, u) ==
    /\ pc # "down"
    /\ deletes[d] = NoMessage
    /\ db[u] # NoMessage
    /\ Unlocked(u)
    /\ SetRow(u, NoMessage)
    /\ deletes' = [deletes EXCEPT ![d] = u]
    /\ UNCHANGED <<vars, cache, gets, lateDeletes, warm, outdated>>

(* DeleteOrder fails with its statement on the way to the server.          *)
DeleteFails(d, u) ==
    /\ pc # "down"
    /\ deletes[d] = NoMessage
    /\ lateDeletes[u] < MaxLate
    /\ lateDeletes' = [lateDeletes EXCEPT ![u] = @ + 1]
    /\ UNCHANGED <<vars, db, cache, gets, deletes, warm, overtaken, outdated>>

(* "Remove from cache too", and the answer.                                *)
DeleteCached_KeepsEntry(d) ==
    /\ pc # "down"
    /\ deletes[d] # NoMessage
    /\ deletes' = [deletes EXCEPT ![d] = NoMessage]
    /\ UNCHANGED <<vars, db, cache, gets, lateDeletes, warm, overtaken, outdated>>
DeleteCached(d) ==
    /\ pc # "down"
    /\ deletes[d] # NoMessage
    /\ Drop(deletes[d])
    /\ deletes' = [deletes EXCEPT ![d] = NoMessage]
    /\ UNCHANGED <<vars, db, gets, lateDeletes, warm, overtaken>>

(* An entry expires.                                                       *)
Expire(u) ==
    /\ u \in DOMAIN cache
    /\ Drop(u)
    /\ UNCHANGED <<vars, db, gets, deletes, lateDeletes, warm, overtaken>>

-----------------------------------------------------------------------------
(* What failed is carried out, or not, when the server gets to it: the     *)
(* COMMIT of a save ...                                                    *)
LateStore(m) ==
    /\ LateCommit(m)
    /\ Store(m)
    /\ Unnoticed(UidOf[m])
    /\ UNCHANGED <<cache, gets, deletes, lateDeletes, warm>>

LateUndone(m) == LateRollback(m) /\ UNCHANGED service

(* ... and a DELETE, which finds the row, or does not.                     *)
LateDelete(u) ==
    /\ lateDeletes[u] > 0
    /\ lateDeletes' = [lateDeletes EXCEPT ![u] = @ - 1]
    /\ \/ /\ db[u] # NoMessage
          /\ Unlocked(u)
          /\ SetRow(u, NoMessage)
          /\ Unnoticed(u)
       \/ UNCHANGED <<db, overtaken, outdated>>
    /\ UNCHANGED <<vars, cache, gets, deletes, warm>>

-----------------------------------------------------------------------------
ConsumerStep ==
    \/ SaveAndStore \/ SaveFails \/ CacheSaved
    \/ ProcessEnds \/ WarmRead \/ WarmStart
    \/ ConsumerOnly

ReaderStep(r) ==
    \/ \E u \in UID : GetMiss(r, u)
    \/ GetRow(r) \/ GetItems(r) \/ GetFails(r) \/ GetFill(r)

DeleterStep(d) ==
    \/ \E u \in UID : DeleteRow(d, u) \/ DeleteFails(d, u)
    \/ DeleteCached(d)

ServerStep ==
    \/ \E m \in late : LateStore(m) \/ LateUndone(m)
    \/ \E u \in UID : LateDelete(u)

SNext ==
    \/ ConsumerStep
    \/ ServerStep
    \/ \E r \in Reader : ReaderStep(r)
    \/ \E d \in Deleter : DeleterStep(d)
    \/ \E u \in UID : Expire(u)

SSpec == SInit /\ [][SNext]_svars

-----------------------------------------------------------------------------
(* The type of the service's variables.                                    *)
ServiceTypeOK ==
    /\ db \in [UID -> Message \union {NoMessage}]
    /\ Map!Kept
    /\ gets \in [Reader -> [at : {"idle", "row", "items", "fill"},
                               uid : UID \union {NoMessage},
                               head : Message \union {NoMessage},
                               items : Message \union {NoMessage}]]
    /\ deletes \in [Deleter -> UID \union {NoMessage}]
    /\ lateDeletes \in [UID -> Nat]
    /\ warm \in [DOMAIN warm -> Message] /\ Map!Fits(DOMAIN warm)
    /\ overtaken \subseteq Reader \union {"consumer"}
    /\ outdated \subseteq DOMAIN cache \union DOMAIN warm

(* What the cache holds was in the database under that uid once: it is     *)
(* never ahead of a transaction, however a save failed (consumer.go:194).  *)
CachedWasStored ==
    \A u \in DOMAIN cache :
        /\ cache[u].head \in saved /\ UidOf[cache[u].head] = u
        /\ cache[u].items \in saved \union {NoMessage}
        /\ cache[u].items # NoMessage => UidOf[cache[u].items] = u

(* A writer has changed the row and not yet the cache.                     *)
Pending(u) ==
    \/ pc = "cache" /\ UidOf[msg] = u
    \/ \E d \in Deleter : deletes[d] = u

(* What is cached agrees with the database - head, items and presence -    *)
(* but for the moment between the two steps of a writer.  There are two    *)
(* ways out only: the row changed between the reading or storing of a copy *)
(* and its caching, or a save or DELETE that was reported as failed was    *)
(* carried out later.  A copy that was cached without either is never      *)
(* wrong, and one that was ends with the next Set or Delete of its uid     *)
(* (handler.go:116-135, handler.go:163-175, consumer.go:194-202,           *)
(* main.go:70-75).                                                         *)
CacheCoherent ==
    \A u \in DOMAIN cache \ outdated : Pending(u) \/ UpToDate(cache[u])

(* The database never falls behind: of the messages about an order that    *)
(* were fetched, none is newer than what is stored, unless it was given up *)
(* or is in progress; deliveries that repeat do no harm.  The exception is *)
(* a rebalance: the commit of the message in progress then passes older    *)
(* ones that are being fetched again.                                      *)
NewestStored ==
    rejoins = 0 =>
        \A u \in UID : db[u] # NoMessage =>
            LET p == db[u][1]
            IN  \A o \in db[u][2] + 1 .. position[p] :
                    UidOf[<<p, o>>] = u =>
                        <<p, o>> \in dead \union unwritten \union interrupted \union {msg}

(* handler_test.go:390-410: after a DELETE the order is not in the cache.  *)
DeletedIsGone ==
    \A u \in DOMAIN cache :
        db[u] = NoMessage => Pending(u) \/ \E r \in Reader : gets[r].uid = u
=============================================================================
