----------------------------- MODULE OrderCache -----------------------------
(***************************************************************************)
(* The in-memory order cache of internal/cache/cache.go: a map guarded by  *)
(* one mutex, a doubly linked list in recency order (front = most recent), *)
(* a sliding TTL and a background goroutine that removes expired entries.  *)
(* Every method runs under the mutex, so each one is one action.           *)
(*                                                                         *)
(* Time.  The code stores accessedAt and compares only time.Since(it) with *)
(* the TTL, so an entry carries the time it has been idle, counted no      *)
(* further than one past the TTL: from there on it is expired whatever the *)
(* clock says.  One Tick is one unit of time.                              *)
(*                                                                         *)
(* A definition named X_Y is X with a plausible mistake Y; nothing uses    *)
(* it.  It stands before X so that X can be exchanged for it, to show that *)
(* a property would notice.                                                *)
(***************************************************************************)
EXTENDS Integers, Sequences, FiniteSets, Functions

CONSTANTS UID,          \* order uids
          Order,        \* orders: records with a uid, the rest of the data opaque
          MaxItems,     \* CacheConfig.MaxItems; 0 or less means unlimited
          TTL,          \* CacheConfig.TTL in ticks; 0 or less means no expiry
          Batches,      \* the slices LoadFromSlice may be called with
          CounterSize   \* number of values of a statistics counter (2^64)

ASSUME ConfigAssumption == MaxItems \in Int /\ TTL \in Int
ASSUME OrderAssumption == IsFiniteSet(UID) /\ \A o \in Order : o.uid \in UID
ASSUME BatchesAssumption == Batches \subseteq Seq(Order)
ASSUME CounterAssumption == CounterSize \in Nat \ {0}

VARIABLES items,     \* uid -> [order, idle]: the map
          lruList,   \* uids, most recently used first
          stats,     \* hits, misses, evictions, expirations
          gauge,     \* the metric cache_current_size
          loop,      \* the cleanup goroutine
          cold       \* ghost: uids bulk-loaded and not used since

vars == <<items, lruList, stats, gauge, loop, cold>>

-----------------------------------------------------------------------------
IdleCap == IF TTL > 0 THEN TTL + 1 ELSE 1

cacheEntry == [order : Order, idle : 0 .. IdleCap]

Counter == 0 .. CounterSize - 1

Stats == [hits : Counter, misses : Counter, evictions : Counter, expirations : Counter]

Plus(counter, n) == (counter + n) % CounterSize

Cached == DOMAIN items

Size == Cardinality(Cached)

(* time.Since(entry.accessedAt) > TTL, for a cache that has a TTL.         *)
Expired(u) == TTL > 0 /\ items[u].idle > TTL

Exists(u) == u \in Cached /\ ~Expired(u)

ExpiredUIDs == {u \in Cached : Expired(u)}

Full_OneTooMany == MaxItems > 0 /\ Size > MaxItems
Full == MaxItems > 0 /\ Size >= MaxItems

-----------------------------------------------------------------------------
(* The linked list.  Ascending(K) holds the one increasing enumeration of  *)
(* a finite set of positions; Without(s, D) holds the one list that is     *)
(* left of s when the elements of D are unlinked.                          *)
Ascending(K) ==
    {f \in [1 .. Cardinality(K) -> K] :
        /\ Range(f) = K
        /\ \A i, j \in DOMAIN f : i < j => f[i] < f[j]}

Without(s, D) ==
    {[i \in DOMAIN f |-> s[f[i]]] : f \in Ascending({k \in DOMAIN s : s[k] \notin D})}

(* The uid at the back of the list, if there is one and the map knows it.  *)
Oldest_TakesFront == {u \in Cached : lruList # <<>> /\ u = Head(lruList)}
Oldest == {u \in Cached : lruList # <<>> /\ u = lruList[Len(lruList)]}

-----------------------------------------------------------------------------
Init ==
    /\ items = [u \in {} |-> 0]
    /\ lruList = <<>>
    /\ stats = [hits |-> 0, misses |-> 0, evictions |-> 0, expirations |-> 0]
    /\ gauge = 0
    /\ loop = IF TTL > 0 THEN "running" ELSE "none"
    /\ cold = {}

(* Entry u takes the order o and becomes the most recent one; the uids in  *)
(* gone leave the cache in the same critical section.                      *)
Front(u, o, gone) ==
    /\ items' = [v \in (Cached \ gone) \union {u} |->
                    IF v = u THEN [order |-> o, idle |-> 0] ELSE items[v]]
    /\ \E rest \in Without(lruList, gone \union {u}) : lruList' = <<u>> \o rest
    /\ cold' = cold \ (gone \union {u})

(* removeEntry, for every uid in gone.                                     *)
removeEntry_KeepsElement(gone) ==
    /\ items' = [u \in Cached \ gone |-> items[u]]
    /\ lruList' = lruList
    /\ cold' = cold \ gone
removeEntry(gone) ==
    /\ items' = [u \in Cached \ gone |-> items[u]]
    /\ lruList' \in Without(lruList, gone)
    /\ cold' = cold \ gone

SetExisting_EvictsFirst(o) ==
    /\ o.uid \in Cached
    /\ Front(o.uid, o, (IF Full THEN Oldest ELSE {}) \ {o.uid})
    /\ UNCHANGED <<stats, gauge, loop>>
SetExisting(o) ==
    /\ o.uid \in Cached
    /\ Front(o.uid, o, {})
    /\ UNCHANGED <<stats, gauge, loop>>

SetNew(o) ==
    LET victims == IF Full THEN Oldest ELSE {}
    IN  /\ o.uid \notin Cached
        /\ Front(o.uid, o, victims)
        /\ stats' = [stats EXCEPT !.evictions = Plus(@, Cardinality(victims))]
        /\ gauge' = Cardinality(DOMAIN items')
        /\ UNCHANGED loop

Set(o) == SetExisting(o) \/ SetNew(o)

GetMiss(u) ==
    /\ u \notin Cached
    /\ stats' = [stats EXCEPT !.misses = Plus(@, 1)]
    /\ UNCHANGED <<items, lruList, gauge, loop, cold>>

GetExpired_Uncounted(u) ==
    /\ u \in Cached
    /\ Expired(u)
    /\ removeEntry({u})
    /\ stats' = [stats EXCEPT !.misses = Plus(@, 1)]
    /\ UNCHANGED <<gauge, loop>>
GetExpired(u) ==
    /\ u \in Cached
    /\ Expired(u)
    /\ removeEntry({u})
    /\ stats' = [stats EXCEPT !.expirations = Plus(@, 1), !.misses = Plus(@, 1)]
    /\ UNCHANGED <<gauge, loop>>

GetHit_NoMove(u) ==
    /\ Exists(u)
    /\ items' = [items EXCEPT ![u].idle = 0]
    /\ cold' = cold \ {u}
    /\ stats' = [stats EXCEPT !.hits = Plus(@, 1)]
    /\ UNCHANGED <<lruList, gauge, loop>>
GetHit(u) ==
    /\ Exists(u)
    /\ Front(u, items[u].order, {})
    /\ stats' = [stats EXCEPT !.hits = Plus(@, 1)]
    /\ UNCHANGED <<gauge, loop>>

Get(u) == GetMiss(u) \/ GetExpired(u) \/ GetHit(u)

Delete(u) ==
    /\ u \in Cached
    /\ removeEntry({u})
    /\ UNCHANGED <<stats, gauge, loop>>

(* The orders are trimmed to the free room first and duplicates skipped    *)
(* afterwards, so fewer may enter than would fit.                          *)
Trimmed(orders) ==
    LET room == MaxItems - Size
    IN  IF MaxItems > 0 /\ Len(orders) > room THEN SubSeq(orders, 1, room) ELSE orders

FirstOccurrences(orders) ==
    {k \in DOMAIN orders :
        /\ orders[k].uid \notin Cached
        /\ \A j \in 1 .. k - 1 : orders[j].uid # orders[k].uid}

(* The order that enters under u: the first one of that uid.               *)
FirstFor_LoopVariable(orders, u) == orders[Len(orders)]
FirstFor(orders, u) == orders[CHOOSE k \in FirstOccurrences(orders) : orders[k].uid = u]

LoadFromSlice(orders) ==
    LET taken == Trimmed(orders)
        fresh == FirstOccurrences(taken)
        loaded == {taken[k].uid : k \in fresh}
    IN  /\ ~Full
        /\ items' = [u \in Cached \union loaded |->
                        IF u \in loaded THEN [order |-> FirstFor(taken, u), idle |-> 0]
                        ELSE items[u]]
        /\ \E f \in Ascending(fresh) : lruList' = lruList \o [i \in DOMAIN f |-> taken[f[i]].uid]
        /\ cold' = cold \union loaded
        /\ UNCHANGED <<stats, gauge, loop>>

(* The cleanup goroutine takes a tick.  A select with both channels ready  *)
(* picks either, so a tick may still be taken after Stop.                  *)
cleanupExpired_Nothing ==
    /\ loop \in {"running", "cancelled"}
    /\ UNCHANGED vars
cleanupExpired ==
    /\ loop \in {"running", "cancelled"}
    /\ removeEntry(ExpiredUIDs)
    /\ stats' = [stats EXCEPT !.expirations = Plus(@, Cardinality(ExpiredUIDs))]
    /\ UNCHANGED <<gauge, loop>>

cleanupExit ==
    /\ loop = "cancelled"
    /\ loop' = "exited"
    /\ UNCHANGED <<items, lruList, stats, gauge, cold>>

Stop ==
    /\ loop' = IF loop = "running" THEN "cancelled" ELSE loop
    /\ UNCHANGED <<items, lruList, stats, gauge, cold>>

Older(idle) == IF idle < IdleCap THEN idle + 1 ELSE idle

Tick ==
    /\ items' = [u \in Cached |->
                    [order |-> items[u].order, idle |-> Older(items[u].idle)]]
    /\ UNCHANGED <<lruList, stats, gauge, loop, cold>>

Next ==
    \/ \E o \in Order : Set(o)
    \/ \E u \in UID : Get(u) \/ Delete(u)
    \/ \E orders \in Batches : LoadFromSlice(orders)
    \/ cleanupExpired \/ cleanupExit
    \/ Stop
    \/ Tick

Spec == Init /\ [][Next]_vars

(* Time passes, and the goroutine is scheduled: a ticker that fires for    *)
(* ever is read for ever.  No caller is obliged to call anything.          *)
Fairness == WF_vars(Tick) /\ WF_vars(cleanupExpired)

FairSpec == Spec /\ Fairness

-----------------------------------------------------------------------------
(* Every variable has its type, and an order is filed under its own uid.   *)
TypeOK ==
    /\ Cached \subseteq UID
    /\ items \in [Cached -> cacheEntry]
    /\ \A u \in Cached : items[u].order.uid = u
    /\ lruList \in Seq(UID)
    /\ stats \in Stats
    /\ gauge \in Nat
    /\ loop \in {"none", "running", "cancelled", "exited"}
    /\ cold \subseteq Cached

(* Map and list never come apart: every cached uid is linked exactly once  *)
(* and nothing else is linked, whatever Set, Get, Delete, the bulk load    *)
(* and the two kinds of expiry do to both (cache.go:57-174, 213-277).      *)
ListMatchesMap == IsInjective(lruList) /\ Range(lruList) = Cached

(* The cache never holds more than MaxItems orders (Set evicts first, the  *)
(* bulk load trims its input), expired ones included.                      *)
Capacity == MaxItems > 0 => Size <= MaxItems

(* The list is in order of last use: what was bulk-loaded and never used   *)
(* stands behind everything that was used, and among the used entries the  *)
(* one nearer the front was used no earlier (MoveToFront, PushFront,       *)
(* PushBack agree with accessedAt).                                        *)
RecencyOrder ==
    \A i, j \in DOMAIN lruList :
        i < j /\ lruList[j] \notin cold =>
            /\ lruList[i] \notin cold
            /\ items[lruList[i]].idle <= items[lruList[j]].idle

(* An entry that leaves in the step in which another enters was evicted:   *)
(* the cache was full, it is the only one to go, and every survivor was    *)
(* used no earlier than it (evictOldest takes the back of the list).       *)
EvictsLeastRecentlyUsed ==
    [][\A u \in Cached \ DOMAIN items' :
          DOMAIN items' \ Cached # {} =>
              /\ Full
              /\ Cached \ DOMAIN items' = {u}
              /\ \A v \in Cached \ {u} :
                     \/ u \in cold
                     \/ v \notin cold /\ items[v].idle <= items[u].idle]_vars

(* Every entry that leaves is counted once, as an eviction or as an        *)
(* expiration, unless a caller deleted it: the statistics served at /stats *)
(* account for all departures, on the lazy path of Get and on the path of  *)
(* the cleanup goroutine alike.                                            *)
DeparturesCounted ==
    [][LET departed == Cardinality(Cached \ DOMAIN items')
       IN  \/ \E u \in UID : Delete(u)
           \/ Plus(stats.evictions + stats.expirations, departed)
                  = Plus(stats'.evictions + stats'.expirations, 0)]_vars

(* Nothing stays for ever without being used: an entry nobody touches is   *)
(* removed in the end, as long as the cleanup goroutine is not stopped.    *)
IdleEntriesLeave ==
    \A u \in UID :
        (u \in Cached /\ items[u].idle > 0)
            ~> (u \notin Cached \/ items[u].idle = 0 \/ loop # "running")

(* The metric cache_current_size is the number of items in the cache, as   *)
(* its help text says (metrics.go:65).  Only the insertion of a new uid by *)
(* Set writes it.                                                          *)
GaugeIsSize == gauge = Size

(* Callers see no more than a bounded map that may forget.                 *)
Map == INSTANCE BoundedMap WITH content <- [u \in Cached |-> items[u].order]

RefinesBoundedMap == Map!Spec

=============================================================================
