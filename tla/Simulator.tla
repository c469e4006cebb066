------------------------------ MODULE Simulator ------------------------------
(***************************************************************************)
(* The traffic simulator of cmd/test_producer/main.go: workers that create *)
(* and update orders through the topic, and read and delete them through   *)
(* the HTTP API, choosing among the orders they track in a slice under a   *)
(* mutex.                                                                  *)
(*                                                                         *)
(* The mutex guards each access and nothing longer: a worker looks at the  *)
(* number of tracked orders, then picks one, then talks to the broker or   *)
(* to the service, and the others do the same in between.                  *)
(*                                                                         *)
(* The service is external here: it stores the orders of the topic one     *)
(* after the other, rejects the rest, and deletes what it is asked to.  A  *)
(* request that reports an error may have taken effect, and a message      *)
(* whose write reported one may be in the topic, get there later or never. *)
(*                                                                         *)
(* A definition named X_Y is X with a plausible mistake Y; nothing uses    *)
(* it.  It stands before X so that X can be exchanged for it, to show that *)
(* a property would notice.                                                *)
(***************************************************************************)
EXTENDS Integers, Sequences, FiniteSets, Functions

CONSTANTS Worker,      \* SIM_WORKERS goroutines
          UID,         \* the uids generateOrderUID may draw, never one twice
          SeedCount,   \* SIM_SEED_COUNT
          MaxOps       \* bound: operations explored

NoOrder == "no order"

ASSUME WorkerAssumption == IsFiniteSet(Worker)
ASSUME UidAssumption == NoOrder \notin UID
ASSUME SeedAssumption == SeedCount \in Nat /\ MaxOps \in Nat

VARIABLES
    main,      \* "seed", "run", "stopping", "done"
    orders,    \* Simulator.orders: the uids tracked
    work,      \* worker -> what it is doing, and with which order
    stats,     \* Creates, Reads, Updates, Deletes, InvalidOps, Errors
    drawn,     \* uids generated so far
    topic,     \* messages the service has yet to consume
    late,      \* messages of failed writes that may still get there
    db,        \* uids the service has stored
    ops,       \* ghost: operations started
    vain,      \* ghost: deletes that found nothing to delete
    unsent,    \* ghost: seeded orders whose batch write reported an error
    strays     \* ghost: uids no worker will come back to, though a message
               \* or the service may still hold them

vars == <<main, orders, work, stats, drawn, topic, late, db, ops, vain, unsent, strays>>

outside == <<topic, late, db>>
ghosts  == <<ops, vain, unsent, strays>>

NoStats == [creates |-> 0, reads |-> 0, updates |-> 0, deletes |-> 0, invalid |-> 0, errors |-> 0]

Count(counter) == stats' = [stats EXCEPT ![counter] = @ + 1]

(* An error is counted unless the context is cancelled ("if ctx.Err() !=   *)
(* nil { return }"), which may happen just after the worker looked.        *)
CountError ==
    IF main = "stopping" THEN UNCHANGED stats \/ Count("errors") ELSE Count("errors")

Become(w, at, u) == work' = [work EXCEPT ![w] = [at |-> at, uid |-> u]]

Rest(w) == Become(w, "idle", NoOrder)

Tracked == Range(orders)

-----------------------------------------------------------------------------
Init ==
    /\ main = "seed"
    /\ orders = <<>>
    /\ work = [w \in Worker |-> [at |-> "idle", uid |-> NoOrder]]
    /\ stats = NoStats
    /\ drawn = {}
    /\ topic = <<>> /\ late = {} /\ db = {}
    /\ ops = 0 /\ vain = 0 /\ unsent = {} /\ strays = {}

(* seed: the orders are tracked and counted one by one ...                 *)
SeedOrder ==
    /\ main = "seed"
    /\ Len(orders) < SeedCount
    /\ \E u \in UID \ drawn :
          /\ drawn' = drawn \union {u}
          /\ orders' = Append(orders, u)
    /\ Count("creates")
    /\ UNCHANGED <<main, work, outside, ghosts>>

(* WriteMessages reports an error: each message may have got to the topic, *)
(* or the writer may still send it when its caller is gone.                *)
Unconfirmed(us) == late' = late \union us /\ UNCHANGED topic

(* ... and written in one batch; the workers start, whether it is written  *)
(* whole, in part or not at all.                                           *)
SeedWrite ==
    /\ main = "seed"
    /\ Len(orders) = SeedCount
    /\ \/ topic' = topic \o orders /\ unsent' = {} /\ UNCHANGED late
       \/ Unconfirmed(Tracked) /\ unsent' = Tracked
    /\ main' = "run"
    /\ UNCHANGED <<orders, work, stats, drawn, db, ops, vain, strays>>

-----------------------------------------------------------------------------
(* The worker's delay is over; doOperation looks at the context once.      *)
Start(w) ==
    /\ main = "run"
    /\ work[w].at = "idle"
    /\ ops < MaxOps
    /\ ops' = ops + 1
    /\ Become(w, "choose", NoOrder)
    /\ UNCHANGED <<main, orders, stats, drawn, outside, vain, unsent, strays>>

(* pickOperation looks at the number of tracked orders, and the operation  *)
(* is made an invalid one with some probability.  An order is generated at *)
(* once for a CREATE.                                                      *)
StartCreate(w) ==
    \E u \in UID \ drawn :
        /\ drawn' = drawn \union {u}
        /\ Become(w, "create", u)

Choose(w) ==
    /\ work[w].at = "choose"
    /\ \/ StartCreate(w)
       \/ /\ \/ Become(w, "invalid message", NoOrder)
             \/ orders # <<>> /\ \E at \in {"read?", "update?", "delete?", "invalid request"} :
                                    Become(w, at, NoOrder)
          /\ UNCHANGED drawn
    /\ UNCHANGED <<main, orders, stats, outside, ghosts>>

(* The lock is taken again to pick an order; if none is left by now, a     *)
(* read or an update turns into a CREATE, and a delete is dropped.         *)
PickToRead_CountsFallback(w) ==
    /\ work[w].at = "read?"
    /\ \/ \E i \in DOMAIN orders : Become(w, "read", orders[i]) /\ UNCHANGED <<drawn, stats>>
       \/ orders = <<>> /\ StartCreate(w) /\ Count("reads")
    /\ UNCHANGED <<main, orders, outside, ghosts>>
PickToRead(w) ==
    /\ work[w].at = "read?"
    /\ \/ \E i \in DOMAIN orders : Become(w, "read", orders[i]) /\ UNCHANGED drawn
       \/ orders = <<>> /\ StartCreate(w)
    /\ UNCHANGED <<main, orders, stats, outside, ghosts>>

PickToUpdate(w) ==
    /\ work[w].at = "update?"
    /\ \/ \E i \in DOMAIN orders : Become(w, "update", orders[i]) /\ UNCHANGED drawn
       \/ orders = <<>> /\ StartCreate(w)
    /\ UNCHANGED <<main, orders, stats, outside, ghosts>>

(* removeRandomTrackedOrder: the last order takes the place of this one.   *)
Untrack_NoSwap(i) == orders' = SubSeq(orders, 1, Len(orders) - 1)
Untrack(i) ==
    orders' = [j \in 1 .. Len(orders) - 1 |-> IF j = i THEN orders[Len(orders)] ELSE orders[j]]

PickToDelete_KeepsTracked(w) ==
    /\ work[w].at = "delete?"
    /\ \/ \E i \in DOMAIN orders : Become(w, "delete", orders[i]) /\ UNCHANGED vain
       \/ orders = <<>> /\ Rest(w) /\ vain' = vain + 1
    /\ UNCHANGED <<main, orders, stats, drawn, outside, ops, unsent, strays>>
PickToDelete(w) ==
    /\ work[w].at = "delete?"
    /\ \/ \E i \in DOMAIN orders :
             Untrack(i) /\ Become(w, "delete", orders[i]) /\ UNCHANGED vain
       \/ orders = <<>> /\ Rest(w) /\ vain' = vain + 1 /\ UNCHANGED orders
    /\ UNCHANGED <<main, stats, drawn, outside, ops, unsent, strays>>

-----------------------------------------------------------------------------
(* doCreate: the order is written to the topic, and tracked only then.     *)
WriteCreate(w) ==
    /\ work[w].at = "create"
    /\ topic' = Append(topic, work[w].uid)
    /\ Become(w, "track", work[w].uid)
    /\ UNCHANGED <<main, orders, stats, drawn, late, db, ghosts>>

WriteCreateFails_Tracks(w) ==
    /\ work[w].at = "create"
    /\ UNCHANGED <<topic, late, strays, stats>>
    /\ Become(w, "track", work[w].uid)
    /\ UNCHANGED <<main, orders, drawn, db, ops, vain, unsent>>
WriteCreateFails(w) ==
    /\ work[w].at = "create"
    /\ Unconfirmed({work[w].uid}) /\ strays' = strays \union {work[w].uid}
    /\ CountError
    /\ Rest(w)
    /\ UNCHANGED <<main, orders, drawn, db, ops, vain, unsent>>

Track(w) ==
    /\ work[w].at = "track"
    /\ orders' = Append(orders, work[w].uid)
    /\ Count("creates")
    /\ Rest(w)
    /\ UNCHANGED <<main, drawn, outside, ghosts>>

(* doRead: any answer counts, 404 too.                                     *)
Read(w) ==
    /\ work[w].at = "read"
    /\ Count("reads") \/ CountError
    /\ Rest(w)
    /\ UNCHANGED <<main, orders, drawn, outside, ghosts>>

(* doUpdate: a new body for the order picked before, which another worker  *)
(* may have deleted meanwhile.                                             *)
WriteUpdate(w) ==
    /\ work[w].at = "update"
    /\ topic' = Append(topic, work[w].uid)
    /\ Count("updates")
    /\ Rest(w)
    /\ UNCHANGED <<main, orders, drawn, late, db, ghosts>>

WriteUpdateFails(w) ==
    /\ work[w].at = "update"
    /\ Unconfirmed({work[w].uid})
    /\ CountError
    /\ Rest(w)
    /\ UNCHANGED <<main, orders, drawn, db, ghosts>>

(* Something may still bring order u back: a message, or another worker    *)
(* that is about to update it.                                             *)
Returning(u) ==
    \/ u \in Range(topic) \union late
    \/ \E v \in Worker : work[v] = [at |-> "update", uid |-> u]

(* doDelete: the order is no longer tracked.  200, or 404 if the service   *)
(* does not hold it (yet) ...                                              *)
Delete(w) ==
    LET u == work[w].uid
    IN  /\ work[w].at = "delete"
        /\ db' = db \ {u}
        /\ IF u \in db THEN Count("deletes") ELSE Count("errors")
        /\ strays' = strays \union (IF Returning(u) THEN {u} ELSE {})
        /\ Rest(w)
        /\ UNCHANGED <<main, orders, drawn, topic, late, ops, vain, unsent>>

(* ... or an error.  Either way nobody deletes it again.                   *)
DeleteFails(w) ==
    /\ work[w].at = "delete"
    /\ db' \in {db, db \ {work[w].uid}}
    /\ strays' = strays \union {work[w].uid}
    /\ CountError
    /\ Rest(w)
    /\ UNCHANGED <<main, orders, drawn, topic, late, ops, vain, unsent>>

(* doInvalidCreate, doInvalidUpdate: a message the service cannot store.   *)
WriteInvalid(w) ==
    /\ work[w].at = "invalid message"
    /\ topic' = Append(topic, NoOrder)
    /\ Count("invalid")
    /\ Rest(w)
    /\ UNCHANGED <<main, orders, drawn, late, db, ghosts>>

WriteInvalidFails(w) ==
    /\ work[w].at = "invalid message"
    /\ Unconfirmed({NoOrder})
    /\ CountError
    /\ Rest(w)
    /\ UNCHANGED <<main, orders, drawn, db, ghosts>>

(* doInvalidRead, doInvalidDelete: a uid nobody has.                       *)
RequestInvalid(w) ==
    /\ work[w].at = "invalid request"
    /\ Count("invalid") \/ CountError
    /\ Rest(w)
    /\ UNCHANGED <<main, orders, drawn, outside, ghosts>>

(* The worker waits for its delay or for the context.                      *)
Return_FromOperation(w) ==
    /\ main = "stopping"
    /\ work[w].at = "idle"
    /\ UNCHANGED vars
Return(w) ==
    /\ main = "stopping"
    /\ work[w].at = "idle"
    /\ Become(w, "returned", NoOrder)
    /\ UNCHANGED <<main, orders, stats, drawn, outside, ghosts>>

-----------------------------------------------------------------------------
(* main takes a signal, cancels the context and waits for the workers.     *)
Stop ==
    /\ main = "run"
    /\ main' = "stopping"
    /\ UNCHANGED <<orders, work, stats, drawn, outside, ghosts>>

Finish ==
    /\ main = "stopping"
    /\ \A w \in Worker : work[w].at = "returned"
    /\ main' = "done"
    /\ UNCHANGED <<orders, work, stats, drawn, outside, ghosts>>

(* The service consumes a message.                                         *)
Consume ==
    /\ topic # <<>>
    /\ topic' = Tail(topic)
    /\ db' = db \union ({Head(topic)} \ {NoOrder})
    /\ UNCHANGED <<main, orders, work, stats, drawn, late, ghosts>>

(* A message whose write has failed gets to the topic, at once or behind   *)
(* messages written later.                                                 *)
LateWrite ==
    \E u \in late :
        /\ topic' = Append(topic, u)
        /\ late' = late \ {u}
        /\ UNCHANGED <<main, orders, work, stats, drawn, db, ghosts>>

-----------------------------------------------------------------------------
Step(w) ==
    \/ Start(w) \/ Choose(w)
    \/ PickToRead(w) \/ PickToUpdate(w) \/ PickToDelete(w)
    \/ WriteCreate(w) \/ WriteCreateFails(w) \/ Track(w)
    \/ Read(w)
    \/ WriteUpdate(w) \/ WriteUpdateFails(w)
    \/ Delete(w) \/ DeleteFails(w)
    \/ WriteInvalid(w) \/ WriteInvalidFails(w)
    \/ RequestInvalid(w)
    \/ Return(w)

Next ==
    \/ SeedOrder \/ SeedWrite
    \/ \E w \in Worker : Step(w)
    \/ Stop \/ Finish
    \/ Consume \/ LateWrite

Spec == Init /\ [][Next]_vars

(* Workers are scheduled, and their calls return: requests and writes have *)
(* timeouts.  main goes on when it can.                                    *)
Fairness ==
    /\ WF_vars(Finish)
    /\ \A w \in Worker : WF_vars(Step(w))

FairSpec == Spec /\ Fairness

-----------------------------------------------------------------------------
Activity == {"idle", "choose", "create", "track", "read?", "read", "update?", "update",
             "delete?", "delete", "invalid message", "invalid request", "returned"}

Holding == {"create", "track", "read", "update", "delete"}

(* The type of every variable.                                             *)
TypeOK ==
    /\ main \in {"seed", "run", "stopping", "done"}
    /\ orders \in Seq(UID)
    /\ work \in [Worker -> [at : Activity, uid : UID \union {NoOrder}]]
    /\ \A w \in Worker : work[w].at \in Holding <=> work[w].uid # NoOrder
    /\ stats \in [DOMAIN NoStats -> Nat]
    /\ drawn \subseteq UID
    /\ topic \in Seq(UID \union {NoOrder})
    /\ late \subseteq UID \union {NoOrder}
    /\ db \subseteq UID
    /\ ops \in 0 .. MaxOps /\ vain \in Nat
    /\ unsent \subseteq UID /\ strays \subseteq UID

(* An order that a worker is creating or deleting is its own.              *)
Owns(w, u) == work[w].at \in {"create", "track", "delete"} /\ work[w].uid = u

(* Each order has one owner at most: it is tracked once, or one worker is  *)
(* creating or deleting it, so that no two workers delete the same order   *)
(* (main.go:398-403, 910-921).                                             *)
OneOwner ==
    /\ IsInjective(orders)
    /\ \A w \in Worker, u \in UID :
          Owns(w, u) => u \notin Tracked /\ \A v \in Worker \ {w} : ~ Owns(v, u)

(* What is tracked exists: the service holds it or is about to read it     *)
(* from the topic, so that a 404 for a tracked order is due to a delete    *)
(* that overtook the reader, or to the service lagging behind              *)
(* (main.go:435-441).  A batch of seeds that failed is the exception.      *)
TrackedExists == main # "seed" => Tracked \subseteq db \union Range(topic) \union unsent

(* No order is left behind unnoticed: what the service stores is tracked,  *)
(* or in a worker's hands, or a stray: its CREATE or DELETE reported an    *)
(* error, or it was deleted while a message about it was on its way or     *)
(* about to be sent (main.go:389-403, 457-488, 494-525).                   *)
StoredIsTracked ==
    \A u \in db : u \in Tracked \union strays \/ \E w \in Worker : Owns(w, u)

Total == stats.creates + stats.reads + stats.updates + stats.deletes + stats.invalid

Resting == {w \in Worker : work[w].at \in {"idle", "returned"}}

(* Every operation is counted once, as what it became or as an error,      *)
(* however the orders it wanted disappeared under it; a shutdown may cut   *)
(* one short, and a delete with nothing to delete is not counted.          *)
CountedOnce ==
    LET accounted == Total + stats.errors + vain + Cardinality(Worker \ Resting)
    IN  /\ main = "run" => accounted = SeedCount + ops
        /\ main # "seed" => accounted <= SeedCount + ops

(* A shutdown ends: every worker finishes the call it is in, and returns   *)
(* (main.go:174-183, 301-313).                                             *)
ShutdownCompletes == main = "stopping" ~> main = "done"
=============================================================================
