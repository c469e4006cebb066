# A TLA+ development of the order service

The repository holds an order service (`l0/order-service`): it consumes orders
from a Kafka topic, stores them in PostgreSQL, keeps the recently used ones in
an LRU cache with a sliding TTL, and serves them over HTTP. Next to it stand a
traffic simulator, a web page and a set of small language exercises (`l1`).

This directory models the parts in which something can go wrong that a test
hardly reaches: the cache, the consumer, the statements of the repository, these
together with the HTTP handlers around one database, the life of the process
from its first connection to its last deferred call, the web page, the workers
of the simulator, and the rules and sums an order must obey on its way from a
producer to the tables. Paths below are relative to
`src/l0/order-service/` unless they begin with `l0/` or `l1/`.

    tlc -workers 2 -config MCConsumer.cfg MCConsumer     model-checks one run
    tlapm ConsumerProofs.tla                             checks one module's proofs

`PROJECT.json` maps every definition to the lines it models and lists the
components, runs, hazards, findings and theorems.

## The system

| Part | State it keeps | Operations | Talks to |
|---|---|---|---|
| Cache (`internal/cache/cache.go`) | map uid -> entry, recency list, statistics, all under one mutex; a cleanup goroutine | `Set` `Get` `Delete` `Exists` `LoadFromSlice` `Stop`, `cleanupExpired` | called by consumer, handlers, `main` |
| Consumer (`internal/kafka/consumer.go`) | the message in progress, its attempt, three counters; inside kafka-go the fetch position and the offsets to commit | `Start` `processWithRetry` `processMessage` `sendToDLQ` `Close` | Kafka, repository, cache |
| Handlers (`internal/handler/handler.go`) | none of their own | `GET` and `DELETE /order/{uid}`, `/orders`, `/health`, `/stats` | cache, repository |
| Repository (`internal/repo/postgres.go`, `sql/up.sql`) | tables orders, deliveries, payments, items | `SaveOrder` (one transaction) `GetOrder` (two queries) `GetAllOrders` `GetOrderUIDs` `GetOrderCount` `DeleteOrder` | PostgreSQL |
| Start and shutdown (`cmd/service/main.go`) | context, wait group, two channels | connect, warm start of the cache, start consumer and server; on a signal or a failed server: cancel, stop the server, close reader and writer, wait, close the pool | everything above |
| Order rules (`internal/models/order.go`) | none | `ParseOrder` `Validate` | consumer, simulator |
| Simulator (`cmd/test_producer/main.go`) | bounded list of tracked orders, counters | create, read, update, delete and invalid operations by concurrent workers | Kafka, HTTP API |
| Web page (`web/index.html`) | page number and size, sort order, total, last count polled, loading flag | `loadPage` `loadStats` `goPage` `toggleSort` `fetchOrder`, resize | HTTP API |
| Configuration, metrics, tracing, mocks, deployment | - | - | - |
| Exercises (`l1/01.go` to `l1/06.go`) | - | worker pools, cancellation, timed channels, twelve ways to stop a goroutine | - |

How they interact. The consumer goroutine, every HTTP request and the cleanup
goroutine run concurrently in one process. The cache is the only memory they
share and every method of it runs under the mutex, so a method is one step.
Nothing spans the cache and the database: a writer changes the row first and
the cached copy later, a reader that missed reads the row first and caches it
later. Kafka sees only two kinds of calls: fetch the next message, and an
asynchronous commit of an offset.

What is hard. The consumer: repeated, failed and lost calls, crashes, shutdowns
and rebalances at any moment, retries that take seconds, a reader closed under
a goroutine that still works. The cache: two data structures and a gauge that
must agree over eight operations, limits, two paths of expiry. The
repository: saves of one order that overlap because a client has gone and its
transaction has not, reads in two queries at READ COMMITTED, a bounded pool. The
service: the order of database and cache writes of concurrent actors, redelivery
of messages whose order was updated or deleted meanwhile. The process: errors,
signals and timeouts that race, goroutines main waits for without a bound. The
page: answers that overlap, and calls that are dropped while one is awaited. The
simulator: workers that look at a shared slice, pick from it, and talk to broker
and service in three separate steps. The rules: sums that wrap or round, repeated
in four places that must agree.

What makes each part correct:

- Cache: map and list agree; never more than `MaxItems`; the least recently used
  goes, one at a time; each departure is counted once; idle entries leave. To its
  callers: a bounded map that may forget, and never invents or misfiles.
- Consumer: no committed offset passes a message that was neither stored nor
  dead-lettered nor knowingly given up; five attempts before a dead letter;
  a retry is not overtaken; the counters balance; every message is settled and
  the lag vanishes in the end; a shutdown ends.
- Repository: a committed order is one whole version, whatever overlaps; a read
  mixes versions only if the order changed between its queries; calls end.
- Process: the consumer is cancelled before its reader is closed and done before
  the process ends; the pool is closed under nobody; a shutdown ends.
- Page: the list never goes back, its rows are those the page speaks of, its total
  catches up with the database.
- Service: what is cached was stored; a cached copy goes stale only in the ways
  the code cannot avoid without a lock over both stores; the database does not
  stay behind the messages consumed.
- Simulator: an order is one worker's at a time; what is tracked exists, what
  exists is tracked or known to be astray; every operation is counted once.
- Order rules: what the simulator makes passes, what it corrupts does not, what
  is stored adds up.

## Modules

| Module | What it is |
|---|---|
| `BoundedMap` | what the cache promises its callers (abstract) |
| `OrderCache` | `cache.go`, one action per method |
| `OrderCacheProofs` | its theorems, and that it implements `BoundedMap` |
| `Delivery` | what the consumer promises about its topic (abstract) |
| `Consumer` | `consumer.go`, with `main`'s shutdown and kafka-go as the code uses it |
| `ConsumerProofs` | its theorems, and that it implements `Delivery` |
| `OrderStore` | what the repository promises its callers (abstract) |
| `OrderRepo` | the statements of `postgres.go`, on tables as PostgreSQL keeps them |
| `OrderRepoProofs` | its theorems, and that it implements `OrderStore` |
| `ConsumerHost` | what `Consumer` assumes of the process around it (abstract) |
| `Lifecycle` | `main` of `cmd/service`, with its goroutines, signals and the pool |
| `LifecycleProofs` | its theorems, and that it implements `ConsumerHost` |
| `WebUI` | the page with `GET /stats` and `GET /orders` |
| `WebUIProofs` | its theorems |
| `OrderService` | extends `Consumer`: each of its steps joined with what it does to database and cache, plus the GET and DELETE handlers; the cache is a `BoundedMap` |
| `OrderServiceProofs` | its theorems, and that it is a `Consumer` that uses its cache as a `BoundedMap` |
| `Simulator` | `cmd/test_producer/main.go`, one action per step of a worker's operation |
| `SimulatorProofs` | its theorems |
| `OrderRules` | generator, corruptions, `ParseOrder` with `Validate`, and the columns of `sql/up.sql` |
| `OrderRulesProofs` | its theorems: generated and corrupted orders, exact items and sums |
| `MCOrderCache`, `MCConsumer`, `MCOrderRepo`, `MCOrderService`, `MCLifecycle`, `MCWebUI`, `MCSimulator`, `MCOrderRules` | values of the constants for TLC |

A definition named `X_Y` stands before `X` and is `X` with a plausible mistake
`Y`. No specification uses it; exchanged for `X` it makes a property fail, which
shows that the property watches that piece of code (`mutants` in `PROJECT.json`).

### OrderCache

`items`, `lruList` and `stats` are the fields of `Cache`, `gauge` the metric
`cache_current_size`, `loop` the state of the cleanup goroutine. `cold` is a
ghost: the uids that were bulk-loaded and not used since, which the code pushes
to the back of the list with a fresh `accessedAt`, so that position and time
disagree for them on purpose.

Time. The code compares only `time.Since(accessedAt)` with the TTL. An entry
carries the ticks for which it has been idle, up to one past the TTL; from there
on it is expired at any later time. `Tick` is the clock.

`Set`, `Get` and `LoadFromSlice` are disjunctions of their paths (`SetExisting`,
`SetNew`; `GetMiss`, `GetExpired`, `GetHit`). Eviction is part of `SetNew`, as in
the code. Counters wrap at `CounterSize` (2^64 in the code).

### Consumer

`pc` is where the goroutine is: `fetch` and `pause` in `Start`, `process`,
`cache`, `backoff`, `deadLetter`, `commit` in `processWithRetry`, then `stopped`
(returned) and `down` (no process). `reader` follows `Consumer.Close`: `closing` once the
reader is closed, `closed` once the DLQ writer is. `position`, `stash` and `committed` are
kafka-go's and the broker's: how far the session fetched, the offset the
reader was told to commit, and the offset the group has committed. Messages
differ only in kind: `invalid` (does not parse or validate), `valid`, or
`poison` (valid, but refused by the database, for instance longer than its
column).

Failures that the model allows: any fetch, save or dead-letter write may fail; a
dead-letter write that reports an error may have taken effect; a save that reports
one because its connection broke, or its context ended, in COMMIT is on `late` until
the server commits it or rolls it back, whatever the consumer or a new process does
meanwhile (`LateCommit`, `LateRollback`; such a save locks its row, so that another
attempt waits); a fetch may return a buffered message after the reader was closed; a
commit handed to the reader is lost by a crash, a rebalance or an unlucky
`Close`; the process dies between any two steps, or is shut down; the group is
rebalanced at any moment, and the goroutine goes on with its message. A select
between a cancelled context and a ready channel may choose either.

`unwritten` and `interrupted` are ghosts: the messages given up because the
write to the dead letter topic failed, or because a shutdown cut a retry short.
A restart removes those that will be delivered again. `failures` is a ghost too: it
counts the saves of the message that failed since it was fetched, apart from the
loop's `attempt`, so that `DeadLetterAfterAllRetries` can compare the two.

### OrderRepo

`db[u]` holds the rows of an order in the four tables, each with the version it was
written from; version `v` has `Count[v]` items. `sess[s]` is a session of the
server: `Begin`, one `Upsert` per table, `ClearItems`, `InsertItems`, `Commit` are
the statements of `SaveOrder` in order, `Delete` that of `DeleteOrder`, `Rollback` the
deferred rollback or the end of a broken connection. A session reads and writes
what READ COMMITTED shows it: what is committed, and its own changes, which
`Commit` merges into `db`. The first statement that writes the row of an order waits
while another transaction has written it (`Locked`).

`Lose` is what every caller must reckon with: the connection breaks, the process
dies or the context ends, and the call is over, while the server has not noticed
and may still commit what it was sent. `overtaken` is a ghost: such saves that
another save of the order went past. `GetOrder` and `GetAllOrders` are `FirstQuery`,
`SecondQuery` and `Return`; the `changed` of a reader are the orders committed
between the two.

`OrderStore` says that a call takes effect on the whole order at one moment between
its start and its end, or not at all; a call that was lost may take effect later.
`OrderService` uses the calls as `OrderStore` promises them: also a call that was lost and
takes effect later, even after a restart.

### Lifecycle

`main` is the place where main is: `connect`, `fill`, `listen`, `notify` while it starts,
`select` while the service runs, `stop`, `drain`, `close`, `wait`, `release` while it shuts
down, and `down`. `serve` is the goroutine of `server.Serve`, `errChan` the number of
errors in its channel, `signal` whether `sigChan` holds one. A request is a handler
that may need a connection (`Query`) and replies. `Gone` is the end of the process:
all goroutines with it, `exit` says how. `late` is a ghost: `Shutdown` gave up.

`Shutdown` may give up at any time (its ten seconds are shorter than a handler's
thirty); a connection made before may then bring another request. `pool.Close` lets
nobody in and waits for the connections in use. The tracer, the printing of
statistics and `cache.Stop`, which does not wait, are left out.

`HostView` is the consumer's surroundings as `Consumer` has them in `pc`, `ctx` and
`reader`: `ConsumerHost` allows exactly the start, `Cancel`, `Close`, return, `Exit`,
`Crash` and `Restart` of that module, and `RefinesConsumerHost` says that main does
nothing else to its consumer.

### WebUI

`ui` is `state` of the page, `loads` and `polls` the requests under way, `shown` the list
on the screen. Rows are not spelled out: they follow from the view (page, size,
order) and the moments at which orders were counted and rows read; `db.moment` counts
the changes of the database. `-1` and `-2` stand for JavaScript's `undefined` and `NaN`: an
error answer has no total, and the next page number computed from it is NaN.
`LoadPage(u)` is the function `loadPage` called with the page in state `u`, so that an
event handler is one step up to its first `await`. Requests for an order end in
`OrderShown`; one that fails changes nothing here. The server answers at most 500
orders a page (`handler.go:25`); `Sizes` are below that.

`lost` is a ghost: why a refresh may have been lost since the last request for the
list was sent.

### OrderService

`db[u]` is the message whose order is stored under `u`: the content of an order
is the message that brought it. `SaveOrder` is one transaction and so one
change of `db[u]`; `DeleteOrder` cascades, and is one too. `GetOrder` reads
head (orders, deliveries, payments) and items in two steps. A cached copy keeps
the two apart (`Copy`), so that a torn read shows.

`SaveAndStore`, `SaveFails`, `CacheSaved` and `ProcessEnds` are the consumer's
`SaveOrder`, `SaveError`, `CacheSet`, and `Exit` or `Crash` with their effects; `WarmRead` and
`WarmStart` are the two queries of `GetAllOrders` at READ COMMITTED, the second joined with
`Restart`; `ConsumerOnly` is the rest. `GetMiss`, `GetRow`, `GetItems`, `GetFails`, `GetFill`
are a GET; `DeleteRow`, `DeleteFails`, `DeleteCached` a DELETE. A hit changes nothing that this
module looks at: the cache is what `BoundedMap` promises, and recency is `OrderCache`'s
matter.

Calls that fail late. A failed save may be left on the consumer's `late`, a failed DELETE on
`lateDeletes`; both outlive the process, and the server carries them out or drops them at any
moment (`LateStore`, `LateUndone`, `LateDelete`). An undecided save locks its row
(`Unlocked`): other saves and deletes of that order wait, reads do not.

Two ghosts say what `CacheCoherent` excuses. `overtaken` are the requests, or the consumer,
that hold a copy of an order on its way into the cache while its row changes. `outdated` are
the uids whose cached copy was overtaken in this way and is wrong, or was right and has been
passed over by a call that had failed and was carried out later, after which nobody corrects
the cache. A copy leaves `outdated` with the next `Set` or `Delete` of its uid.

### Simulator

`orders` is the slice of tracked uids, `work[w]` what worker `w` is doing and with which
order, `main` where `main` is. The mutex guards single accesses, so that an operation
falls into `Start` (the delay is over), `Choose` (`pickOperation` looks at the number of
orders), `PickTo...` (an order is picked under the lock, or none is left), and the call;
`doCreate` writes (`WriteCreate`) before it tracks (`Track`). `Untrack` is the removal
by swap. A request that reports an error may have taken effect; the messages of a write
that reports one are on `late`, from where each may get to the topic at once, later,
behind others, or never (`LateWrite`). The service is external: `Consume` stores the
orders of the topic one after the other; that it does so for every order the simulator
sends is what `SimulatorOrdersPass` of `OrderRules` says, and the consumer's losses are
left to `Consumer`.

`ops` and `vain` count operations begun and deletes that found nothing; `unsent` are the
seeds whose batch reported an error (it may be written in part); `strays` are the orders
nobody will come back to, although a message or the service may still hold them.

### OrderRules

The state is one order, who made it, and how far it came: `Create`, `Update` or
`Corrupt` make the message of an order that was drawn, `ParseOrder` accepts or
rejects it, `SaveOrder` finds that the columns hold it or that PostgreSQL refuses
it. Orders of other producers (`Foreign`) begin with the message. Numbers are
integers with Go's wrapping and truncation (`Wrap`, `Quotient`) at width `Wide`, and
fit a column below `Narrow`. Texts, dates and identifiers are what the rules tell
apart; `Unlimited` are the fields that `Validate` lets grow longer than their column,
which are the consumer's `poison` messages, together with amounts beyond
`INTEGER`. An update keeps uid and track number of its target, which are valid
whenever those of a new order are. The regular expressions and lists themselves
are not modelled: that the texts the generator writes satisfy them (`AllOk`) is taken from
reading `main.go:764-848` beside `order.go:127-372`, while its numbers are drawn and checked.

## Runs

| Run | Instance | Question |
|---|---|---|
| `order_cache` | three orders, one with two revisions, room for two, TTL of one tick, four batches, counters modulo 3 | safety, liveness and refinement of the cache |
| `order_cache_gauge` (violation) | the same | is the gauge the number of items? |
| `consumer` | two partitions with `poison, valid` and `invalid`, two attempts, one outage, one rebalance, one save undecided at a time | safety, liveness and refinement of the consumer |
| `consumer_loss` (violation) | two partitions with a `valid` message each, two attempts, no rebalance | is no order lost? |
| `order_repo` | one order, versions of one and two items, two sessions that write, one reader, a pool of two | is an order whole, and do calls end? |
| `lifecycle` | two requests, a pool of one | is the pool closed last, is the consumer treated as it assumes, does a shutdown end? |
| `web_ui` | two orders in pages of one or two, two changes, two polls at a time, one failure, one act of the user | does the list go back, show other rows than it says, or fall behind? |
| `order_service` | `valid, invalid, valid` about one order, one GET and one DELETE at a time, one outage, two attempts, one save and one DELETE undecided at a time | do cache and database agree, and does the database keep up? |
| `order_service_delete` (violation) | as `order_service`, one attempt, no outage, and no call that fails late | is a deleted order out of the cache? |
| `simulator` | two workers, one seed, three operations, three uids | safety of the workers' races, and does a shutdown end? |
| `order_rules` | up to four items of the extreme prices and sales, widths 2^25 and 2^18, orders around every limit | do generator, rules and schema agree, and does what is stored add up? |
| `order_rules_model` (violation) | the same | do totals by the documented formula pass? |

Bounds. A capacity below the number of orders, and an order with two versions,
make eviction, overwriting and refill happen; a batch with a duplicate
inside the part that is kept, and one longer than the room, are the two corners
of `LoadFromSlice`. A TTL of one tick gives every entry the three ages that
matter: fresh, idle, expired. `CounterSize` is larger than the number of
entries that can leave in one step, so that a wrong count cannot wrap to a right
one. `MaxRetries` is five in the code; two give a first attempt and a last, and a
redelivery after either. `MaxLate` bounds the saves, and the DELETEs of an order, that are
undecided at a time; one can be decided on before, between and after all other steps, and
one save is all that a row lock allows. `MaxOutages` and `MaxRejoins` count crashes and
shutdowns, and rebalances; one of each already combines with every step of the
goroutine. `order_service` has one uid, so that nothing is evicted; `Expire`
removes copies at any moment and covers it. In `order_repo` two sessions are a save
and the leftover of another, with every place at which the second can meet the
first; the versions differ in the number of items, so that a mixture shows, and a
pool of two is exhausted by them before the reader comes. In `lifecycle` a pool of
one is what the handlers and the consumer wait for all the time. In `web_ui` two
changes are the least that make a count come back to what it was, and two polls the
least that overtake each other; without `CatchesUp` two acts of the user were checked
as well (ten million states).
In `simulator`, `MaxOps` bounds the operations; three of two workers let an order
be picked by one, deleted by the other and brought back by the first, and empty
the slice between `Choose` and `PickTo...`. When all uids are drawn a worker does
something else than create. In `order_rules` the widths keep the proportion that
matters (a hundred times the narrow one fits the wide one) within the arithmetic of
TLC; the instance has products and sums that wrap to acceptable values. The proofs
do without any of these bounds.

Deadlock is checked in all runs but three, in which the program or the order has an
end: `simulator`, `order_rules` and `order_rules_model`. A consumer waits for messages
for ever, a dead process is restarted, and a page polls as long as it is open.

### Properties

Cache. `ListMatchesMap`, `Capacity`, `RecencyOrder` are invariants,
`EvictsLeastRecentlyUsed` and `DeparturesCounted` say what one step may do,
`IdleEntriesLeave` is liveness, `RefinesBoundedMap` the contract.

Consumer. `CommittedAreSettled` is the invariant everything hangs on;
`DeadLetterAfterAllRetries`, `StatsBalance`, `NoOvertaking` concern retries,
counters and order: the first compares the failures since the fetch, counted on the side,
with what the loop made of them; `RefinesDelivery` is the contract; `EveryMessageSettled`,
`LagVanishes`, `ShutdownCompletes` are liveness. `LagVanishes` has an exception
for a second rebalance around one message in progress, which TLC showed to be real
with two of them: the late commit moves the group's offset back, and nothing moves
it forward until a new message arrives.

Repository. `CommittedIsWhole` (one version or nothing), `ReadsAreWhole` (what an
answer may mix), `NoLateOverwrite` (a save whose client has gone never replaces a
later one), `RefinesOrderStore` the contract, `CallsReturn` liveness.

Process. `PoolOutlivesUsers`, `RefinesConsumerHost` the contract, `StopCompletes`
liveness: a signal or a failed server ends the process, whichever comes first.

Page. `NeverOlder` (a list gives way only to one counted after its rows were read),
`ShownAsSaid` (rows, page number, size and order agree), and `CatchesUp`, which is
liveness with the precise list of the ways a refresh is lost; TLC shows each of the
three to be real.

Service. `CachedWasStored` (provenance), `CacheCoherent` (agreement, and the
precise list of what may break it), `NewestStored` (the database keeps up).
`NewestStored` excepts behaviours with a rebalance: the commit of the message in
progress may then pass older messages that are being fetched again, and a crash
leaves the older version in the database.

Simulator. `OneOwner` (no order tracked twice, deleted twice, or deleted while it
is tracked), `TrackedExists` and `StoredIsTracked` (the slice and the service agree,
and the precise list of what may part them), `CountedOnce`; `ShutdownCompletes` is
liveness.

Order rules. `SimulatorOrdersPass` and `CorruptionsAreInvalid` relate the simulator
to the rules and the schema, `StoredItemsExact` and `StoredSumsExact` relate
wrapping to true arithmetic. Without the columns of the schema neither of the last
two would hold: `Validate` alone accepts three items of 2^64 / 3 each.

### Fairness

`OrderCache`: the clock goes on and the cleanup goroutine is scheduled when its
ticker fires (`cache.go:243-249`). No caller is obliged to do anything.

`Consumer`: weak fairness of the goroutine as a whole (one thread whose calls
have timeouts or a context), of the reader's commit loop, of `main`'s shutdown
after the signal, and of the restart: docker starts the service again when it fails
(`docker-compose.yml:85`, `restart: on-failure`), and after an orderly end, or a failed
server (see below), an operator does. Strong fairness of a successful
fetch of each partition: `FetchMessage` may fail again and again but not for
ever. Nothing is assumed about the success of a save or of a dead-letter write.

`OrderRepo`: strong fairness of each session's next statement and of each reader's
next query, because pool and row locks are granted in the order of asking and every
statement ends; weak fairness of the end of a lost session and of the return.

`Lifecycle`: weak fairness of main, of the server goroutine's last steps, of the end
of a query (its context ends with the request after thirty seconds,
`handler.go:72`, or with the consumer's) and of the consumer's return, which is
`Consumer`'s `ShutdownCompletes`. Neither signals nor replies are assumed to come.

`WebUI`: weak fairness of the interval timer and of the answers. Nothing is assumed
of the user.

`Simulator`: weak fairness of each worker's steps (goroutines whose requests and
writes have timeouts) and of `main`'s wait. No signal is assumed to come.

## Findings

1. The gauge `cache_current_size` is written only when `Set` inserts
   (`cache.go:90`); its help text calls it the "Current number of items in
   cache." (`internal/metrics/metrics.go:65`). Run `order_cache_gauge`.
2. A valid order whose saves fail, and whose write to the dead letter topic fails
   too, is committed and gone (`consumer.go:161-163`, `168`), while `l0/Task/Task.md:28`
   asks that no data be lost when the database fails. Run `consumer_loss`. (The same
   happens to messages that are invalid, which the assignment allows to be ignored.)
3. A DELETE between the consumer's `SaveOrder` and its `cache.Set` leaves the
   deleted order in the cache (`handler.go:163-175`, `consumer.go:195-201`); the
   handler's comment and `handler_test.go:390-410` say it is removed. Run
   `order_service_delete`.
4. `Validate` takes the discount off the price (`order.go:350`), which rounds up, while
   the comment of the field (`order.go:63`) and the example of the assignment
   (`l0/Task/model.json:30-35`: 453 less 30 % is 317) multiply by `100 - sale`, which
   rounds down: the example's total is rejected. Run `order_rules_model`.

Seen while modelling, without a run of their own: a DELETE of an order that the
database does not hold answers 404 before the cache is touched, so a stale copy
outlives it (`handler.go:165-169`; `Readme.md:58-62` speaks of the cache only); a
redelivery after a crash brings a deleted order back; `cleanupExpired` does not
count the metric "expiration" that the lazy path counts (`cache.go:110`, `274`);
simulator and DLQ writer balance by bytes and ignore keys, so that updates of one
order would not stay in order on a topic with several partitions
(`cmd/test_producer/main.go:205`, `consumer.go:74`); the free delivery of large orders
(`main.go:781`) is out of the generator's reach, whose four items cost 199,600 at
most; `Validate` accepts orders that the columns refuse, which the consumer retries and
dead-letters (a long `customer_id`, `city`, `address` or amount); a signal during
the simulator's wait for the service or its seeding is acted on once the workers
are started; after a failed server main ends with status 0 (`main.go:130-165`), so that
`restart: on-failure` does not start the service again.

On the page, all reached by the model: a refresh that the poll asks for is dropped when
a page is loading (`index.html:434`), not repeated when it fails, and not asked for when
the count came back to what it was, because the count is recorded first
(`index.html:424`; its comment says "Refresh order list when DB count changes"): the
list then stays behind until the user acts or the count changes again. A page, sort or
size asked for while a page is loading changes range text and button and not the rows.
After an error answer the total is `undefined` and the next page number NaN
(`index.html:394-402`, `443`), which scrolling never leaves. Two orders asked for one
after the other are shown in the order of their answers (`index.html:557`), so that the
one highlighted may not be the one shown.

## What is proved

TLAPS checks every theorem for all values of the constants that satisfy the
assumptions the modules name: finitely many uids, orders filed under a uid,
batches that are sequences of orders, a positive `CounterSize`; a log per
partition, at least one attempt; a uid for every message; a positive number of
connections; page sizes that are positive; two widths of which the greater holds a
hundred times the lesser, prices and fees of the generator that a column holds when
`MaxItems + 1` of them are added up, and orders of other producers with no more items
than the width of an `int` allows to add up (some four billion for Go and PostgreSQL).
Capacity and TTL are any integers. The number of crashes and rebalances is any natural
number.

Every invariant, every action property but liveness and every refinement that a passing
run checks is the statement of a theorem. Those of liveness have a part that is safety
(nobody is left waiting for somebody who waits), and that part is proved for the pool
and for the shutdown, below.

`OrderCacheProofs`. The inductive invariant is the type invariant with
`ListMatchesMap`, `Capacity` and `RecencyOrder`; each is needed for the others
(the capacity of the next state needs the evicted element to be a cached one,
which needs the list to match the map). All list operations reduce to two facts:
what `Without` leaves of a list, and what pushing to the front does. From the
invariant follow `TypeOK`, `ListMatchesMap`, `Capacity`, `RecencyOrder`, the
action property `EvictsLeastRecentlyUsed`, and the refinement of `BoundedMap`
(`ImplementsBoundedMap`: `Set` and a hit are `Put` or a stutter, expiry and
`Delete` are `Forget`, the bulk load is `Fill`). `DeparturesCounted` is arithmetic
modulo `CounterSize`: a remainder is unique (`UniqueRemainder`), so that the counters
may be added before or after they wrap. The model says what is left of the list by
describing it (`Without`, `Ascending`), as a set of outcomes; `UnlinkingIsAFunction` and
`LoadingIsAFunction` show that this set has one element for every list, so that the
description neither blocks a method nor leaves it a choice.

`ConsumerProofs`. `CommittedAreSettled` is not inductive: an offset is committed
after it waited in the reader's stash, it was put there from the message in
progress, and committing it covers every earlier message of the partition too.
`CInv` therefore adds that the stash covers settled messages only
(`StashSettled`), that all that was fetched is settled or in progress
(`FetchedSettled`), that all before the message in progress is settled
(`CurrentInOrder`), what `pc` says about message and database, and how the failures
counted on the side, the loop's `attempt` and `pc` belong together (`AttemptsCounted`), from
which `AllRetriesFirst` follows for every way to and from a message. From it follow the consumer's
safety properties and the refinement of `Delivery`. Until the group is rebalanced, what
is committed and what waits in the stash lie behind the message in progress
(`OffsetsBehind`, theorem `OffsetsFollow`); therefore no crash, shutdown or lost commit
ever moves a committed offset back (`CommitsMoveForward`). After a rebalance with a message
in progress neither holds, of the code as of the model.

`OrderServiceProofs`. `ComposesConsumer` shows that the composed service is a
behaviour of `Consumer`, so that its theorems carry over
(`ServiceCommitsAreSettled`). `ServiceInvariant` adds the provenance of every copy on
its way through a GET or a warm start; that whoever holds a copy is `overtaken` or holds what
is stored (`ReaderFresh`, `ConsumerFresh`, `WarmFresh`); that nothing lives in a process
that is down; and the newest version, stored or on `late`, where the row lock keeps the
undecided save the only one of its order. Each step changes a row, puts or drops a copy, or
touches neither (`RowStep`, `PutStep`, `DropStep`, `QuietStep`, `UnseenStep`); `CachedWasStored`,
`CacheCoherent` and `NewestStored` follow, for any number of orders, readers and
deleters; the last needs `OffsetsBehind` of the consumer. `ServiceKeepsPromise` carries the
refinement of `Delivery` over, and `ServiceUsesBoundedMap` closes the gap between service
and cache: what consumer, handlers, warm start and expiry do to the cache is a behaviour of
`BoundedMap`, the specification `OrderCache` implements, so the service relies on nothing
that the cache does not promise.

`OrderRepoProofs`. `CommittedIsWhole` rests on how far each transaction is (`Stages`: what
it has written, seen and removed at each statement), and on the row of the order,
which one transaction at a time has written (`Exclusive`): what it removed is then
still all there is when it commits. `Overtaken` says that a save with a successor has
lost its client before it wrote anything, and so is sent no COMMIT. `ReadStages`
says what a reader holds. From `RInv` follow the three safety properties and the
refinement of `OrderStore`, for any number of sessions, readers and versions and any
pool. Every transaction takes the row of its order first, so whoever waits for a row
waits for one that waits for no row, and an exhausted pool has a connection whose user can go on or
waits for a lost client: `NoCircularWait`, the safety half of `CallsReturn`.

`LifecycleProofs`. `LInv` says at each place of main what has been done to consumer,
context, reader and pool; `PoolOutlivesUsers` and the refinement of `ConsumerHost`
follow from it for any number of requests and connections. `NobodyHangs` is the safety
half of `StopCompletes`: the server's error finds room in its channel, `wg.Wait` waits for
a consumer that is cancelled and whose reader is closed, and only handlers still hold
connections when the pool is closed.

`WebUIProofs`. `WInv`: the flag says truly that one request for the list is under way,
its moments and those of the list shown are in order, and both are for what the page
says unless a call was dropped. `NeverOlder` and `ShownAsSaid` follow, for any sizes,
numbers of polls, acts, changes and failures.

`SimulatorProofs`. The three safety properties about orders support each other, and
need more: an order being created is in nobody's hands and not yet in the topic
or the database (`CreateIsNew`), one that is written and not yet tracked is in
topic or database (`Published`), and only drawn uids are around at all. `Core`
is their conjunction; the lemmas treat the steps by what they do to slice, hands
and topic. `CountedOnce` has an invariant of its own: during the seeding the
counter runs with the slice, afterwards the workers that are not resting are the
operations in flight, and a step changes that number by one at most. It holds for
any finite set of workers, any uids and any number of operations.

`OrderRulesProofs`. A stored order has passed `Validate` and fits its columns, which
is inductive with the shape of its items (`Checked`). A price below `Narrow` times at
most a hundred is below `Wide`, so that nothing wraps (`WrapKeeps`, `DiscountRange`,
`DiscountedExact`): `StoredItemsAreExact` for all widths in that proportion, hence for
those of Go and PostgreSQL, and whatever other producers send. Sums over a list are a
recursive function of its length; what they are is proved by induction, which is stated as
an ordinary lemma about a set of numbers (`Induction`, from the least element of a
well-founded order) and so needs no operator as a parameter. `StoredSumsAreExact` follows
for lists of any length that an `int` can add up. For `SimulatorOrdersPassAll` and
`CorruptionsAreFound` the invariant says where an order comes from: `Made` holds of what
the generator or an update made (items as drawn, sums recomputed, texts complete), and
`Provenance` ties it to `origin` and `stage`; the rules and columns are then met item by
item, and each corruption breaks one of them.

Only model-checked: liveness (`IdleEntriesLeave`, `EveryMessageSettled`, `LagVanishes`,
both `ShutdownCompletes`, `CallsReturn`, `StopCompletes`, `CatchesUp`), which is outside
this prover. That `Consumer` and `OrderService` are ready for whatever `ConsumerHost`
and `OrderStore` allow is not proved either: it is an assumption on their environment
and no refinement, and is seen by comparing the actions (`Cancel`, `Close`, `Exit`,
`Crash`; the steps of a save, a read and a delete) side by side.

## Not modelled, and the plan

The exercises of `l1` are not modelled: each is a few lines that show one feature of
the language, no two share state, and nothing in the service uses them. The worker
pool (`l1/03.go`) and the ways to stop a goroutine (`l1/06.go`) would be the ones to
take. What else the plan has left: the order shown on the page.

Left out for good: configuration, tracing, logging, mocks, container set-up (no
behaviour), HTTP routing and JSON encoding (no state), the Prometheus counters
other than the gauge (written, never read), `/health` and `/metrics` (no state).
