----------------------------- MODULE Lifecycle ------------------------------
(***************************************************************************)
(* The life of the service process: main of cmd/service from its start to  *)
(* its end, with the goroutines it starts, the HTTP server, the pool of    *)
(* database connections that consumer and handlers share, signals, and     *)
(* failures at any step.                                                   *)
(*                                                                         *)
(* What the consumer does with its messages is Consumer; here it runs, has *)
(* a connection now and then, and returns once its context is cancelled.   *)
(* A request is a handler that may need a connection before it replies.    *)
(* net/http, os/signal and pgxpool are external.                           *)
(***************************************************************************)
EXTENDS Integers, FiniteSets

CONSTANTS Request,    \* requests served in one life of the process
          MaxConns    \* connections of the pool, DB_MAX_CONNS

ASSUME RequestAssumption == IsFiniteSet(Request)
ASSUME MaxConnsAssumption == MaxConns \in Nat \ {0}

VARIABLES
    main,       \* where main is
    exit,       \* how the process ended
    ctx,        \* the context of the consumer
    reader,     \* the consumer's reader and DLQ writer
    consumer,   \* its goroutine
    serve,      \* the goroutine of server.Serve
    errChan,    \* errors in errChan
    signal,     \* whether a signal is in sigChan
    pool,       \* the connection pool
    requests,   \* request -> how far its handler is
    late        \* whether Shutdown gave up waiting

vars == <<main, exit, ctx, reader, consumer, serve, errChan, signal, pool, requests, late>>

-----------------------------------------------------------------------------
(* Places of main where the process is starting, before it has asked for   *)
(* signals; where the server listens; and where Shutdown is over.          *)
Starting == {"connect", "fill", "listen", "notify"}
Listening == {"notify", "select", "stop"}
Stopped == {"close", "wait", "release"}

Active == {"running", "query", "replying"}

Unfinished == {r \in Request : requests[r] \in Active}

InUse == Cardinality({r \in Request : requests[r] = "query"})
             + (IF consumer = "query" THEN 1 ELSE 0)

Free == pool = "open" /\ InUse < MaxConns

Init ==
    /\ main = "connect"
    /\ exit = "none"
    /\ ctx = "live" /\ reader = "open"
    /\ consumer = "none"
    /\ serve = "none"
    /\ errChan = 0
    /\ signal = FALSE
    /\ pool = "none"
    /\ requests = [r \in Request |-> "none"]
    /\ late = FALSE

(* The process is gone, and all its goroutines with it.                    *)
Gone(how) ==
    /\ main' = "down"
    /\ exit' = how
    /\ UNCHANGED <<ctx, reader, consumer, serve, errChan, signal, pool, requests, late>>

-----------------------------------------------------------------------------
(* repo.New: a pool that answers a ping, or os.Exit(1).                    *)
Connect ==
    /\ main = "connect"
    /\ main' = "fill" /\ pool' = "open"
    /\ UNCHANGED <<exit, ctx, reader, consumer, serve, errChan, signal, requests, late>>

ConnectFails == main = "connect" /\ Gone("error")

(* The cache is filled, or is not; the consumer starts.                    *)
StartConsumer ==
    /\ main = "fill"
    /\ main' = "listen" /\ consumer' = "running"
    /\ UNCHANGED <<exit, ctx, reader, serve, errChan, signal, pool, requests, late>>

(* net.Listen, and the goroutine that serves; or os.Exit(1), with the      *)
(* consumer in the middle of anything.                                     *)
Listen ==
    /\ main = "listen"
    /\ main' = "notify" /\ serve' = "serving"
    /\ UNCHANGED <<exit, ctx, reader, consumer, errChan, signal, pool, requests, late>>

ListenFails == main = "listen" /\ Gone("error")

Notify ==
    /\ main = "notify"
    /\ main' = "select"
    /\ UNCHANGED <<exit, ctx, reader, consumer, serve, errChan, signal, pool, requests, late>>

(* The select takes a signal or an error, and main cancels the context.    *)
Select ==
    /\ main = "select"
    /\ \/ signal /\ signal' = FALSE /\ UNCHANGED errChan
       \/ errChan > 0 /\ errChan' = errChan - 1 /\ UNCHANGED signal
    /\ main' = "stop" /\ ctx' = "cancelled"
    /\ UNCHANGED <<exit, reader, consumer, serve, pool, requests, late>>

(* server.Shutdown closes the listener, waits for the connections on which *)
(* a request is being sent or handled, and gives up after ten seconds.     *)
Shutdown ==
    /\ main = "stop"
    /\ main' = "drain"
    /\ UNCHANGED <<exit, ctx, reader, consumer, serve, errChan, signal, pool, requests, late>>

Drained_AtOnce ==
    /\ main = "drain"
    /\ main' = "close"
    /\ UNCHANGED <<exit, ctx, reader, consumer, serve, errChan, signal, pool, requests, late>>
Drained ==
    /\ main = "drain"
    /\ Unfinished = {}
    /\ main' = "close"
    /\ UNCHANGED <<exit, ctx, reader, consumer, serve, errChan, signal, pool, requests, late>>

DrainTimeout ==
    /\ main = "drain"
    /\ main' = "close" /\ late' = TRUE
    /\ UNCHANGED <<exit, ctx, reader, consumer, serve, errChan, signal, pool, requests>>

(* consumer.Close.                                                         *)
Close ==
    /\ main = "close"
    /\ main' = "wait" /\ reader' = "closed"
    /\ UNCHANGED <<exit, ctx, consumer, serve, errChan, signal, pool, requests, late>>

(* wg.Wait; then the deferred calls stop the cache and close the pool,     *)
(* which refuses new uses and waits for the connections in use.            *)
Wait_ServerOnly ==
    /\ main = "wait"
    /\ serve = "returned"
    /\ main' = "release" /\ pool' = "closing"
    /\ UNCHANGED <<exit, ctx, reader, consumer, serve, errChan, signal, requests, late>>
Wait ==
    /\ main = "wait"
    /\ consumer = "returned" /\ serve = "returned"
    /\ main' = "release" /\ pool' = "closing"
    /\ UNCHANGED <<exit, ctx, reader, consumer, serve, errChan, signal, requests, late>>

Finish ==
    /\ main = "release"
    /\ InUse = 0
    /\ Gone("ok")

-----------------------------------------------------------------------------
(* The goroutine of server.Serve: accepting fails, the error goes to       *)
(* errChan, which has room for one; or Shutdown makes Serve return.        *)
ServeFails ==
    /\ serve = "serving"
    /\ main \in Listening
    /\ serve' = "failed"
    /\ UNCHANGED <<main, exit, ctx, reader, consumer, errChan, signal, pool, requests, late>>

SendError_Unbuffered ==
    /\ main = "select"
    /\ serve = "failed"
    /\ errChan' = errChan + 1 /\ serve' = "returned"
    /\ UNCHANGED <<main, exit, ctx, reader, consumer, signal, pool, requests, late>>
SendError ==
    /\ main # "down"
    /\ serve = "failed"
    /\ errChan < 1
    /\ errChan' = errChan + 1 /\ serve' = "returned"
    /\ UNCHANGED <<main, exit, ctx, reader, consumer, signal, pool, requests, late>>

ServeReturns ==
    /\ serve = "serving"
    /\ main \in {"drain", "close", "wait"}
    /\ serve' = "returned"
    /\ UNCHANGED <<main, exit, ctx, reader, consumer, errChan, signal, pool, requests, late>>

-----------------------------------------------------------------------------
(* The consumer, as main sees it.                                          *)
ConsumerStep(from, to) ==
    /\ main # "down"
    /\ consumer = from /\ consumer' = to
    /\ UNCHANGED <<main, exit, ctx, reader, serve, errChan, signal, pool, requests, late>>

ConsumerQuery == ctx = "live" /\ Free /\ ConsumerStep("running", "query")
ConsumerQueryEnds == ConsumerStep("query", "running")
ConsumerReturns == ctx = "cancelled" /\ ConsumerStep("running", "returned")

-----------------------------------------------------------------------------
(* A handler: it starts, may use a connection, and replies.  Asking a pool *)
(* that is being closed fails at once.  On a connection made before the    *)
(* listener was closed it may start as long as Shutdown waits for that     *)
(* connection, and even later when Shutdown has given up.                  *)
Handler(r, from, to) ==
    /\ main # "down"
    /\ requests[r] = from
    /\ requests' = [requests EXCEPT ![r] = to]
    /\ UNCHANGED <<main, exit, ctx, reader, consumer, serve, errChan, signal, pool, late>>

Accept(r) ==
    /\ \/ main \in Listening \union {"drain"}
       \/ late /\ main \in Stopped
    /\ Handler(r, "none", "running")
Query(r) == Free /\ Handler(r, "running", "query")
QueryEnds(r) == Handler(r, "query", "replying")
CacheHit(r) == Handler(r, "running", "replying")
QueryFails(r) == pool # "open" /\ Handler(r, "running", "replying")
Reply(r) == Handler(r, "replying", "done")

-----------------------------------------------------------------------------
(* SIGINT or SIGTERM.  Before signal.Notify it kills the process; sigChan  *)
(* has room for one, and later signals find nobody who reads it.           *)
Signal ==
    /\ main # "down"
    /\ IF main \in Starting
       THEN Gone("killed")
       ELSE /\ signal' = TRUE
            /\ UNCHANGED <<main, exit, ctx, reader, consumer, serve, errChan, pool, requests,
                           late>>

Crash == main # "down" /\ Gone("killed")

(* Somebody starts the service again: docker after a failure (restart:     *)
(* on-failure), an operator otherwise.                                     *)
Restart ==
    /\ main = "down"
    /\ main' = "connect" /\ exit' = "none"
    /\ ctx' = "live" /\ reader' = "open"
    /\ consumer' = "none" /\ serve' = "none"
    /\ errChan' = 0 /\ signal' = FALSE
    /\ pool' = "none"
    /\ requests' = [r \in Request |-> "none"]
    /\ late' = FALSE

-----------------------------------------------------------------------------
Main ==
    \/ Connect \/ ConnectFails \/ StartConsumer \/ Listen \/ ListenFails \/ Notify
    \/ Select \/ Shutdown \/ Drained \/ DrainTimeout \/ Close \/ Wait \/ Finish

Server == ServeFails \/ SendError \/ ServeReturns

ConsumerSteps == ConsumerQuery \/ ConsumerQueryEnds \/ ConsumerReturns

Serving(r) ==
    Query(r) \/ QueryEnds(r) \/ CacheHit(r) \/ QueryFails(r) \/ Reply(r)

Next ==
    \/ Main \/ Server \/ ConsumerSteps
    \/ \E r \in Request : Accept(r) \/ Serving(r)
    \/ Signal \/ Crash \/ Restart

Spec == Init /\ [][Next]_vars

(* main and its goroutines run, a query ends - by itself, or because the   *)
(* context of the request or of the consumer does - and a handler goes on. *)
Fairness ==
    /\ WF_vars(Main)
    /\ WF_vars(SendError) /\ WF_vars(ServeReturns)
    /\ WF_vars(ConsumerQueryEnds) /\ WF_vars(ConsumerReturns)
    /\ \A r \in Request : WF_vars(QueryEnds(r))

FairSpec == Spec /\ Fairness

-----------------------------------------------------------------------------
(* Every variable has values of its kind.                                  *)
TypeOK ==
    /\ main \in Starting \union Listening \union Stopped \union {"drain", "down"}
    /\ exit \in {"none", "ok", "error", "killed"}
    /\ ctx \in {"live", "cancelled"} /\ reader \in {"open", "closed"}
    /\ consumer \in {"none", "running", "query", "returned"}
    /\ serve \in {"none", "serving", "failed", "returned"}
    /\ errChan \in 0 .. 1 /\ signal \in BOOLEAN /\ late \in BOOLEAN
    /\ pool \in {"none", "open", "closing"}
    /\ requests \in [Request -> Active \union {"none", "done"}]

(* The pool is closed under nobody, and the process does not end in order  *)
(* before they are done: not the consumer, and a handler only if Shutdown  *)
(* gave up waiting for it (main.go:60, 143, 157).                          *)
PoolOutlivesUsers ==
    pool = "closing" =>
        /\ consumer = "returned"
        /\ Unfinished # {} => late

(* A signal the process has asked for, or an HTTP server that fails, ends  *)
(* it: nobody main waits for waits for main, whatever happens first.       *)
StopCompletes == signal \/ serve = "failed" \/ ctx = "cancelled" ~> main = "down"

HostView ==
    IF main = "down" /\ exit = "ok"
    THEN [goroutine |-> "returned", ctx |-> "ended", reader |-> "closed"]
    ELSE IF main = "down"
    THEN [goroutine |-> "dead", ctx |-> "dead", reader |-> "dead"]
    ELSE [goroutine |-> IF consumer = "query" THEN "running" ELSE consumer,
          ctx |-> ctx, reader |-> reader]

Host == INSTANCE ConsumerHost WITH host <- HostView

(* main treats the consumer as Consumer assumes (its Cancel, Close, Exit,  *)
(* Crash and Restart): it cancels before it closes and ends in order only  *)
(* after the goroutine has returned; a port that cannot be bound and a     *)
(* signal that comes too early are crashes.                                *)
RefinesConsumerHost == Host!Spec
=============================================================================
