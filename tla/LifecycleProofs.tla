-------------------------- MODULE LifecycleProofs ---------------------------
(***************************************************************************)
(* Proofs about Lifecycle, for any number of requests and connections.     *)
(***************************************************************************)
EXTENDS Lifecycle, FiniteSetTheorems, TLAPS

-----------------------------------------------------------------------------
(* The inductive invariant: what main has done to the consumer, its        *)
(* context and the pool at each of its places.                             *)

Before == Starting \union {"select"}
After == {"stop", "drain"} \union Stopped

Places ==
    /\ main = "down" <=> exit # "none"
    /\ main \in Before => ctx = "live"
    /\ main \in After => ctx = "cancelled"
    /\ main \in {"wait", "release"} => reader = "closed"
    /\ main \in Before \union {"stop", "drain", "close"} => reader = "open"

ConsumerPlaces ==
    /\ main \in {"connect", "fill"} => consumer = "none"
    /\ main \in {"listen", "notify", "select"} \union After => consumer # "none"
    /\ consumer = "returned" => ctx = "cancelled"
    /\ main = "release" => consumer = "returned"

PoolPlaces ==
    /\ pool = "closing" => main \in {"release", "down"} /\ consumer = "returned"
    /\ main \in Stopped \/ pool = "closing" => Unfinished = {} \/ late

LInv == TypeOK /\ Places /\ ConsumerPlaces /\ PoolPlaces

-----------------------------------------------------------------------------
LEMMA LifeInit == Init => LInv
<1> SUFFICES ASSUME Init PROVE LInv
  OBVIOUS
<1>1. TypeOK
  <2>1. requests \in [Request -> Active \union {"none", "done"}]
    BY DEF Init
  <2>2. signal \in BOOLEAN /\ late \in BOOLEAN
    BY DEF Init
  <2>3. errChan \in 0 .. 1
    BY DEF Init
  <2> QED BY <2>1, <2>2, <2>3 DEF Init, TypeOK, Starting
<1>2. Places /\ ConsumerPlaces /\ PoolPlaces
  BY DEF Init, Places, ConsumerPlaces, PoolPlaces, Starting, Stopped, Before, After
<1> QED BY <1>1, <1>2 DEF LInv

(* Dying changes nothing but where main is.                                *)
LEMMA GoneStep ==
    ASSUME LInv, NEW how \in {"ok", "error", "killed"}, Gone(how), main # "down",
           how = "ok" => pool = "closing"
    PROVE  LInv'
<1>1. Unfinished' = Unfinished
  BY DEF Gone, Unfinished
<1> QED BY <1>1 DEF LInv, Gone, TypeOK, Places, ConsumerPlaces, PoolPlaces, Starting, Listening,
                    Stopped, Active, Before, After

LEMMA MainStep == LInv /\ Main => LInv'
<1> SUFFICES ASSUME LInv, Main PROVE LInv'
  OBVIOUS
<1> USE DEF LInv, TypeOK, Places, ConsumerPlaces, PoolPlaces, Starting, Listening, Stopped,
            Active, Before, After
<1>1. CASE ConnectFails \/ ListenFails
  BY <1>1, GoneStep DEF ConnectFails, ListenFails
<1>2. CASE Finish
  <2>1. Gone("ok") /\ main # "down"
    BY <1>2 DEF Finish
  <2> QED BY <1>2, <2>1 DEF Finish, Gone, Unfinished
<1>3. CASE requests' = requests /\ ~ (ConnectFails \/ ListenFails \/ Finish)
  <2>1. Unfinished' = Unfinished
    BY <1>3 DEF Unfinished
  <2>2. CASE Connect \/ StartConsumer \/ Listen \/ Notify
    BY <2>1, <2>2 DEF Connect, StartConsumer, Listen, Notify
  <2>3. CASE Shutdown \/ Close
    BY <2>1, <2>3 DEF Shutdown, Close
  <2>5. CASE Select
    <3>1. signal' \in BOOLEAN
      BY <2>5 DEF Select
    <3>2. errChan' \in 0 .. 1
      BY <2>5 DEF Select
    <3> QED BY <2>1, <2>5, <3>1, <3>2 DEF Select
  <2>4. CASE Drained \/ DrainTimeout \/ Wait
    BY <2>1, <2>4 DEF Drained, DrainTimeout, Wait
  <2> QED BY <1>3, <2>2, <2>3, <2>4, <2>5 DEF Main
<1> QED BY <1>1, <1>2, <1>3 DEF Main, Connect, StartConsumer, Listen, Notify, Select, Shutdown,
           Drained, DrainTimeout, Close, Wait

LEMMA GoroutineStep == LInv /\ (Server \/ ConsumerSteps) => LInv'
<1> SUFFICES ASSUME LInv, Server \/ ConsumerSteps PROVE LInv'
  OBVIOUS
<1> USE DEF LInv, TypeOK, Places, ConsumerPlaces, PoolPlaces, Starting, Listening, Stopped,
            Active, Before, After
<1>1. Unfinished' = Unfinished
  BY DEF Unfinished, Server, ServeFails, SendError, ServeReturns, ConsumerSteps, ConsumerQuery,
         ConsumerQueryEnds, ConsumerReturns, ConsumerStep
<1>2. CASE Server
  BY <1>1, <1>2 DEF Server, ServeFails, SendError, ServeReturns
<1>3. CASE ConsumerSteps
  BY <1>1, <1>3 DEF ConsumerSteps, ConsumerQuery, ConsumerQueryEnds, ConsumerReturns,
                    ConsumerStep
<1> QED BY <1>2, <1>3

(* A handler that goes on was unfinished before; one that starts does so   *)
(* before Shutdown is over, or after it has given up.                      *)
LEMMA HandlerStep ==
    ASSUME LInv, NEW r \in Request, Accept(r) \/ Serving(r)
    PROVE  LInv'
<1> USE DEF LInv, TypeOK, Active
<1>1. PICK to \in Active \union {"done"} : requests' = [requests EXCEPT ![r] = to]
  BY DEF Accept, Serving, Query, QueryEnds, CacheHit, QueryFails, Reply, Handler
<1>2. main # "down" /\ UNCHANGED <<main, exit, ctx, reader, consumer, serve, errChan, signal,
                                   pool, late>>
  BY DEF Accept, Serving, Query, QueryEnds, CacheHit, QueryFails, Reply, Handler
<1>3. requests' \in [Request -> Active \union {"none", "done"}]
  BY <1>1
<1>4. Places' /\ ConsumerPlaces'
  BY <1>2 DEF Places, ConsumerPlaces
<1>5. CASE Accept(r)
  BY <1>2, <1>3, <1>4, <1>5 DEF Accept, PoolPlaces, Starting, Listening, Stopped
<1>6. CASE Serving(r)
  <2>1. requests[r] \in Active
    BY <1>6 DEF Serving, Query, QueryEnds, CacheHit, QueryFails, Reply, Handler
  <2>2. Unfinished' # {} => Unfinished # {}
    BY <2>1 DEF Unfinished
  <2> QED BY <1>2, <1>3, <1>4, <2>2 DEF PoolPlaces
<1> QED BY <1>5, <1>6

LEMMA SignalStep == LInv /\ (Signal \/ Crash \/ Restart) => LInv'
<1> SUFFICES ASSUME LInv, Signal \/ Crash \/ Restart PROVE LInv'
  OBVIOUS
<1>1. CASE Crash \/ (Signal /\ main \in Starting)
  BY <1>1, GoneStep DEF Crash, Signal
<1>2. CASE Signal /\ main \notin Starting
  <2>1. Unfinished' = Unfinished
    BY <1>2 DEF Signal, Unfinished
  <2> QED BY <1>2, <2>1 DEF Signal, LInv, TypeOK, Places, ConsumerPlaces, PoolPlaces
<1>3. CASE Restart
  <2>1. TypeOK'
    <3>1. requests' \in [Request -> Active \union {"none", "done"}]
      BY <1>3 DEF Restart
    <3>2. signal' \in BOOLEAN /\ late' \in BOOLEAN
      BY <1>3 DEF Restart
    <3>3. errChan' \in 0 .. 1
      BY <1>3 DEF Restart
    <3> QED BY <1>3, <3>1, <3>2, <3>3 DEF Restart, TypeOK, Starting
  <2>2. Places' /\ ConsumerPlaces' /\ PoolPlaces'
    BY <1>3 DEF Restart, Places, ConsumerPlaces, PoolPlaces, Starting, Stopped, Before, After
  <2> QED BY <2>1, <2>2 DEF LInv
<1> QED BY <1>1, <1>2, <1>3

LEMMA LifeStep == LInv /\ [Next]_vars => LInv'
<1> SUFFICES ASSUME LInv, [Next]_vars PROVE LInv'
  OBVIOUS
<1>1. CASE UNCHANGED vars
  BY <1>1 DEF vars, LInv, TypeOK, Places, ConsumerPlaces, PoolPlaces, Unfinished
<1> QED BY <1>1, MainStep, GoroutineStep, HandlerStep, SignalStep DEF Next

(* What main has done is right at each of its places.                      *)
THEOREM LifeInvariant == Spec => []LInv
<1> QED BY LifeInit, LifeStep, PTL DEF Spec

(* Every variable has values of its kind.                                  *)
THEOREM LifeTypeCorrect == Spec => []TypeOK
<1>1. LInv => TypeOK
  BY DEF LInv
<1> QED BY <1>1, LifeInvariant, PTL

(* The pool outlives the consumer, and the handlers Shutdown waited for.   *)
THEOREM PoolIsClosedLast == Spec => []PoolOutlivesUsers
<1>1. LInv => PoolOutlivesUsers
  BY DEF LInv, PoolPlaces, PoolOutlivesUsers
<1> QED BY <1>1, LifeInvariant, PTL

-----------------------------------------------------------------------------
(* The safety half of a shutdown that ends: whatever main waits for is     *)
(* able to go on.                                                          *)
ServerPlaces ==
    /\ main \in {"connect", "fill", "listen"} => serve = "none"
    /\ main \in {"notify", "select"} \union After => serve # "none"
    /\ errChan > 0 => serve = "returned"

(* The goroutine of the HTTP server finds room for its error, although     *)
(* main takes at most one of signal and error; wg.Wait waits for a         *)
(* consumer whose context is cancelled and whose reader is closed, and for *)
(* a server that returns or has room to send; and when the pool is closed, *)
(* only handlers still use connections (main.go:113-157).                  *)
NobodyHangs ==
    /\ serve = "failed" => errChan = 0
    /\ main = "wait" => /\ ctx = "cancelled" /\ reader = "closed"
                        /\ consumer # "none" /\ serve # "none"
    /\ main = "release" => (InUse > 0 => \E r \in Request : requests[r] = "query")

LEMMA ServerStep == LInv /\ ServerPlaces /\ [Next]_vars => ServerPlaces'
<1> SUFFICES ASSUME LInv, ServerPlaces, [Next]_vars PROVE ServerPlaces'
  OBVIOUS
<1> USE DEF ServerPlaces, Starting, After, Stopped
<1>1. errChan \in 0 .. 1
  BY DEF LInv, TypeOK
<1>2. CASE Main
  <2>1. CASE Select
    BY <1>1, <2>1 DEF Select
  <2>2. CASE Connect \/ StartConsumer \/ Listen \/ Notify
    BY <1>1, <2>2 DEF Connect, StartConsumer, Listen, Notify, LInv, TypeOK
  <2>3. CASE Shutdown \/ Drained \/ DrainTimeout \/ Close \/ Wait
    BY <1>1, <2>3 DEF Shutdown, Drained, DrainTimeout, Close, Wait
  <2>4. CASE ConnectFails \/ ListenFails \/ Finish
    BY <1>1, <2>4 DEF ConnectFails, ListenFails, Finish, Gone
  <2> QED BY <1>2, <2>1, <2>2, <2>3, <2>4 DEF Main
<1>3. CASE Server
  BY <1>1, <1>3 DEF Server, ServeFails, SendError, ServeReturns
<1>4. CASE ConsumerSteps
  BY <1>4 DEF ConsumerSteps, ConsumerQuery, ConsumerQueryEnds, ConsumerReturns, ConsumerStep
<1>5. ASSUME NEW r \in Request, Accept(r) \/ Serving(r) PROVE ServerPlaces'
  BY <1>5 DEF Accept, Serving, Query, QueryEnds, CacheHit, QueryFails, Reply, Handler
<1>6. CASE Signal \/ Crash \/ Restart \/ UNCHANGED vars
  BY <1>6 DEF Signal, Crash, Restart, Gone, vars
<1> QED BY <1>2, <1>3, <1>4, <1>5, <1>6 DEF Next

(* No order of signal, error, timeout and requests leaves main waiting for *)
(* somebody who waits for main.                                            *)
THEOREM ShutdownIsNeverStuck == Spec => []NobodyHangs
<1>1. Init => ServerPlaces
  BY DEF Init, ServerPlaces, After, Stopped
<1>2. LInv /\ ServerPlaces => NobodyHangs
  <2> SUFFICES ASSUME LInv, ServerPlaces PROVE NobodyHangs
    OBVIOUS
  <2>1. serve = "failed" => errChan = 0
    BY DEF LInv, TypeOK, ServerPlaces
  <2>2. main = "wait" => /\ ctx = "cancelled" /\ reader = "closed"
                         /\ consumer # "none" /\ serve # "none"
    BY DEF LInv, Places, ConsumerPlaces, ServerPlaces, After, Stopped
  <2>3. ASSUME main = "release", \A r \in Request : requests[r] # "query" PROVE InUse = 0
    <3>1. {r \in Request : requests[r] = "query"} = {}
      BY <2>3
    <3>2. consumer = "returned"
      BY <2>3 DEF LInv, ConsumerPlaces
    <3> QED BY <3>1, <3>2, FS_EmptySet DEF InUse
  <2> QED BY <2>1, <2>2, <2>3 DEF NobodyHangs
<1> QED BY <1>1, <1>2, ServerStep, LifeInvariant, PTL DEF Spec

-----------------------------------------------------------------------------
(* Refinement of ConsumerHost.                                             *)

LEMMA HostInit == Init => Host!Init
BY DEF Init, Host!Init, HostView, Host!None, Host!Running

(* Dying, in order or not.                                                 *)
LEMMA HostGone ==
    ASSUME LInv, main # "down", NEW how \in {"error", "killed"}, Gone(how)
    PROVE  Host!Die
<1>1. HostView' = Host!Dead
  BY DEF Gone, HostView, Host!Dead, Host!Running
<1>2. HostView.ctx = ctx
  BY DEF HostView
<1>3. HostView # Host!Ended
  BY <1>2 DEF LInv, TypeOK, Host!Ended, Host!Running
<1> QED BY <1>1, <1>3 DEF Host!Die

LEMMA HostStep == LInv /\ [Next]_vars => [Host!Next]_HostView
<1> SUFFICES ASSUME LInv, [Next]_vars PROVE [Host!Next]_HostView
  OBVIOUS
<1> USE DEF Host!Running
<1>1. ASSUME main # "down", main' # "down", UNCHANGED <<ctx, reader>>,
             consumer' = consumer \/ {consumer, consumer'} = {"running", "query"}
      PROVE  UNCHANGED HostView
  BY <1>1 DEF HostView
<1>2. CASE UNCHANGED vars
  BY <1>2 DEF vars, HostView
<1>3. CASE Main
  <2>1. CASE StartConsumer
    BY <2>1 DEF StartConsumer, HostView, Host!Next, Host!Start, Host!None, LInv, Places,
                ConsumerPlaces, Before, Starting
  <2>2. CASE Select
    BY <2>2 DEF Select, HostView, Host!Next, Host!Cancel, LInv, TypeOK, Places, ConsumerPlaces,
                Before
  <2>3. CASE Close
    BY <2>3 DEF Close, HostView, Host!Next, Host!Close, LInv, Places, After, Stopped
  <2>4. CASE Finish
    <3>1. HostView' = Host!Ended
      BY <2>4 DEF Finish, Gone, HostView, Host!Ended
    <3>2. HostView = Host!Running("returned", "cancelled", "closed")
      BY <2>4 DEF Finish, HostView, LInv, Places, ConsumerPlaces, After, Stopped
    <3> QED BY <3>1, <3>2 DEF Host!Next, Host!End
  <2>5. CASE ConnectFails \/ ListenFails
    BY <2>5, HostGone DEF ConnectFails, ListenFails, Host!Next
  <2>6. CASE Connect \/ Listen \/ Notify \/ Shutdown \/ Drained \/ DrainTimeout \/ Wait
    BY <2>6, <1>1 DEF Connect, Listen, Notify, Shutdown, Drained, DrainTimeout, Wait
  <2> QED BY <1>3, <2>1, <2>2, <2>3, <2>4, <2>5, <2>6 DEF Main
<1>4. CASE Server
  BY <1>4, <1>1 DEF Server, ServeFails, SendError, ServeReturns, Listening
<1>5. CASE ConsumerSteps
  <2>1. CASE ConsumerReturns
    BY <2>1 DEF ConsumerReturns, ConsumerStep, HostView, Host!Next, Host!Return
  <2>2. CASE ConsumerQuery \/ ConsumerQueryEnds
    BY <2>2, <1>1 DEF ConsumerQuery, ConsumerQueryEnds, ConsumerStep
  <2> QED BY <1>5, <2>1, <2>2 DEF ConsumerSteps
<1>6. ASSUME NEW r \in Request, Accept(r) \/ Serving(r) PROVE UNCHANGED HostView
  BY <1>6, <1>1 DEF Accept, Serving, Query, QueryEnds, CacheHit, QueryFails, Reply, Handler
<1>7. CASE Crash \/ (Signal /\ main \in Starting)
  BY <1>7, HostGone DEF Crash, Signal, Host!Next
<1>8. CASE Signal /\ main \notin Starting
  BY <1>8, <1>1 DEF Signal
<1>9. CASE Restart
  <2>1. HostView' = Host!None
    BY <1>9 DEF Restart, HostView, Host!None
  <2>2. HostView \in {Host!Ended, Host!Dead}
    BY <1>9 DEF Restart, HostView, Host!Ended, Host!Dead
  <2> QED BY <2>1, <2>2 DEF Host!Next, Host!Restart
<1> QED BY <1>2, <1>3, <1>4, <1>5, <1>6, <1>7, <1>8, <1>9 DEF Next

(* main treats the consumer as Consumer assumes.                           *)
THEOREM ImplementsConsumerHost == Spec => RefinesConsumerHost
<1> QED BY HostInit, HostStep, LifeInvariant, PTL DEF Spec, RefinesConsumerHost, Host!Spec
=============================================================================
