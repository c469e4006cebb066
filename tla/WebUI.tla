------------------------------- MODULE WebUI --------------------------------
(***************************************************************************)
(* The page of the service, web/index.html, and the two endpoints it polls *)
(* and pages through: GET /stats and GET /orders.                          *)
(*                                                                         *)
(* The page has one thread, but every fetch is awaited, and anything may   *)
(* happen meanwhile: the user scrolls, sorts, resizes or opens an order,   *)
(* the next poll is due, an older answer arrives.  The server counts the   *)
(* orders and reads a page of them in two queries.  Rows are not spelled   *)
(* out: which rows a list has follows from its view (page, page size and   *)
(* order) and the moment they were read.                                   *)
(***************************************************************************)
EXTENDS Integers, FiniteSets

CONSTANTS
    Poll,           \* bound: requests for the statistics at a time
    Sizes,          \* page sizes, at most the server's maxPageLimit
    Present,        \* orders in the database when the page is opened
    MaxOrders,      \* bound: orders in the database
    MaxChanges,     \* bound: inserts and deletes
    MaxActs,        \* bound: what the user does
    MaxFailures     \* bound: requests that fail

ASSUME PollAssumption == IsFiniteSet(Poll) /\ Poll # {}
ASSUME SizesAssumption == Sizes \subseteq Nat \ {0} /\ Sizes # {}
ASSUME BoundsAssumption ==
    /\ Present \in Nat /\ MaxOrders \in Nat /\ MaxChanges \in Nat
    /\ MaxActs \in Nat /\ MaxFailures \in Nat

VARIABLES
    db,         \* the number of orders, and of changes so far: the moment
    ui,         \* state of the page
    loads,      \* requests for the list
    polls,      \* requests for the statistics
    shown,      \* the list on the screen
    lost,       \* why what is shown may be out of date, if it may
    acts, failures

vars == <<db, ui, loads, polls, shown, lost, acts, failures>>

-----------------------------------------------------------------------------
(* JavaScript's undefined, for a total that an answer did not have, and    *)
(* NaN, for a page number computed from it.  The last is no legal argument *)
(* of goPage otherwise; scrolling up on page 0 asks for -1.                *)
Undefined == -1
NaN == -2

(* db_count of an answer whose count failed, and before the first answer.  *)
NoCount == -1

View(u) == [page |-> u.page, size |-> u.size, asc |-> u.asc]

NotSent == [at |-> "none", count |-> NoCount]
Sent == [at |-> "sent", count |-> NoCount]

FreePolls == {i \in Poll : polls[i].at = "none"}

Request(u) == [at |-> "sent", view |-> View(u), total |-> 0, counted |-> 0, read |-> 0]

(* The page has been loaded: loadStats() and loadPage() are on their way.  *)
Init ==
    /\ db = [count |-> Present, moment |-> 0]
    /\ \E s \in Sizes :
           ui = [page |-> 0, size |-> s, asc |-> TRUE, total |-> 0, loading |-> TRUE,
                 last |-> NoCount]
    /\ loads = {Request(ui)}
    /\ \E i \in Poll : polls = [j \in Poll |-> IF j = i THEN Sent ELSE NotSent]
    /\ shown = [rows |-> FALSE, view |-> View(ui), counted |-> 0, read |-> 0]
    /\ lost = {}
    /\ acts = 0 /\ failures = 0

-----------------------------------------------------------------------------
(* loadPage, called with the page in state u: dropped while a page is      *)
(* loading, else a request for what u says.                                *)
Send(u) ==
    /\ ui' = [u EXCEPT !.loading = TRUE]
    /\ loads' = loads \union {Request(u)}
    /\ lost' = {}

LoadPage_Always(u) == Send(u)
LoadPage(u) ==
    \/ ~ u.loading /\ Send(u)
    \/ u.loading /\ ui' = u /\ lost' = lost \union {"dropped"} /\ UNCHANGED loads

(* The answer is shown; an answer without a total is shown as no rows; a   *)
(* request that fails leaves the total as it is.                           *)
Loaded(q) == loads' = loads \ {q} /\ UNCHANGED <<db, polls, acts>>

ShowList(q) ==
    /\ q.at = "read"
    /\ ui' = [ui EXCEPT !.total = q.total, !.loading = FALSE]
    /\ shown' = [rows |-> TRUE, view |-> q.view, counted |-> q.counted, read |-> q.read]
    /\ Loaded(q)
    /\ UNCHANGED <<lost, failures>>

ShowError(q) ==
    /\ q.at = "error"
    /\ ui' = [ui EXCEPT !.total = Undefined, !.loading = FALSE]
    /\ shown' = [shown EXCEPT !.rows = FALSE]
    /\ lost' = lost \union {"failed"}
    /\ Loaded(q)
    /\ UNCHANGED failures

Failure == failures < MaxFailures /\ failures' = failures + 1

LoadFails(q) ==
    /\ Failure
    /\ ui' = [ui EXCEPT !.loading = FALSE]
    /\ shown' = [shown EXCEPT !.rows = FALSE]
    /\ lost' = lost \union {"failed"}
    /\ Loaded(q)

-----------------------------------------------------------------------------
(* getOrderList: GetOrderUIDs counts the orders and reads the page later.  *)
(* An offset that is no number is ignored.                                 *)
Handle(q, r) ==
    /\ loads' = (loads \ {q}) \union {r}
    /\ UNCHANGED <<db, ui, polls, shown, acts>>

CountOrders(q) ==
    /\ q.at = "sent"
    /\ Handle(q, [q EXCEPT !.at = "counted", !.total = db.count, !.counted = db.moment])
    /\ lost' = IF db.count = ui.last THEN lost ELSE lost \union {"counted"}
    /\ UNCHANGED failures

ReadPage(q) ==
    /\ q.at = "counted"
    /\ Handle(q, [q EXCEPT !.at = "read", !.read = db.moment,
                           !.view.page = IF @ = NaN THEN 0 ELSE @])
    /\ UNCHANGED <<lost, failures>>

ListError(q) ==
    /\ q.at \in {"sent", "counted"}
    /\ Failure
    /\ Handle(q, [q EXCEPT !.at = "error"])
    /\ UNCHANGED lost

-----------------------------------------------------------------------------
(* loadStats, every five seconds and after an order has been shown, however*)
(* many are on their way; getStats, which answers -1 when it cannot count; *)
(* and the answer, which refreshes the list when the count has changed.    *)
PollStats(i) ==
    /\ i \in FreePolls
    /\ polls' = [polls EXCEPT ![i] = Sent]
    /\ UNCHANGED <<db, ui, loads, shown, lost, acts, failures>>

CountStats(i) ==
    /\ polls[i].at = "sent"
    /\ polls' = [polls EXCEPT ![i] = [at |-> "answer", count |-> db.count]]
    /\ UNCHANGED <<db, ui, loads, shown, lost, acts, failures>>

StatsError(i) ==
    /\ polls[i].at = "sent"
    /\ Failure
    /\ polls' = [polls EXCEPT ![i] = [at |-> "answer", count |-> NoCount]]
    /\ UNCHANGED <<db, ui, loads, shown, lost, acts>>

StatsAnswer_GrowthOnly(i) ==
    /\ polls[i].at = "answer"
    /\ polls' = [polls EXCEPT ![i] = NotSent]
    /\ IF polls[i].count > ui.last
       THEN LoadPage([ui EXCEPT !.last = polls[i].count])
       ELSE UNCHANGED <<ui, loads, lost>>
    /\ UNCHANGED <<db, shown, acts, failures>>
StatsAnswer(i) ==
    /\ polls[i].at = "answer"
    /\ polls' = [polls EXCEPT ![i] = NotSent]
    /\ IF polls[i].count # ui.last
       THEN LoadPage([ui EXCEPT !.last = polls[i].count])
       ELSE UNCHANGED <<ui, loads, lost>>
    /\ UNCHANGED <<db, shown, acts, failures>>

StatsFails(i) ==
    /\ polls[i].at # "none"
    /\ Failure
    /\ polls' = [polls EXCEPT ![i] = NotSent]
    /\ UNCHANGED <<db, ui, loads, shown, lost, acts>>

-----------------------------------------------------------------------------
(* The user.                                                               *)
Act == acts < MaxActs /\ acts' = acts + 1

maxPage ==
    IF ui.total = Undefined THEN NaN
    ELSE IF ui.total = 0 THEN 0 ELSE (ui.total - 1) \div ui.size

Clamped(p) ==
    IF NaN \in {p, maxPage} THEN NaN
    ELSE IF p < 0 THEN 0 ELSE IF p < maxPage THEN p ELSE maxPage

goPage_LoadsFirst(p) ==
    IF Clamped(p) = ui.page /\ p # NaN /\ ui.total > 0
    THEN UNCHANGED <<ui, loads, lost>>
    ELSE /\ ~ ui.loading
         /\ loads' = loads \union {Request(ui)}
         /\ ui' = [ui EXCEPT !.page = Clamped(p), !.loading = TRUE]
         /\ lost' = {}
goPage(p) ==
    IF Clamped(p) = ui.page /\ ui.page # NaN /\ ui.total > 0
    THEN UNCHANGED <<ui, loads, lost>>
    ELSE LoadPage([ui EXCEPT !.page = Clamped(p)])

(* The wheel is ignored while a page is loading; the scrollbar is not, and *)
(* dragging starts from the page number, whatever it is.                   *)
Scroll ==
    /\ ~ ui.loading
    /\ \E d \in {-1, 1} : goPage(IF ui.page = NaN THEN NaN ELSE ui.page + d)

Jump ==
    \/ maxPage # NaN /\ \E p \in 0 .. maxPage : goPage(p)
    \/ NaN \in {maxPage, ui.page} /\ goPage(NaN)

toggleSort == LoadPage([ui EXCEPT !.asc = ~ @, !.page = 0])

Resize ==
    \E s \in Sizes \ {ui.size} : LoadPage([ui EXCEPT !.size = s, !.page = 0])

refreshList == LoadPage(ui)

UserActs ==
    /\ Act
    /\ Scroll \/ Jump \/ toggleSort \/ Resize \/ refreshList
    /\ UNCHANGED <<db, polls, shown, failures>>

(* fetchOrder: an order that is shown refreshes the list and the counts.   *)
OrderShown ==
    /\ Act
    /\ LoadPage(ui)
    /\ \E i \in FreePolls : polls' = [polls EXCEPT ![i] = Sent]
    /\ UNCHANGED <<db, shown, failures>>

-----------------------------------------------------------------------------
(* Consumer and DELETE requests insert and remove orders.                  *)
DbChanges ==
    /\ db.moment < MaxChanges
    /\ \E n \in {db.count - 1, db.count + 1} \intersect 0 .. MaxOrders :
           db' = [count |-> n, moment |-> db.moment + 1]
    /\ UNCHANGED <<ui, loads, polls, shown, lost, acts, failures>>

Listing(q) == CountOrders(q) \/ ReadPage(q) \/ ShowList(q) \/ ShowError(q)

Next ==
    \/ \E q \in loads : Listing(q) \/ ListError(q) \/ LoadFails(q)
    \/ \E i \in Poll :
           PollStats(i) \/ CountStats(i) \/ StatsError(i) \/ StatsAnswer(i) \/ StatsFails(i)
    \/ UserActs \/ OrderShown
    \/ DbChanges

Spec == Init /\ [][Next]_vars

(* The interval fires again and again, and requests are answered.          *)
Fairness ==
    /\ WF_vars(\E q \in loads : Listing(q))
    /\ \A i \in Poll :
           WF_vars(PollStats(i)) /\ WF_vars(CountStats(i)) /\ WF_vars(StatsAnswer(i))

FairSpec == Spec /\ Fairness

-----------------------------------------------------------------------------
(* Every variable has values of its kind.                                  *)
ViewType == [page : Nat \union {NaN}, size : Sizes, asc : BOOLEAN]

TypeOK ==
    /\ db \in [count : Nat, moment : Nat]
    /\ ui \in [page : Nat \union {NaN}, size : Sizes, asc : BOOLEAN,
               total : Nat \union {Undefined}, loading : BOOLEAN, last : Nat \union {NoCount}]
    /\ loads \subseteq [at : {"sent", "counted", "read", "error"}, view : ViewType,
                        total : Nat, counted : Nat, read : Nat]
    /\ polls \in [Poll -> [at : {"none", "sent", "answer"}, count : Nat \union {NoCount}]]
    /\ shown \in [rows : BOOLEAN, view : ViewType, counted : Nat, read : Nat]
    /\ lost \subseteq {"dropped", "failed", "counted"}
    /\ acts \in Nat /\ failures \in Nat

(* A list never gives way to an older one: what it shows was counted no    *)
(* earlier than the rows it replaces were read, however requests, polls    *)
(* and the user overlap (index.html:434, postgres.go:383).                 *)
NeverOlder ==
    [][shown' # shown /\ shown'.rows => shown'.counted >= shown.read]_vars

(* The rows on the screen are those of the page, the page size and the     *)
(* order that the range text and the sort button speak of, unless a call   *)
(* of loadPage was dropped since they were asked for, or an error has left *)
(* the page without a number (index.html:399, 433, 527).                   *)
ShownAsSaid ==
    ~ ui.loading /\ shown.rows /\ "dropped" \notin lost /\ ui.page # NaN
        => shown.view = View(ui)

(* Once the database rests, the total shown is the number of orders in it, *)
(* or the refresh that would have shown it was lost: dropped because a page*)
(* was loading, failed, or asked for because of a count that was not the   *)
(* one it found (index.html:423).                                          *)
CatchesUp == <>[](ui.total = db.count \/ lost # {})
=============================================================================
