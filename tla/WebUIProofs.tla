---------------------------- MODULE WebUIProofs -----------------------------
(***************************************************************************)
(* Proofs about WebUI, for any page sizes, number of polls, and bounds.    *)
(***************************************************************************)
EXTENDS WebUI, TLAPS

-----------------------------------------------------------------------------
(* The inductive invariant.  One request for the list at a time, as the    *)
(* flag says; its moments and those of the list on the screen are in       *)
(* order; and both are for what the page says, unless a call was dropped.  *)

OneLoad ==
    /\ \A q \in loads : loads = {q}
    /\ ui.loading <=> loads # {}

MomentsOf(q) ==
    /\ q.at \in {"counted", "read"} => shown.read <= q.counted /\ q.counted <= db.moment
    /\ q.at = "read" => q.counted <= q.read /\ q.read <= db.moment

Moments ==
    /\ shown.counted <= shown.read
    /\ shown.read <= db.moment
    /\ \A q \in loads : MomentsOf(q)

Said == "dropped" \notin lost /\ ui.page # NaN

AsSaid ==
    Said => /\ \A q \in loads : q.view = View(ui)
            /\ loads = {} /\ shown.rows => shown.view = View(ui)

WInv == TypeOK /\ OneLoad /\ Moments /\ AsSaid

UI == [page : Nat \union {NaN}, size : Sizes, asc : BOOLEAN,
       total : Nat \union {Undefined}, loading : BOOLEAN, last : Nat \union {NoCount}]

Requests == [at : {"sent", "counted", "read", "error"}, view : ViewType,
             total : Nat, counted : Nat, read : Nat]

-----------------------------------------------------------------------------
LEMMA RequestType ==
    ASSUME NEW u \in UI
    PROVE  /\ View(u) \in ViewType
           /\ Request(u) \in Requests
           /\ Request(u).at = "sent" /\ Request(u).view = View(u)
BY DEF UI, View, ViewType, Request, Requests

LEMMA WebInit == Init => WInv
<1> SUFFICES ASSUME Init PROVE WInv
  OBVIOUS
<1>1. ui \in UI /\ ui.loading
  BY DEF Init, UI, NoCount
<1>2. loads = {Request(ui)} /\ loads \subseteq Requests
  BY <1>1, RequestType DEF Init
<1>3. shown \in [rows : BOOLEAN, view : ViewType, counted : Nat, read : Nat]
  BY <1>1, RequestType DEF Init
<1>4. db \in [count : Nat, moment : Nat]
  BY BoundsAssumption DEF Init
<1>5. polls \in [Poll -> [at : {"none", "sent", "answer"}, count : Nat \union {NoCount}]]
  BY DEF Init, Sent, NotSent, NoCount
<1>6. TypeOK
  BY <1>1, <1>2, <1>3, <1>4, <1>5 DEF Init, TypeOK, UI, Requests
<1>7. OneLoad
  BY <1>1, <1>2 DEF OneLoad
<1>8. Moments
  BY <1>1, <1>2, RequestType DEF Init, Moments, MomentsOf
<1>9. AsSaid
  BY <1>1, <1>2, RequestType DEF Init, AsSaid
<1> QED BY <1>6, <1>7, <1>8, <1>9 DEF WInv

(* Calling loadPage with another page, size, order or last count keeps the *)
(* invariant, whether the call is dropped or not.                          *)
LEMMA LoadPageKeeps ==
    ASSUME WInv, NEW u \in UI, u.loading = ui.loading, LoadPage(u), UNCHANGED <<db, shown>>,
           polls' \in [Poll -> [at : {"none", "sent", "answer"}, count : Nat \union {NoCount}]],
           acts' \in Nat, failures' \in Nat
    PROVE  WInv'
<1>1. CASE ~ u.loading /\ Send(u)
  <2>1. loads = {}
    BY <1>1 DEF WInv, OneLoad
  <2>2. loads' = {Request(u)} /\ lost' = {} /\ ui' = [u EXCEPT !.loading = TRUE]
    BY <1>1, <2>1 DEF Send
  <2>3. ui' \in UI /\ ui'.loading /\ View(ui') = View(u)
    BY <2>2 DEF UI, View
  <2>4. TypeOK'
    BY <2>2, <2>3, RequestType DEF WInv, TypeOK, UI, Requests
  <2>5. OneLoad'
    BY <2>2, <2>3 DEF OneLoad
  <2>6. Moments'
    BY <2>2, RequestType DEF WInv, Moments, MomentsOf
  <2>7. AsSaid'
    BY <2>2, <2>3, RequestType DEF AsSaid
  <2> QED BY <2>4, <2>5, <2>6, <2>7 DEF WInv
<1>2. CASE u.loading /\ ui' = u /\ lost' = lost \union {"dropped"} /\ UNCHANGED loads
  <2>1. TypeOK'
    BY <1>2 DEF WInv, TypeOK, UI
  <2>2. OneLoad' /\ AsSaid' /\ Moments'
    BY <1>2 DEF WInv, OneLoad, AsSaid, Said, Moments, MomentsOf
  <2> QED BY <2>1, <2>2 DEF WInv
<1> QED BY <1>1, <1>2 DEF LoadPage

-----------------------------------------------------------------------------
(* The browser gets an answer, or none.                                    *)
LEMMA AnswerStep ==
    ASSUME WInv, NEW q \in loads, ShowList(q) \/ ShowError(q) \/ LoadFails(q)
    PROVE  WInv'
<1>1. loads = {q} /\ q \in Requests
  BY DEF WInv, OneLoad, TypeOK, Requests
<1>2. loads' = {} /\ UNCHANGED <<db, polls, acts>>
  BY <1>1 DEF ShowList, ShowError, LoadFails, Loaded
<1>3. failures' \in Nat
  BY DEF WInv, TypeOK, ShowList, ShowError, LoadFails, Failure
<1>4. ui' \in UI /\ ~ ui'.loading /\ View(ui') = View(ui) /\ ui'.page = ui.page
  <2>1. ui \in UI /\ q.total \in Nat
    BY <1>1 DEF WInv, TypeOK, UI, Requests
  <2>2. CASE ShowList(q)
    BY <2>1, <2>2 DEF ShowList, UI, View
  <2>3. CASE ShowError(q)
    BY <2>1, <2>3 DEF ShowError, UI, View
  <2>4. CASE LoadFails(q)
    BY <2>1, <2>4 DEF LoadFails, UI, View
  <2> QED BY <2>2, <2>3, <2>4
<1>5. lost' \subseteq {"dropped", "failed", "counted"} /\ lost \subseteq lost'
  BY DEF WInv, TypeOK, ShowList, ShowError, LoadFails
<1>6. OneLoad'
  BY <1>2, <1>4 DEF OneLoad
<1>7. CASE ShowList(q)
  <2>1. shown' = [rows |-> TRUE, view |-> q.view, counted |-> q.counted, read |-> q.read]
    BY <1>7 DEF ShowList
  <2>2. TypeOK'
    BY <1>1, <1>2, <1>3, <1>4, <1>5, <2>1 DEF WInv, TypeOK, UI, Requests
  <2>3. Moments'
    BY <1>2, <1>7, <2>1 DEF WInv, Moments, MomentsOf, ShowList
  <2>4. AsSaid'
    BY <1>2, <1>4, <1>5, <2>1 DEF WInv, AsSaid, Said
  <2> QED BY <1>6, <2>2, <2>3, <2>4 DEF WInv
<1>8. CASE ShowError(q) \/ LoadFails(q)
  <2>1. shown' = [shown EXCEPT !.rows = FALSE]
    BY <1>8 DEF ShowError, LoadFails
  <2>2. TypeOK'
    BY <1>2, <1>3, <1>4, <1>5, <2>1 DEF WInv, TypeOK, UI, Requests
  <2>3. Moments'
    BY <1>2, <2>1 DEF WInv, TypeOK, Moments
  <2>4. AsSaid'
    BY <1>2, <2>1 DEF WInv, TypeOK, AsSaid
  <2> QED BY <1>6, <2>2, <2>3, <2>4 DEF WInv
<1> QED BY <1>7, <1>8

(* The server works on a request for the list.                             *)
LEMMA ListStep ==
    ASSUME WInv, NEW q \in loads, CountOrders(q) \/ ReadPage(q) \/ ListError(q)
    PROVE  WInv'
<1>1. loads = {q} /\ q \in Requests /\ ui.loading
  BY DEF WInv, OneLoad, TypeOK, Requests
<1>2. UNCHANGED <<db, ui, polls, shown, acts>> /\ failures' \in Nat
  BY DEF WInv, TypeOK, CountOrders, ReadPage, ListError, Handle, Failure
<1>3. lost' \subseteq {"dropped", "failed", "counted"} /\ ("dropped" \in lost => "dropped" \in lost')
  BY DEF WInv, TypeOK, CountOrders, ReadPage, ListError
<1>4. SUFFICES ASSUME NEW r \in Requests, loads' = {r}, MomentsOf(r)',
                      Said => r.view = q.view
               PROVE  WInv'
  <2>1. CASE CountOrders(q)
    <3>1. PICK r \in Requests :
              r = [q EXCEPT !.at = "counted", !.total = db.count, !.counted = db.moment]
      BY <1>1 DEF Requests, WInv, TypeOK
    <3>2. loads' = {r} /\ r.view = q.view
      BY <1>1, <2>1, <3>1 DEF CountOrders, Handle, Requests
    <3>3. MomentsOf(r)'
      BY <1>1, <1>2, <3>1 DEF MomentsOf, WInv, Moments, TypeOK, Requests
    <3> QED BY <1>4, <3>1, <3>2, <3>3
  <2>2. CASE ReadPage(q)
    <3>1. PICK r \in Requests :
              r = [q EXCEPT !.at = "read", !.read = db.moment,
                            !.view.page = IF @ = NaN THEN 0 ELSE @]
      BY <1>1 DEF Requests, ViewType, WInv, TypeOK
    <3>2. loads' = {r}
      BY <1>1, <2>2, <3>1 DEF ReadPage, Handle
    <3>3. MomentsOf(r)'
      BY <1>1, <1>2, <2>2, <3>1 DEF MomentsOf, WInv, Moments, TypeOK, Requests, ReadPage
    <3>4. Said => r.view = q.view
      <4>1. Said => q.view.page # NaN
        BY DEF WInv, AsSaid, Said, View
      <4> QED BY <1>1, <3>1, <4>1 DEF Requests, ViewType
    <3> QED BY <1>4, <3>1, <3>2, <3>3, <3>4
  <2>3. CASE ListError(q)
    <3>1. PICK r \in Requests : r = [q EXCEPT !.at = "error"]
      BY <1>1 DEF Requests
    <3>2. loads' = {r} /\ r.view = q.view
      BY <1>1, <2>3, <3>1 DEF ListError, Handle, Requests
    <3>3. MomentsOf(r)'
      BY <1>1, <3>1 DEF MomentsOf, Requests
    <3> QED BY <1>4, <3>1, <3>2, <3>3
  <2> QED BY <2>1, <2>2, <2>3
<1>5. TypeOK'
  BY <1>2, <1>3, <1>4 DEF WInv, TypeOK, Requests
<1>6. OneLoad'
  BY <1>1, <1>2, <1>4 DEF OneLoad
<1>7. Moments'
  BY <1>2, <1>4 DEF WInv, Moments
<1>8. AsSaid'
  BY <1>2, <1>3, <1>4 DEF WInv, AsSaid, Said, View
<1> QED BY <1>5, <1>6, <1>7, <1>8 DEF WInv

-----------------------------------------------------------------------------
(* The statistics.                                                         *)
LEMMA StatsStep ==
    ASSUME WInv, NEW i \in Poll,
           PollStats(i) \/ CountStats(i) \/ StatsError(i) \/ StatsAnswer(i) \/ StatsFails(i)
    PROVE  WInv'
<1> DEFINE Polls == [Poll -> [at : {"none", "sent", "answer"}, count : Nat \union {NoCount}]]
<1>1. polls \in Polls /\ db.count \in Nat
  BY DEF WInv, TypeOK
<1>2. polls' \in Polls
  BY <1>1 DEF PollStats, CountStats, StatsError, StatsAnswer, StatsFails, Sent, NotSent, NoCount
<1>3. acts' \in Nat /\ failures' \in Nat /\ UNCHANGED <<db, shown>>
  BY DEF WInv, TypeOK, PollStats, CountStats, StatsError, StatsAnswer, StatsFails, Failure
<1>4. CASE UNCHANGED <<ui, loads, lost>>
  BY <1>2, <1>3, <1>4 DEF WInv, TypeOK, OneLoad, Moments, MomentsOf, AsSaid, Said, View
<1>5. CASE StatsAnswer(i) /\ polls[i].count # ui.last
  <2> DEFINE u == [ui EXCEPT !.last = polls[i].count]
  <2>1. u \in UI /\ u.loading = ui.loading
    BY <1>1 DEF WInv, TypeOK, UI
  <2>2. LoadPage(u)
    BY <1>5 DEF StatsAnswer
  <2> HIDE DEF u
  <2> QED BY <1>2, <1>3, <2>1, <2>2, LoadPageKeeps
<1> QED BY <1>4, <1>5 DEF PollStats, CountStats, StatsError, StatsAnswer, StatsFails

-----------------------------------------------------------------------------
(* The user.                                                               *)
LEMMA MaxPageType == WInv => maxPage \in Nat \union {NaN}
<1> SUFFICES ASSUME WInv PROVE maxPage \in Nat \union {NaN}
  OBVIOUS
<1>1. ui.total \in Nat \union {Undefined} /\ ui.size \in Nat \ {0}
  BY SizesAssumption DEF WInv, TypeOK
<1>2. ui.total \in Nat /\ ui.total # 0 => (ui.total - 1) \div ui.size \in Nat
  BY <1>1
<1> QED BY <1>1, <1>2 DEF maxPage, Undefined

LEMMA ClampedType ==
    ASSUME WInv, NEW p \in Int
    PROVE  Clamped(p) \in Nat \union {NaN}
BY MaxPageType DEF Clamped, NaN

LEMMA UserStep == WInv /\ (UserActs \/ OrderShown) => WInv'
<1> SUFFICES ASSUME WInv, UserActs \/ OrderShown PROVE WInv'
  OBVIOUS
<1> DEFINE Polls == [Poll -> [at : {"none", "sent", "answer"}, count : Nat \union {NoCount}]]
<1>1. polls' \in Polls
  BY DEF WInv, TypeOK, UserActs, OrderShown, Sent, NoCount
<1>2. acts' \in Nat /\ failures' \in Nat /\ UNCHANGED <<db, shown>>
  BY DEF WInv, TypeOK, UserActs, OrderShown, Act
<1>3. ui \in UI
  BY DEF WInv, TypeOK, UI
<1>4. ASSUME UNCHANGED <<ui, loads, lost>> PROVE WInv'
  BY <1>1, <1>2, <1>4 DEF WInv, TypeOK, OneLoad, Moments, MomentsOf, AsSaid, Said, View
<1>5. ASSUME NEW u \in UI, u.loading = ui.loading, LoadPage(u) PROVE WInv'
  BY <1>1, <1>2, <1>5, LoadPageKeeps
<1>6. ASSUME NEW p \in Int, goPage(p) PROVE WInv'
  <2> DEFINE u == [ui EXCEPT !.page = Clamped(p)]
  <2>1. u \in UI /\ u.loading = ui.loading
    BY <1>3, ClampedType DEF UI
  <2>2. LoadPage(u) \/ UNCHANGED <<ui, loads, lost>>
    BY <1>6 DEF goPage
  <2> HIDE DEF u
  <2> QED BY <1>4, <1>5, <2>1, <2>2
<1>7. CASE Scroll
  <2>1. PICK p \in Int : goPage(p)
    BY <1>3, <1>7 DEF Scroll, UI, NaN
  <2> QED BY <1>6, <2>1
<1>8. CASE Jump
  <2>1. PICK p \in Int : goPage(p)
    BY <1>8, MaxPageType DEF Jump, NaN
  <2> QED BY <1>6, <2>1
<1>9. CASE toggleSort
  <2> DEFINE u == [ui EXCEPT !.asc = ~ @, !.page = 0]
  <2>1. u \in UI /\ u.loading = ui.loading
    BY <1>3 DEF UI
  <2> QED BY <1>5, <1>9, <2>1 DEF toggleSort
<1>10. CASE Resize
  <2>1. PICK s \in Sizes : LoadPage([ui EXCEPT !.size = s, !.page = 0])
    BY <1>10 DEF Resize
  <2>2. /\ [ui EXCEPT !.size = s, !.page = 0] \in UI
        /\ [ui EXCEPT !.size = s, !.page = 0].loading = ui.loading
    BY <1>3 DEF UI
  <2> QED BY <1>5, <2>1, <2>2
<1>11. CASE refreshList \/ OrderShown
  BY <1>3, <1>5, <1>11 DEF refreshList, OrderShown
<1> QED BY <1>7, <1>8, <1>9, <1>10, <1>11 DEF UserActs

-----------------------------------------------------------------------------
LEMMA DbStep == WInv /\ DbChanges => WInv'
<1> SUFFICES ASSUME WInv, DbChanges PROVE WInv'
  OBVIOUS
<1>1. db' \in [count : Nat, moment : Nat] /\ db'.moment = db.moment + 1
  BY DEF WInv, TypeOK, DbChanges
<1>2. UNCHANGED <<ui, loads, polls, shown, lost, acts, failures>>
  BY DEF DbChanges
<1>3. TypeOK' /\ OneLoad' /\ AsSaid'
  BY <1>1, <1>2 DEF WInv, TypeOK, OneLoad, AsSaid, Said, View
<1>4. Moments'
  BY <1>1, <1>2 DEF WInv, TypeOK, Moments, MomentsOf
<1> QED BY <1>3, <1>4 DEF WInv

LEMMA WebStep == WInv /\ [Next]_vars => WInv'
<1> SUFFICES ASSUME WInv, [Next]_vars PROVE WInv'
  OBVIOUS
<1>1. CASE UNCHANGED vars
  BY <1>1 DEF vars, WInv, TypeOK, OneLoad, Moments, MomentsOf, AsSaid, Said, View
<1>2. CASE \E q \in loads : Listing(q) \/ ListError(q) \/ LoadFails(q)
  BY <1>2, AnswerStep, ListStep DEF Listing
<1> QED BY <1>1, <1>2, StatsStep, UserStep, DbStep DEF Next

(* One request for the list at a time, its moments in order.               *)
THEOREM WebInvariant == Spec => []WInv
<1> QED BY WebInit, WebStep, PTL DEF Spec

(* Every variable has values of its kind.                                  *)
THEOREM WebTypeCorrect == Spec => []TypeOK
<1>1. WInv => TypeOK
  BY DEF WInv
<1> QED BY <1>1, WebInvariant, PTL

(* The rows on the screen are those the page speaks of.                    *)
THEOREM RowsAreAsSaid == Spec => []ShownAsSaid
<1>1. WInv => ShownAsSaid
  BY DEF WInv, AsSaid, Said, OneLoad, ShownAsSaid
<1> QED BY <1>1, WebInvariant, PTL

(* Only the answer to a request changes the rows on the screen.            *)
LEMMA ShownStep ==
    ASSUME WInv, Next, shown' # shown, shown'.rows
    PROVE  shown'.counted >= shown.read
<1>1. PICK q \in loads : ShowList(q) \/ ShowError(q) \/ LoadFails(q)
  BY DEF Next, Listing, CountOrders, ReadPage, ListError, Handle, PollStats, CountStats,
         StatsError, StatsAnswer, StatsFails, UserActs, OrderShown, DbChanges
<1>2. ShowList(q)
  BY <1>1 DEF ShowError, LoadFails, WInv, TypeOK
<1>3. shown.read <= q.counted /\ shown'.counted = q.counted
  BY <1>2 DEF ShowList, WInv, Moments, MomentsOf
<1>4. shown.read \in Nat /\ q.counted \in Nat
  BY DEF WInv, TypeOK
<1> QED BY <1>3, <1>4

(* A list never gives way to an older one.                                 *)
THEOREM ListsNeverGoBack == Spec => NeverOlder
<1>1. WInv /\ [Next]_vars => [shown' # shown /\ shown'.rows => shown'.counted >= shown.read]_vars
  BY ShownStep
<1> QED BY <1>1, WebInvariant, PTL DEF Spec, NeverOlder
=============================================================================
