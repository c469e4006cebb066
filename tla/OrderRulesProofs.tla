-------------------------- MODULE OrderRulesProofs --------------------------
(***************************************************************************)
(* Proofs about OrderRules, for all widths of which one holds a hundred    *)
(* times the other, all values the generator may draw and all orders of    *)
(* other producers.                                                        *)
(***************************************************************************)
EXTENDS OrderRules, SequenceTheorems, WellFoundedInduction, TLAPS

-----------------------------------------------------------------------------
(* A number within the width of an int is kept.                            *)
LEMMA WrapKeeps ==
    ASSUME NEW x \in Int, x >= -Wide, x < Wide
    PROVE  Wrap(x) = x
<1>1. Wide \in Nat \ {0}
  BY WidthAssumption
<1>2. x + Wide \in 0 .. 2 * Wide - 1
  BY <1>1
<1>3. (x + Wide) % (2 * Wide) = x + Wide
  BY <1>1, <1>2
<1> QED BY <1>1, <1>3 DEF Wrap

LEMMA WrapInt ==
    ASSUME NEW x \in Int
    PROVE  Wrap(x) \in Int
<1>1. 2 * Wide \in Nat \ {0} /\ Wide \in Nat
  BY WidthAssumption
<1>2. (x + Wide) % (2 * Wide) \in Int
  BY <1>1
<1> QED BY <1>1, <1>2 DEF Wrap

LEMMA DiscountedInt ==
    ASSUME NEW p \in Int, NEW s \in Int
    PROVE  Discounted(p, s) \in Int
<1>1. Wrap(p * s) \in Int
  BY WrapInt
<1>2. Quotient(Wrap(p * s), 100) \in Int
  BY <1>1 DEF Quotient
<1> QED BY <1>2, WrapInt DEF Discounted

(* A discount of at most a hundred percent is between zero and the price.  *)
LEMMA DiscountRange ==
    ASSUME NEW p \in Nat, NEW s \in 0 .. 100
    PROVE  /\ p * s \in 0 .. 100 * p
           /\ (p * s) \div 100 \in 0 .. p
<1>1. p * s \in Int /\ p * (100 - s) \in Int /\ p * s >= 0 /\ p * (100 - s) >= 0
  BY SMT
<1>2. p * (100 - s) = 100 * p - p * s
  BY SMT
<1> DEFINE q == p * s
<1>3. q \in Int /\ 0 <= q /\ q <= 100 * p
  BY <1>1, <1>2
<1> HIDE DEF q
<1>4. q \div 100 \in 0 .. p
  BY <1>3
<1> QED BY <1>3, <1>4 DEF q

(* The price of an item that fits its column, discounted as Validate does  *)
(* it in wrapping arithmetic, is the true one.                             *)
LEMMA DiscountedExact ==
    ASSUME NEW p \in Nat, p < Narrow, NEW s \in 0 .. 100
    PROVE  /\ Discounted(p, s) = p - (p * s) \div 100
           /\ Discounted(p, s) \in 0 .. p
<1>0. Narrow \in Nat \ {0} /\ Wide \in Nat /\ 100 * Narrow <= Wide
  BY WidthAssumption
<1> DEFINE q == p * s
           r == q \div 100
<1>1. q \in 0 .. 100 * p /\ r \in 0 .. p
  BY DiscountRange
<1> HIDE DEF q, r
<1>2. q < Wide /\ p - r < Wide
  BY <1>0, <1>1
<1>3. Wrap(q) = q
  BY <1>0, <1>1, <1>2, WrapKeeps
<1>4. Quotient(q, 100) = r
  BY <1>1 DEF Quotient, r
<1>5. Wrap(p - r) = p - r
  BY <1>0, <1>1, <1>2, WrapKeeps
<1>6. Discounted(p, s) = p - r
  BY <1>3, <1>4, <1>5 DEF Discounted, q
<1> QED BY <1>1, <1>6 DEF q, r

-----------------------------------------------------------------------------
(* Induction over the natural numbers, from the library's theorem that a   *)
(* well-founded relation has minimal elements: what holds of a number is   *)
(* given as the set of numbers it holds of.                                *)
LEMMA LeastNumber ==
    ASSUME NEW S \in SUBSET Nat, S # {}
    PROVE  \E n \in S : \A m \in S : n <= m
<1> DEFINE R == OpToRel(<, Nat)
<1>1. IsWellFoundedOn(R, Nat)
  BY NatLessThanWellFounded
<1>2. R = {ss \in Nat \X Nat : ss[1] < ss[2]}
  BY Zenon DEF OpToRel
<1> HIDE DEF R
<1>3. PICK n \in S : \A m \in S : ~ (<<m, n>> \in R)
  BY <1>1, WFMin
<1>4. \A m \in S : <<m, n>> \in R <=> m < n
  BY <1>2
<1>5. ASSUME NEW m \in S PROVE n <= m
  <2>1. ~ (m < n)
    BY <1>3, <1>4
  <2>2. m \in Nat /\ n \in Nat
    OBVIOUS
  <2> QED BY <2>1, <2>2
<1> QED BY <1>5

LEMMA Induction ==
    ASSUME NEW S, 0 \in S, \A n \in Nat : n \in S => n + 1 \in S
    PROVE  Nat \subseteq S
<1> SUFFICES ASSUME Nat \ S # {} PROVE FALSE
  OBVIOUS
<1>1. PICK n \in Nat \ S : \A m \in Nat \ S : n <= m
  BY LeastNumber
<1>2. n # 0 /\ n - 1 \in Nat
  BY <1>1
<1>3. n - 1 \in S
  BY <1>1, <1>2
<1>4. (n - 1) + 1 = n
  BY <1>1
<1> QED BY <1>1, <1>2, <1>3, <1>4

LEMMA Products ==
    ASSUME NEW m \in Nat
    PROVE  /\ \A k \in Nat : k * m \in Nat /\ (k + 1) * m = k * m + m
           /\ \A j, k \in Nat : j <= k => j * m <= k * m
<1>1. ASSUME NEW k \in Nat PROVE k * m \in Nat /\ (k + 1) * m = k * m + m
  BY SMT
<1>2. ASSUME NEW j \in Nat, NEW k \in Nat, j <= k PROVE j * m <= k * m
  <2>1. (k - j) * m \in Nat
    <3>1. k - j \in Nat
      BY <1>2
    <3> QED BY <1>1, <3>1
  <2>2. (k - j) * m = k * m - j * m
    BY SMT
  <2>3. k * m \in Int /\ j * m \in Int
    BY <1>1
  <2> QED BY <2>1, <2>2, <2>3
<1> QED BY <1>1, <1>2

-----------------------------------------------------------------------------
(* The two sums of a list, with and without wrapping, are folds: functions *)
(* of the sets of positions, each set taken apart at its greatest element. *)
Kept(wraps, n) == IF wraps THEN Wrap(n) ELSE n

SumOf(wraps, items) == IF wraps THEN GoodsOf(items) ELSE TrueSum(items)

AddsUp(it, wraps, items, S) ==
    it = [s \in SUBSET S |->
             IF s = {} THEN 0
             ELSE LET x == Max(s) IN Kept(wraps, it[s \ {x}] + items[x].total)]

LEMMA KeptInt ==
    ASSUME NEW wraps, NEW n \in Int
    PROVE  Kept(wraps, n) \in Int
BY WrapInt DEF Kept

(* The greatest of the positions up to k.                                  *)
LEMMA MaxUpTo ==
    ASSUME NEW k \in Nat \ {0}, NEW s \in SUBSET (1 .. k), k \in s
    PROVE  Max(s) = k
<1>1. \A x \in s : x \in Int /\ x <= k
  OBVIOUS
<1>2. \A x \in s : (\A y \in s : x >= y) => x = k
  BY <1>1
<1>3. \A y \in s : k >= y
  BY <1>1
<1> QED BY <1>2, <1>3 DEF Max

LEMMA FoldExists ==
    ASSUME NEW wraps \in BOOLEAN, NEW items \in Seq(Item)
    PROVE  \E it \in [SUBSET DOMAIN items -> Int] : AddsUp(it, wraps, items, DOMAIN items)
<1> DEFINE n == Len(items)
           Folds(k) == {it \in [SUBSET (1 .. k) -> Int] : AddsUp(it, wraps, items, 1 .. k)}
           Done == {k \in Nat : k <= n => Folds(k) # {}}
<1>0. n \in Nat /\ DOMAIN items = 1 .. n
  OBVIOUS
<1> HIDE DEF Folds, n
<1>a. \A k \in Nat : k \in Done <=> (k <= n => Folds(k) # {})
  OBVIOUS
<1> HIDE DEF Done
<1>1. 0 \in Done
  <2> DEFINE it == [s \in SUBSET (1 .. 0) |-> 0]
  <2>1. SUBSET (1 .. 0) = {{}}
    OBVIOUS
  <2>2. it \in [SUBSET (1 .. 0) -> Int]
    OBVIOUS
  <2>3. AddsUp(it, wraps, items, 1 .. 0)
    BY <2>1 DEF AddsUp
  <2> HIDE DEF it
  <2>4. it \in Folds(0)
    BY <2>2, <2>3 DEF Folds
  <2> QED BY <2>4, <1>a
<1>2. ASSUME NEW k \in Nat, k \in Done PROVE k + 1 \in Done
  <2> SUFFICES ASSUME k + 1 <= n PROVE Folds(k + 1) # {}
    BY <1>a
  <2>1. PICK g \in [SUBSET (1 .. k) -> Int] : AddsUp(g, wraps, items, 1 .. k)
    <3>1. k <= n
      BY <1>0
    <3>2. Folds(k) # {}
      BY <1>a, <1>2, <3>1
    <3> QED BY <3>2 DEF Folds
  <2>2. items[k + 1] \in Item
    BY <1>0 DEF n
  <2>3. items[k + 1].total \in Int
    BY <2>2 DEF Item
  <2> DEFINE last == k + 1
             it == [s \in SUBSET (1 .. last) |->
                       IF last \in s THEN Kept(wraps, g[s \ {last}] + items[last].total) ELSE g[s]]
  <2>4. ASSUME NEW s \in SUBSET (1 .. last) PROVE s \ {last} \in SUBSET (1 .. k)
    OBVIOUS
  <2>5. ASSUME NEW s \in SUBSET (1 .. last), last \notin s PROVE s \in SUBSET (1 .. k)
    BY <2>5
  <2>6. it \in [SUBSET (1 .. last) -> Int]
    <3>1. ASSUME NEW s \in SUBSET (1 .. last) PROVE it[s] \in Int
      <4>1. CASE last \in s
        <5>1. g[s \ {last}] \in Int
          BY <2>4
        <5>2. g[s \ {last}] + items[last].total \in Int
          BY <5>1, <2>3
        <5> QED BY <5>2, <4>1, KeptInt
      <4>2. CASE last \notin s
        BY <4>2, <2>5
      <4> QED BY <4>1, <4>2
    <3> QED BY <3>1
  <2>7. ASSUME NEW s \in SUBSET (1 .. last)
        PROVE  it[s] = IF s = {} THEN 0
                       ELSE LET x == Max(s) IN Kept(wraps, it[s \ {x}] + items[x].total)
    <3>1. CASE last \in s
      <4>1. Max(s) = last
        BY <3>1, MaxUpTo
      <4>2. it[s \ {last}] = g[s \ {last}]
        BY <2>4
      <4>3. it[s] = Kept(wraps, g[s \ {last}] + items[last].total)
        BY <3>1
      <4> HIDE DEF it, last
      <4> QED BY <3>1, <4>1, <4>2, <4>3
    <3>2. CASE last \notin s
      <4>1. s \in SUBSET (1 .. k)
        BY <3>2, <2>5
      <4>2. g[s] = IF s = {} THEN 0
                   ELSE LET x == Max(s) IN Kept(wraps, g[s \ {x}] + items[x].total)
        BY <2>1, <4>1 DEF AddsUp
      <4>3. it[s] = g[s]
        BY <3>2
      <4>4. \A x : it[s \ {x}] = g[s \ {x}]
        BY <3>2
      <4> HIDE DEF it, last
      <4> QED BY <4>2, <4>3, <4>4
    <3> QED BY <3>1, <3>2
  <2>8. AddsUp(it, wraps, items, 1 .. last)
    <3> DEFINE jt == [s \in SUBSET (1 .. last) |->
                         IF s = {} THEN 0
                         ELSE LET x == Max(s) IN Kept(wraps, it[s \ {x}] + items[x].total)]
    <3>1. \A s \in SUBSET (1 .. last) : it[s] = jt[s]
      BY <2>7
    <3>2. it = [s \in SUBSET (1 .. last) |-> it[s]] /\ jt = [s \in SUBSET (1 .. last) |-> jt[s]]
      OBVIOUS
    <3> HIDE DEF it, jt
    <3>3. it = jt
      BY <3>1, <3>2
    <3> QED BY <3>3 DEF AddsUp, jt
  <2> HIDE DEF it
  <2>9. it \in Folds(k + 1)
    BY <2>6, <2>8 DEF Folds
  <2> QED BY <2>9
<1>3. Nat \subseteq Done
  BY <1>1, <1>2, Induction
<1>4. Folds(n) # {}
  BY <1>0, <1>3, <1>a
<1> QED BY <1>0, <1>4 DEF Folds

(* Both sums go through the list from left to right.                       *)
LEMMA SumUnfolds ==
    ASSUME NEW wraps \in BOOLEAN, NEW items \in Seq(Item)
    PROVE  \E sum \in [0 .. Len(items) -> Int] :
              /\ sum[0] = 0
              /\ \A k \in 1 .. Len(items) : sum[k] = Kept(wraps, sum[k - 1] + items[k].total)
              /\ sum[Len(items)] = SumOf(wraps, items)
<1> DEFINE n == Len(items)
           it == CHOOSE f : AddsUp(f, wraps, items, DOMAIN items)
           sum == [k \in 0 .. n |-> it[1 .. k]]
<1>0. n \in Nat /\ DOMAIN items = 1 .. n
  OBVIOUS
<1>1. PICK some \in [SUBSET DOMAIN items -> Int] : AddsUp(some, wraps, items, DOMAIN items)
  BY FoldExists
<1>2. AddsUp(it, wraps, items, DOMAIN items)
  BY <1>1, Zenon
<1>3. SumOf(wraps, items) = it[DOMAIN items]
  <2>1. CASE wraps
    <3>1. GoodsOf(items) = (CHOOSE f : AddsUp(f, TRUE, items, DOMAIN items))[DOMAIN items]
      BY DEF GoodsOf, FoldLeft, MapThenFoldSet, AddsUp, Kept
    <3>2. wraps = TRUE
      BY <2>1
    <3> QED BY <3>1, <3>2, Zenon DEF SumOf
  <2>2. CASE ~wraps
    <3>1. TrueSum(items) = (CHOOSE f : AddsUp(f, FALSE, items, DOMAIN items))[DOMAIN items]
      BY DEF TrueSum, FoldLeft, MapThenFoldSet, AddsUp, Kept
    <3>2. wraps = FALSE
      BY <2>2
    <3> QED BY <3>1, <3>2, Zenon DEF SumOf
  <2> QED BY <2>1, <2>2
<1> HIDE DEF it
<1>4. sum[0] = 0
  <2>1. 1 .. 0 = {} /\ {} \in SUBSET DOMAIN items
    OBVIOUS
  <2>2. it[{}] = 0
    BY <1>2, <2>1 DEF AddsUp
  <2> QED BY <1>0, <2>1, <2>2
<1>5. ASSUME NEW k \in 1 .. n PROVE sum[k] = Kept(wraps, sum[k - 1] + items[k].total)
  <2>1. 1 .. k \in SUBSET DOMAIN items /\ 1 .. k # {}
    BY <1>0
  <2>2. Max(1 .. k) = k
    BY <1>0, MaxUpTo
  <2>3. (1 .. k) \ {k} = 1 .. (k - 1)
    BY <1>0
  <2>4. it[1 .. k] = LET x == Max(1 .. k) IN Kept(wraps, it[(1 .. k) \ {x}] + items[x].total)
    BY <1>2, <2>1 DEF AddsUp
  <2>5. it[1 .. k] = Kept(wraps, it[1 .. (k - 1)] + items[k].total)
    BY <2>2, <2>3, <2>4
  <2>6. k \in 0 .. n /\ k - 1 \in 0 .. n
    BY <1>0
  <2> QED BY <2>5, <2>6
<1>6. sum \in [0 .. n -> Int]
  <2> DEFINE Typed == {k \in Nat : k <= n => sum[k] \in Int}
  <2>1. 0 \in Typed
    BY <1>4
  <2>2. ASSUME NEW k \in Nat, k \in Typed PROVE k + 1 \in Typed
    <3> SUFFICES ASSUME k + 1 <= n PROVE sum[k + 1] \in Int
      OBVIOUS
    <3>1. k + 1 \in 1 .. n /\ (k + 1) - 1 = k /\ sum[k] \in Int
      BY <1>0, <2>2
    <3>2. items[k + 1] \in Item
      BY <3>1, <1>0
    <3>3. sum[k + 1] = Kept(wraps, sum[k] + items[k + 1].total)
      BY <3>1, <1>5
    <3>4. sum[k] + items[k + 1].total \in Int
      BY <3>1, <3>2 DEF Item
    <3> HIDE DEF sum
    <3> QED BY <3>3, <3>4, KeptInt
  <2>3. \A k \in Nat : k \in Typed => (k <= n => sum[k] \in Int)
    OBVIOUS
  <2> HIDE DEF Typed
  <2>4. Nat \subseteq Typed
    BY <2>1, <2>2, Induction
  <2>5. \A k \in 0 .. n : sum[k] \in Int
    BY <2>3, <2>4, <1>0
  <2> QED BY <2>5
<1>7. sum[n] = SumOf(wraps, items)
  BY <1>0, <1>3
<1> HIDE DEF sum
<1> QED BY <1>4, <1>5, <1>6, <1>7

(* Totals between zero and most, too few to leave the width of an int, add *)
(* up to their true sum.                                                   *)
LEMMA SumsAgree ==
    ASSUME NEW items \in Seq(Item), NEW most \in Nat, Len(items) * most < Wide,
           \A i \in DOMAIN items : items[i].total \in 0 .. most
    PROVE  /\ GoodsOf(items) = TrueSum(items)
           /\ GoodsOf(items) \in 0 .. Len(items) * most
<1> DEFINE n == Len(items)
<1>0. n \in Nat /\ DOMAIN items = 1 .. n /\ Wide \in Nat
  BY WidthAssumption
<1>1. PICK w \in [0 .. n -> Int] :
              /\ w[0] = 0
              /\ \A k \in 1 .. n : w[k] = Kept(TRUE, w[k - 1] + items[k].total)
              /\ w[n] = SumOf(TRUE, items)
  BY SumUnfolds
<1>2. PICK t \in [0 .. n -> Int] :
              /\ t[0] = 0
              /\ \A k \in 1 .. n : t[k] = Kept(FALSE, t[k - 1] + items[k].total)
              /\ t[n] = SumOf(FALSE, items)
  BY SumUnfolds
<1> DEFINE Good == {k \in Nat : k <= n => w[k] = t[k] /\ w[k] \in 0 .. k * most}
<1>3. 0 \in Good
  BY <1>1, <1>2
<1>4. ASSUME NEW k \in Nat, k \in Good PROVE k + 1 \in Good
  <2> SUFFICES ASSUME k + 1 <= n PROVE w[k + 1] = t[k + 1] /\ w[k + 1] \in 0 .. (k + 1) * most
    OBVIOUS
  <2>1. k + 1 \in 1 .. n /\ (k + 1) - 1 = k
    BY <1>0
  <2>2. w[k] = t[k] /\ w[k] \in 0 .. k * most
    BY <1>4
  <2> DEFINE a == items[k + 1].total
             b == k * most
             c == (k + 1) * most
  <2>3. w[k + 1] = Wrap(w[k] + a) /\ t[k + 1] = t[k] + a
    BY <1>1, <1>2, <2>1 DEF Kept
  <2>4. a \in 0 .. most
    BY <1>0, <2>1
  <2>5. b \in Nat /\ c = b + most
    BY Products
  <2>6. c <= n * most
    <3>1. k + 1 \in Nat /\ n \in Nat /\ k + 1 <= n
      BY <1>0, <2>1
    <3>2. \A i, j \in Nat : i <= j => i * most <= j * most
      BY Products
    <3> HIDE DEF n
    <3>3. (k + 1) * most <= n * most
      BY <3>1, <3>2, Zenon
    <3> QED BY <3>3
  <2> HIDE DEF a, b, c
  <2>7. n * most < Wide /\ n * most \in Int
    BY <1>0, Products
  <2>8. w[k] + a \in 0 .. c /\ c < Wide
    BY <1>0, <2>2, <2>4, <2>5, <2>6, <2>7 DEF b
  <2>9. Wrap(w[k] + a) = w[k] + a
    BY <1>0, <2>5, <2>8, WrapKeeps
  <2> QED BY <2>2, <2>3, <2>8, <2>9 DEF c
<1> HIDE DEF Good
<1>5. Nat \subseteq Good
  BY <1>3, <1>4, Induction
<1>6. w[n] = t[n] /\ w[n] \in 0 .. n * most
  BY <1>0, <1>5 DEF Good
<1>7. w[n] = GoodsOf(items) /\ t[n] = TrueSum(items)
  BY <1>1, <1>2 DEF SumOf
<1> QED BY <1>6, <1>7

-----------------------------------------------------------------------------
(* Every order has items that are items, whoever made it, and carries the  *)
(* marks of the checks it passed.                                          *)
Checked ==
    /\ DOMAIN order = Part /\ order.items \in Seq(Item)
    /\ stage \in {"valid", "stored", "refused"} => Validate(order)
    /\ stage = "stored" => Storable(order)

LEMMA GeneratedItems == GenItem \subseteq Item
<1>1. ASSUME NEW p \in GenPrices, NEW s \in GenSales
      PROVE  [ids |-> "ok", price |-> p, sale |-> s, total |-> Discounted(p, s)] \in Item
  <2>1. p \in Int /\ s \in Int
    BY GenAssumption
  <2>2. Discounted(p, s) \in Int
    BY <2>1, DiscountedInt
  <2> QED BY <2>1, <2>2 DEF Item
<1> QED BY <1>1 DEF GenItem

(* Items stay items through a random change, the recalculation, and any    *)
(* corruption.                                                             *)
LEMMA ModifiedItems ==
    ASSUME DOMAIN order = Part, order.items \in Seq(Item), NEW o \in RandomMods(order)
    PROVE  DOMAIN o = Part /\ o.items \in Seq(Item)
<1>1. CASE \E item \in GenItem : o = [order EXCEPT !.items = Append(@, item)]
  <2>1. PICK item \in GenItem : o = [order EXCEPT !.items = Append(@, item)]
    BY <1>1
  <2>2. DOMAIN o = Part /\ o.items = Append(order.items, item)
    BY <2>1 DEF Part
  <2> QED BY <2>2, GeneratedItems
<1>2. CASE \E s \in ModSales : o = [order EXCEPT !.items[1].sale = s]
  <2>1. PICK s \in ModSales : o = [order EXCEPT !.items[1].sale = s]
    BY <1>2
  <2>2. DOMAIN o = Part /\ o.items = [order.items EXCEPT ![1].sale = s]
    BY <2>1 DEF Part
  <2>3. s \in Int
    BY GenAssumption
  <2>4. CASE 1 \in DOMAIN order.items
    <3>1. order.items[1] \in Item
      BY <2>4
    <3>2. [order.items[1] EXCEPT !.sale = s] \in Item
      BY <2>3, <3>1 DEF Item
    <3> QED BY <2>2, <3>2, <2>4
  <2>5. CASE 1 \notin DOMAIN order.items
    <3>1. o.items = order.items
      BY <2>2, <2>5
    <3> QED BY <2>2, <3>1
  <2> QED BY <2>4, <2>5
<1>3. CASE o = order
  BY <1>3
<1> QED BY <1>1, <1>2, <1>3 DEF RandomMods

LEMMA RecalculatedItems ==
    ASSUME NEW o, DOMAIN o = Part, o.items \in Seq(Item)
    PROVE  DOMAIN recalcTotals(o) = Part /\ recalcTotals(o).items \in Seq(Item)
<1> DEFINE new == [i \in DOMAIN o.items |->
                      [o.items[i] EXCEPT !.total = Discounted(o.items[i].price, o.items[i].sale)]]
<1>1. ASSUME NEW i \in DOMAIN o.items PROVE new[i] \in Item
  <2>1. o.items[i] \in Item
    OBVIOUS
  <2>2. Discounted(o.items[i].price, o.items[i].sale) \in Int
    BY <2>1, DiscountedInt DEF Item
  <2> QED BY <2>1, <2>2 DEF Item
<1>2. new \in Seq(Item)
  <2>1. DOMAIN o.items = 1 .. Len(o.items) /\ Len(o.items) \in Nat
    OBVIOUS
  <2>2. new \in [1 .. Len(o.items) -> Item]
    BY <1>1, <2>1
  <2> QED BY <2>1, <2>2
<1>3. recalcTotals(o).items = new /\ DOMAIN recalcTotals(o) = Part
  BY DEF recalcTotals, Part
<1> QED BY <1>2, <1>3

LEMMA CorruptedItems ==
    ASSUME DOMAIN order = Part, order.items \in Seq(Item),
           NEW o \in InvalidCreates(order) \union InvalidUpdates(order)
    PROVE  DOMAIN o = Part /\ o.items \in Seq(Item)
<1>1. CASE o = NoItems(order)
  <2>1. DOMAIN o = Part /\ o.items = <<>>
    BY <1>1 DEF NoItems, Part
  <2> QED BY <2>1
<1>2. CASE o = NegativePrices(order)
  <2> DEFINE new == [i \in DOMAIN order.items |->
                        [order.items[i] EXCEPT !.price = -100, !.total = -100]]
  <2>1. DOMAIN o = Part /\ o.items = new
    BY <1>2 DEF NegativePrices, Part
  <2>2. ASSUME NEW i \in DOMAIN order.items PROVE new[i] \in Item
    <3> DEFINE x == order.items[i]
    <3>1. x \in Item
      OBVIOUS
    <3>2. new[i] = [x EXCEPT !.price = -100, !.total = -100]
      OBVIOUS
    <3> HIDE DEF x, new
    <3>3. x = [ids |-> x.ids, price |-> x.price, sale |-> x.sale, total |-> x.total]
      BY <3>1 DEF Item
    <3>4. new[i] = [ids |-> x.ids, price |-> -100, sale |-> x.sale, total |-> -100]
      BY <3>2, <3>3
    <3>5. -100 \in Int
      BY SMT
    <3> QED BY <3>1, <3>4, <3>5 DEF Item
  <2>3. DOMAIN order.items = 1 .. Len(order.items) /\ Len(order.items) \in Nat
    OBVIOUS
  <2>4. new \in [1 .. Len(order.items) -> Item]
    BY <2>2, <2>3
  <2> HIDE DEF new
  <2>5. new \in Seq(Item)
    BY <2>3, <2>4
  <2> QED BY <2>1, <2>5
<1>3. CASE o = Scrambled(order)
  <2>1. DOMAIN o = Part
        /\ o.items = <<[ids |-> "bad", price |-> -500, sale |-> 200, total |-> -500]>>
    BY <1>3 DEF Scrambled, Part
  <2>2. [ids |-> "bad", price |-> -500, sale |-> 200, total |-> -500] \in Item
    BY DEF Item
  <2> QED BY <2>1, <2>2
<1>4. CASE o = Unreadable(order)
  BY <1>4 DEF Unreadable, Part
<1>5. CASE o = Unnamed(order)
  BY <1>5 DEF Unnamed, Part
<1>6. CASE o = BadCurrency(order)
  BY <1>6 DEF BadCurrency, Part
<1>7. CASE o = Overcharged(order)
  BY <1>7 DEF Overcharged, Part
<1> QED BY <1>1, <1>2, <1>3, <1>4, <1>5, <1>6, <1>7 DEF InvalidCreates, InvalidUpdates

LEMMA OrdersAreChecked == Spec => []Checked
<1>1. Init => Checked
  <2> SUFFICES ASSUME Init PROVE Checked
    OBVIOUS
  <2>1. CASE origin = "foreign"
    BY <2>1, ForeignAssumption DEF Init, Checked
  <2>2. CASE origin = "created"
    <3>1. PICK n \in 1 .. MaxItems : \E items \in [1 .. n -> GenItem] :
             \E d \in DeliveryCosts, fee \in CustomFees : order = Generated(items, d, fee)
      BY <2>2 DEF Init
    <3>2. PICK items \in [1 .. n -> GenItem] : order.items = items /\ DOMAIN order = Part
      BY <3>1 DEF Generated, Part
    <3>3. n \in Nat /\ items \in [1 .. n -> Item]
      BY <3>2, GenAssumption, GeneratedItems
    <3> QED BY <2>2, <3>2, <3>3 DEF Init, Checked
  <2> QED BY <2>1, <2>2 DEF Init
<1>2. Checked /\ [Next]_vars => Checked'
  <2> SUFFICES ASSUME Checked, [Next]_vars PROVE Checked'
    OBVIOUS
  <2> USE DEF Checked
  <2>1. CASE Create
    BY <2>1 DEF Create
  <2>2. CASE Update
    <3>1. PICK o \in RandomMods(order) : order' = recalcTotals(o)
      BY <2>2 DEF Update
    <3>2. o.items \in Seq(Item) /\ DOMAIN o = Part
      BY <3>1, ModifiedItems
    <3> QED BY <2>2, <3>1, <3>2, RecalculatedItems DEF Update
  <2>3. CASE Corrupt
    BY <2>3, CorruptedItems DEF Corrupt
  <2>4. CASE ParseOrder
    BY <2>4 DEF ParseOrder
  <2>5. CASE SaveOrder
    BY <2>5 DEF SaveOrder
  <2>6. CASE UNCHANGED vars
    BY <2>6 DEF vars
  <2> QED BY <2>1, <2>2, <2>3, <2>4, <2>5, <2>6 DEF Next
<1> QED BY <1>1, <1>2, PTL DEF Spec

(* Stored items are exact, whatever their producer computed and however    *)
(* the arithmetic of Validate wraps (order.go:350, up.sql).                *)
THEOREM StoredItemsAreExact == Spec => []StoredItemsExact
<1>1. Checked => StoredItemsExact
  <2> SUFFICES ASSUME Checked, stage = "stored", NEW i \in DOMAIN order.items
               PROVE  /\ order.items[i].total = order.items[i].price
                              - (order.items[i].price * order.items[i].sale) \div 100
                      /\ order.items[i].total \in 0 .. order.items[i].price
    BY DEF StoredItemsExact
  <2>1. order.items[i] \in Item
    BY DEF Checked
  <2>2. ItemValid(order.items[i]) /\ Fits(order.items[i].price)
    BY DEF Checked, Validate, Storable
  <2> DEFINE p == order.items[i].price
             s == order.items[i].sale
  <2>3. /\ p \in Nat /\ p < Narrow /\ s \in 0 .. 100
        /\ order.items[i].total = Discounted(p, s)
    BY <2>1, <2>2 DEF ItemValid, Fits, Item
  <2> HIDE DEF p, s
  <2>4. Discounted(p, s) = p - (p * s) \div 100 /\ Discounted(p, s) \in 0 .. p
    BY <2>3, DiscountedExact
  <2> QED BY <2>3, <2>4, Zenon DEF p, s
<1> QED BY <1>1, OrdersAreChecked, PTL

-----------------------------------------------------------------------------
(* What the simulator draws is cheap enough for its column, however many   *)
(* items it takes.                                                         *)
Drawn(item) ==
    /\ item.ids = "ok" /\ item.price \in GenPrices /\ item.sale \in 0 .. 100
    /\ item.total = Discounted(item.price, item.sale)

LEMMA CheapItem ==
    ASSUME NEW d \in DeliveryCosts, NEW fee \in CustomFees, NEW item, Drawn(item)
    PROVE  /\ item.price \in Nat /\ item.price < Narrow
           /\ (MaxItems + 1) * item.price + d + fee < Narrow
           /\ item.total \in 0 .. item.price
           /\ ItemValid(item)
<1> DEFINE p == item.price
           q == (MaxItems + 1) * p
<1>1. p \in Nat /\ d \in Nat /\ fee \in Nat /\ MaxItems \in Nat
  BY GenAssumption DEF Drawn
<1>2. q + d + fee < Narrow
  BY GenAssumption DEF Drawn
<1>3. MaxItems * p \in Nat /\ q = MaxItems * p + p
  BY <1>1, Products
<1> HIDE DEF q
<1>4. p < Narrow
  BY <1>1, <1>2, <1>3, WidthAssumption
<1>5. item.sale \in 0 .. 100 /\ item.total = Discounted(p, item.sale)
  BY DEF Drawn
<1>6. item.total \in 0 .. p
  BY <1>1, <1>4, <1>5, DiscountedExact
<1>7. ItemValid(item)
  BY <1>1, <1>5, <1>6 DEF Drawn, ItemValid
<1> QED BY <1>1, <1>2, <1>4, <1>6, <1>7 DEF q

(* The most that each of c numbers may be for their sum to stay within k.  *)
LEMMA Share ==
    ASSUME NEW c \in Nat \ {0}, NEW k \in Nat
    PROVE  \E b \in Nat : c * b <= k /\ \A p \in Nat : c * p <= k => p <= b
<1> DEFINE Over == {b \in Nat : k < c * (b + 1)}
<1>0. \A b \in Nat : c * b \in Nat /\ c * (b + 1) = c * b + c
  BY SMT
<1>1. k \in Over
  <2>1. \A b \in Nat : b * 1 <= b * c
    <3>1. \A b \in Nat : b * (c - 1) \in Nat
      <4>1. c - 1 \in Nat
        OBVIOUS
      <4> QED BY <4>1, Products
    <3> QED BY <3>1, SMT
  <2>2. k + 1 \in Nat /\ (k + 1) * c = c * (k + 1)
    BY SMT
  <2>3. (k + 1) * 1 <= (k + 1) * c
    BY <2>1, <2>2
  <2> QED BY <2>2, <2>3
<1>2. PICK b \in Over : \A a \in Over : b <= a
  BY <1>1, LeastNumber
<1>3. c * b <= k
  <2>1. CASE b = 0
    <3>1. c * 0 = 0
      BY SMT
    <3> QED BY <2>1, <3>1
  <2>2. CASE b # 0
    <3>1. b - 1 \in Nat /\ b - 1 \notin Over
      BY <1>2, <2>2
    <3>2. ~ (k < c * ((b - 1) + 1)) /\ (b - 1) + 1 = b
      BY <3>1
    <3>3. ~ (k < c * b) /\ c * b \in Nat
      BY <3>2, <1>0
    <3> QED BY <3>3
  <2> QED BY <2>1, <2>2
<1>4. ASSUME NEW p \in Nat, c * p <= k PROVE p <= b
  <2> SUFFICES ASSUME b + 1 <= p PROVE FALSE
    BY <1>2
  <2>1. (b + 1) * c <= p * c
    BY <1>2, Products
  <2>2. (b + 1) * c = c * (b + 1) /\ p * c = c * p
    BY <1>2, SMT
  <2>3. k < c * (b + 1)
    BY <1>2
  <2>4. c * (b + 1) \in Nat /\ c * p \in Nat
    BY <1>0, <1>2
  <2> QED BY <1>4, <2>1, <2>2, <2>3, <2>4
<1> QED BY <1>2, <1>3, <1>4

LEMMA CheapList ==
    ASSUME NEW items \in Seq(Item), items # <<>>, Len(items) <= MaxItems + 1,
           \A i \in DOMAIN items : Drawn(items[i]),
           NEW d \in DeliveryCosts, NEW fee \in CustomFees
    PROVE  /\ GoodsOf(items) = TrueSum(items)
           /\ GoodsOf(items) \in Nat
           /\ GoodsOf(items) + d + fee < Narrow
<1> DEFINE c == MaxItems + 1
           k == (Narrow - 1) - (d + fee)
           n == Len(items)
<1>0. /\ c \in Nat \ {0} /\ d \in Nat /\ fee \in Nat /\ Narrow \in Nat /\ Wide \in Nat
      /\ Narrow <= Wide
  BY GenAssumption, WidthAssumption
<1>1. n \in Nat /\ DOMAIN items = 1 .. n /\ 1 \in 1 .. n /\ n <= c
  OBVIOUS
<1>2. \A i \in 1 .. n : /\ items[i].price \in Nat /\ c * items[i].price + d + fee < Narrow
                        /\ items[i].total \in 0 .. items[i].price
  BY <1>1, CheapItem
<1>3. \A p \in Nat : c * p \in Nat
  BY <1>0, Products
<1> HIDE DEF c, n
<1>4. k \in Nat
  <2> DEFINE q == c * items[1].price
  <2>1. q \in Nat /\ q + d + fee < Narrow
    BY <1>1, <1>2, <1>3
  <2> HIDE DEF q
  <2> QED BY <1>0, <2>1
<1>5. k + (d + fee) = Narrow - 1
  BY <1>0
<1> HIDE DEF k
<1>6. PICK most \in Nat : c * most <= k /\ \A p \in Nat : c * p <= k => p <= most
  BY <1>0, <1>4, Share, Zenon
<1>7. ASSUME NEW i \in 1 .. n PROVE items[i].total \in 0 .. most
  <2> DEFINE p == items[i].price
             q == c * p
  <2>1. p \in Nat /\ items[i].total \in 0 .. p /\ q \in Nat /\ q + d + fee < Narrow
    BY <1>2, <1>3
  <2> HIDE DEF q
  <2>2. q <= k
    BY <1>0, <1>4, <1>5, <2>1
  <2>3. p <= most
    BY <1>6, <2>1, <2>2 DEF q
  <2> QED BY <2>1, <2>3
<1>8. n * most <= c * most /\ n * most \in Nat /\ c * most \in Nat
  BY <1>0, <1>1, Products
<1>9. n * most <= k /\ k < Narrow
  BY <1>0, <1>4, <1>5, <1>6, <1>8
<1>10. n * most < Wide
  BY <1>0, <1>4, <1>8, <1>9
<1>11. GoodsOf(items) = TrueSum(items) /\ GoodsOf(items) \in 0 .. n * most
  BY <1>1, <1>7, <1>10, SumsAgree DEF n
<1> QED BY <1>0, <1>4, <1>5, <1>8, <1>9, <1>11

(* Payments that fit their columns add up without wrapping.                *)
LEMMA AmountExact ==
    ASSUME NEW g \in Nat, NEW d \in Nat, NEW fee \in Nat, g < Narrow, d < Narrow, fee < Narrow,
           NEW pay, pay.goods = g, pay.delivery = d, pay.fee = fee
    PROVE  AmountOf(pay) = g + d + fee
<1>1. Narrow \in Nat \ {0} /\ Wide \in Nat /\ 100 * Narrow <= Wide
  BY WidthAssumption
<1>2. Wrap(g + d) = g + d
  BY <1>1, WrapKeeps
<1>3. Wrap(g + d + fee) = g + d + fee
  BY <1>1, WrapKeeps
<1> QED BY <1>2, <1>3 DEF AmountOf

-----------------------------------------------------------------------------
(* An order as the simulator makes it, of at most so many items.           *)
Made(o, most) ==
    /\ DOMAIN o = Part
    /\ o.json = TRUE /\ o.text = AllOk
    /\ o.items \in Seq(Item) /\ o.items # <<>> /\ Len(o.items) <= most
    /\ \A i \in DOMAIN o.items : Drawn(o.items[i])
    /\ o.pay \in Payment
    /\ \E d \in DeliveryCosts : o.pay.delivery \in 0 .. d
    /\ o.pay.fee \in CustomFees
    /\ o.pay.goods = GoodsOf(o.items)
    /\ o.pay.amount = AmountOf(o.pay)

(* Such an order obeys every rule and fits every column.                   *)
LEMMA MadePasses ==
    ASSUME NEW o, Made(o, MaxItems + 1)
    PROVE  Validate(o) /\ Storable(o) /\ GoodsOf(o.items) = TrueSum(o.items)
<1> DEFINE g == o.pay.goods
           c == o.pay.delivery
           f == o.pay.fee
<1>1. PICK d \in DeliveryCosts : c \in 0 .. d
  BY DEF Made
<1>2. f \in CustomFees /\ d \in Nat /\ f \in Nat /\ Narrow \in Nat
  BY <1>1, GenAssumption, WidthAssumption DEF Made
<1>3. /\ GoodsOf(o.items) = TrueSum(o.items)
      /\ g \in Nat /\ g + d + f < Narrow
  <2>1. /\ o.items \in Seq(Item) /\ o.items # <<>> /\ Len(o.items) <= MaxItems + 1
        /\ \A i \in DOMAIN o.items : Drawn(o.items[i])
        /\ g = GoodsOf(o.items)
    BY DEF Made
  <2> QED BY <1>1, <1>2, <2>1, CheapList
<1>4. c \in Nat /\ g < Narrow /\ c < Narrow /\ f < Narrow /\ g + c + f < Narrow
  BY <1>1, <1>2, <1>3
<1>5. o.pay.amount = g + c + f
  <2>1. AmountOf(o.pay) = g + c + f
    BY <1>2, <1>3, <1>4, AmountExact
  <2> QED BY <2>1 DEF Made
<1>6. PaymentValid(o.pay)
  BY <1>2, <1>3, <1>4, <1>5 DEF PaymentValid
<1>7. Fits(o.pay.amount) /\ Fits(c) /\ Fits(g) /\ Fits(f)
  BY <1>2, <1>3, <1>4, <1>5 DEF Fits
<1>8. TextValid(o.text) /\ \A x \in Field : o.text[x] # "long"
  <2>1. \A x \in Field : o.text[x] = "ok"
    BY DEF Made, AllOk
  <2>2. Required \subseteq Field /\ Optional \subseteq Field
    BY Zenon DEF Field
  <2> QED BY <2>1, <2>2 DEF TextValid
<1>9. ASSUME NEW i \in DOMAIN o.items
      PROVE  /\ ItemValid(o.items[i])
             /\ o.items[i].ids # "long"
             /\ Fits(o.items[i].price) /\ Fits(o.items[i].sale) /\ Fits(o.items[i].total)
  <2>1. Drawn(o.items[i])
    BY DEF Made
  <2> DEFINE x == o.items[i]
  <2> HIDE DEF x
  <2>2. /\ x.price \in Nat /\ x.price < Narrow /\ x.total \in 0 .. x.price /\ ItemValid(x)
        /\ (MaxItems + 1) * x.price + d + f < Narrow
    BY <1>1, <1>2, <2>1, CheapItem DEF x
  <2>3. x.ids = "ok" /\ x.sale \in 0 .. 100 /\ x.price \in GenPrices
    BY <2>1 DEF Drawn, x
  <2>4. Fits(x.price) /\ Fits(x.total)
    BY <1>2, <2>2 DEF Fits
  <2>5. Fits(x.sale)
    BY <2>3, WidthAssumption DEF Fits
  <2>6. x.ids # "long"
    BY <2>3
  <2> QED BY <2>2, <2>4, <2>5, <2>6 DEF x
<1>10. Validate(o)
  BY <1>6, <1>8, <1>9 DEF Validate, Made
<1>11. Storable(o)
  BY <1>7, <1>8, <1>9 DEF Storable
<1> QED BY <1>3, <1>10, <1>11

LEMMA GoodsInt ==
    ASSUME NEW items \in Seq(Item)
    PROVE  GoodsOf(items) \in Int
<1>1. PICK sum \in [0 .. Len(items) -> Int] : sum[Len(items)] = SumOf(TRUE, items)
  BY SumUnfolds
<1>2. Len(items) \in 0 .. Len(items)
  OBVIOUS
<1> QED BY <1>1, <1>2 DEF SumOf

LEMMA PaidRight ==
    ASSUME NEW pay \in Payment
    PROVE  /\ Paid(pay) \in Payment
           /\ Paid(pay).goods = pay.goods /\ Paid(pay).delivery = pay.delivery
           /\ Paid(pay).fee = pay.fee /\ Paid(pay).amount = AmountOf(Paid(pay))
<1>1. AmountOf(pay) \in Int
  <2>1. Wrap(pay.goods + pay.delivery) \in Int /\ pay.fee \in Int
    BY WrapInt DEF Payment
  <2> QED BY <2>1, WrapInt DEF AmountOf
<1>2. /\ Paid(pay) \in Payment
      /\ Paid(pay).goods = pay.goods /\ Paid(pay).delivery = pay.delivery
      /\ Paid(pay).fee = pay.fee /\ Paid(pay).amount = AmountOf(pay)
  BY <1>1 DEF Paid, Payment
<1>3. AmountOf(Paid(pay)) = AmountOf(pay)
  BY <1>2, Zenon DEF AmountOf
<1> QED BY <1>2, <1>3

LEMMA GenItemDrawn ==
    ASSUME NEW item \in GenItem
    PROVE  Drawn(item) /\ item \in Item
BY GenAssumption, GeneratedItems DEF GenItem, Drawn

LEMMA GeneratedMade ==
    ASSUME NEW n \in 1 .. MaxItems, NEW items \in [1 .. n -> GenItem],
           NEW d \in DeliveryCosts, NEW fee \in CustomFees
    PROVE  Made(Generated(items, d, fee), MaxItems)
<1> DEFINE goods == GoodsOf(items)
           cost == IF goods > 500000 THEN 0 ELSE d
           pay == [goods |-> goods, delivery |-> cost, fee |-> fee, amount |-> 0]
           o == Generated(items, d, fee)
<1>1. n \in Nat /\ d \in Nat /\ fee \in Nat /\ n >= 1 /\ n <= MaxItems
  BY GenAssumption
<1>2. items \in Seq(Item) /\ Len(items) = n /\ items # <<>> /\ DOMAIN items = 1 .. n
  <2>1. items \in [1 .. n -> Item]
    BY GeneratedItems
  <2>2. items \in Seq(Item) /\ Len(items) = n
    BY <1>1, <2>1
  <2> QED BY <1>1, <2>2
<1>3. goods \in Int
  BY <1>2, GoodsInt
<1>4. cost \in 0 .. d
  BY <1>1
<1> HIDE DEF goods, cost
<1>5. pay \in Payment
  BY <1>1, <1>3, <1>4 DEF Payment
<1>6. /\ o.json = TRUE /\ o.text = AllOk /\ o.items = items /\ o.pay = Paid(pay) /\ DOMAIN o = Part
  BY DEF Generated, Part, goods, cost
<1>7. /\ o.pay \in Payment /\ o.pay.goods = goods /\ o.pay.delivery = cost /\ o.pay.fee = fee
      /\ o.pay.amount = AmountOf(o.pay)
  BY <1>5, <1>6, PaidRight
<1>8. \A i \in DOMAIN items : Drawn(items[i])
  BY <1>2, GenItemDrawn
<1> HIDE DEF o
<1> QED BY <1>1, <1>2, <1>4, <1>6, <1>7, <1>8 DEF Made, goods, o

(* A change at random and the recalculation that follows it make another   *)
(* such order.                                                             *)
LEMMA ModifiedDrawn ==
    ASSUME NEW old, Made(old, MaxItems), NEW o \in RandomMods(old)
    PROVE  /\ DOMAIN o = Part /\ o.json = old.json /\ o.text = old.text /\ o.pay = old.pay
           /\ o.items \in Seq(Item) /\ o.items # <<>> /\ Len(o.items) <= MaxItems + 1
           /\ \A i \in DOMAIN o.items :
                 /\ o.items[i].ids = "ok" /\ o.items[i].price \in GenPrices
                 /\ o.items[i].sale \in 0 .. 100
<1> DEFINE Sold(item) == item.ids = "ok" /\ item.price \in GenPrices /\ item.sale \in 0 .. 100
<1>1. /\ DOMAIN old = Part /\ old.items \in Seq(Item) /\ old.items # <<>>
      /\ Len(old.items) <= MaxItems /\ MaxItems \in Nat /\ Len(old.items) \in Nat
      /\ \A i \in DOMAIN old.items : Sold(old.items[i])
  BY GenAssumption DEF Made, Drawn
<1>2. CASE \E item \in GenItem : o = [old EXCEPT !.items = Append(@, item)]
  <2>1. PICK item \in GenItem : o = [old EXCEPT !.items = Append(@, item)]
    BY <1>2
  <2>2. /\ DOMAIN o = Part /\ o.json = old.json /\ o.text = old.text /\ o.pay = old.pay
        /\ o.items = Append(old.items, item)
    BY <1>1, <2>1 DEF Part
  <2>3. item \in Item /\ Sold(item)
    BY GenItemDrawn DEF Drawn
  <2>4. /\ o.items \in Seq(Item) /\ o.items # <<>> /\ Len(o.items) <= MaxItems + 1
    BY <1>1, <2>2, <2>3
  <2>5. ASSUME NEW i \in DOMAIN o.items PROVE Sold(o.items[i])
    <3>1. o.items[i] = item \/ (i \in DOMAIN old.items /\ o.items[i] = old.items[i])
      BY <1>1, <2>2, <2>3
    <3> HIDE DEF Sold
    <3> QED BY <3>1, <2>3, <1>1
  <2> QED BY <2>2, <2>4, <2>5
<1>3. CASE \E s \in ModSales : o = [old EXCEPT !.items[1].sale = s]
  <2>1. PICK s \in ModSales : o = [old EXCEPT !.items[1].sale = s]
    BY <1>3
  <2> DEFINE first == [old.items[1] EXCEPT !.sale = s]
  <2>2. /\ DOMAIN o = Part /\ o.json = old.json /\ o.text = old.text /\ o.pay = old.pay
        /\ o.items = [old.items EXCEPT ![1] = first]
    BY <1>1, <2>1 DEF Part
  <2>3. 1 \in DOMAIN old.items /\ old.items[1] \in Item /\ Sold(old.items[1])
    BY <1>1
  <2>4. s \in 0 .. 100 /\ s \in Int
    BY GenAssumption
  <2>5. first \in Item /\ Sold(first)
    BY <2>3, <2>4 DEF Item
  <2> HIDE DEF first
  <2>6. /\ o.items \in Seq(Item) /\ Len(o.items) = Len(old.items) /\ DOMAIN o.items = DOMAIN old.items
    BY <1>1, <2>2, <2>3, <2>5
  <2>7. ASSUME NEW i \in DOMAIN o.items PROVE Sold(o.items[i])
    <3>1. o.items[i] = IF i = 1 THEN first ELSE old.items[i]
      BY <2>2, <2>6
    <3> HIDE DEF Sold
    <3> QED BY <3>1, <2>5, <2>6, <1>1
  <2> QED BY <1>1, <2>2, <2>3, <2>6, <2>7
<1>4. CASE o = old
  BY <1>1, <1>4
<1> QED BY <1>2, <1>3, <1>4 DEF RandomMods

LEMMA UpdatedMade ==
    ASSUME NEW old, Made(old, MaxItems), NEW o \in RandomMods(old)
    PROVE  Made(recalcTotals(o), MaxItems + 1)
<1> DEFINE new == [i \in DOMAIN o.items |->
                      [o.items[i] EXCEPT !.total = Discounted(o.items[i].price, o.items[i].sale)]]
           u == recalcTotals(o)
           pay == [o.pay EXCEPT !.goods = GoodsOf(new)]
<1>1. /\ DOMAIN o = Part /\ o.json = TRUE /\ o.text = AllOk /\ o.pay = old.pay
      /\ o.items \in Seq(Item) /\ o.items # <<>> /\ Len(o.items) <= MaxItems + 1
      /\ \A i \in DOMAIN o.items :
                 /\ o.items[i].ids = "ok" /\ o.items[i].price \in GenPrices
                 /\ o.items[i].sale \in 0 .. 100
  BY ModifiedDrawn DEF Made
<1>2. /\ DOMAIN u = Part /\ u.json = TRUE /\ u.text = AllOk /\ u.items = new /\ u.pay = Paid(pay)
  BY <1>1 DEF recalcTotals, Part
<1>3. u.items \in Seq(Item)
  BY <1>1, RecalculatedItems
<1>4. new \in Seq(Item)
  BY <1>2, <1>3
<1>5. DOMAIN new = DOMAIN o.items /\ Len(new) = Len(o.items) /\ new # <<>>
  BY <1>1, <1>4
<1>6. ASSUME NEW i \in DOMAIN new PROVE Drawn(new[i])
  <2> DEFINE x == o.items[i]
  <2>1. i \in DOMAIN o.items /\ x \in Item
    BY <1>1
  <2>2. new[i] = [x EXCEPT !.total = Discounted(x.price, x.sale)]
    BY <2>1
  <2>3. x.ids = "ok" /\ x.price \in GenPrices /\ x.sale \in 0 .. 100
    BY <1>1, <2>1
  <2> HIDE DEF x, new
  <2>4. /\ new[i].ids = x.ids /\ new[i].price = x.price /\ new[i].sale = x.sale
        /\ new[i].total = Discounted(x.price, x.sale)
    BY <2>1, <2>2 DEF Item
  <2> QED BY <2>3, <2>4 DEF Drawn
<1> HIDE DEF new
<1>7. GoodsOf(new) \in Int
  BY <1>4, GoodsInt
<1>8. old.pay \in Payment
  BY DEF Made
<1>9. /\ pay \in Payment /\ pay.goods = GoodsOf(new)
      /\ pay.delivery = old.pay.delivery /\ pay.fee = old.pay.fee
  BY <1>1, <1>7, <1>8 DEF Payment
<1> HIDE DEF pay, u
<1>10. /\ u.pay \in Payment /\ u.pay.goods = GoodsOf(new) /\ u.pay.delivery = old.pay.delivery
       /\ u.pay.fee = old.pay.fee /\ u.pay.amount = AmountOf(u.pay)
  BY <1>2, <1>9, PaidRight
<1>11. (\E d \in DeliveryCosts : old.pay.delivery \in 0 .. d) /\ old.pay.fee \in CustomFees
  BY DEF Made
<1>12. Made(u, MaxItems + 1)
  BY <1>1, <1>2, <1>3, <1>5, <1>6, <1>10, <1>11 DEF Made
<1> QED BY <1>12 DEF u

(* Each corruption breaks a rule that such an order obeys.                 *)
LEMMA CorruptedInvalid ==
    ASSUME NEW old, Made(old, MaxItems), NEW o \in InvalidCreates(old) \union InvalidUpdates(old)
    PROVE  ~ (o.json /\ Validate(o))
<1>1. /\ DOMAIN old = Part /\ old.items \in Seq(Item) /\ old.items # <<>> /\ old.pay \in Payment
      /\ old.text = AllOk /\ old.pay.amount = AmountOf(old.pay)
  BY DEF Made
<1>2. CASE o = Unreadable(old)
  <2>1. o.json = FALSE
    BY <1>1, <1>2 DEF Unreadable, Part
  <2> QED BY <2>1
<1>3. CASE o = Unnamed(old)
  <2>1. o.text = [[AllOk EXCEPT !["order_uid"] = "empty"] EXCEPT !["transaction"] = "empty"]
    BY <1>1, <1>3 DEF Unnamed, Part
  <2>2. o.text["order_uid"] = "empty"
    BY <2>1 DEF AllOk, Field, Required
  <2> QED BY <2>2 DEF Validate, TextValid, Required
<1>4. CASE o = BadCurrency(old)
  <2>1. o.text = [AllOk EXCEPT !["currency"] = "bad"]
    BY <1>1, <1>4 DEF BadCurrency, Part
  <2>2. o.text["currency"] = "bad"
    BY <2>1 DEF AllOk, Field, Required
  <2> QED BY <2>2 DEF Validate, TextValid, Required
<1>5. CASE o = NoItems(old)
  <2>1. o.items = <<>>
    BY <1>1, <1>5 DEF NoItems, Part
  <2> QED BY <2>1 DEF Validate
<1>6. CASE o = NegativePrices(old)
  <2>1. o.items = [i \in DOMAIN old.items |-> [old.items[i] EXCEPT !.price = -100, !.total = -100]]
    BY <1>1, <1>6 DEF NegativePrices, Part
  <2>2. 1 \in DOMAIN old.items /\ old.items[1] \in Item
    BY <1>1
  <2>3. 1 \in DOMAIN o.items /\ o.items[1] = [old.items[1] EXCEPT !.price = -100, !.total = -100]
    BY <2>1, <2>2
  <2>4. o.items[1].total = -100
    BY <2>2, <2>3 DEF Item
  <2>5. ~ ItemValid(o.items[1])
    BY <2>4 DEF ItemValid
  <2> QED BY <2>3, <2>5 DEF Validate
<1>7. CASE o = Overcharged(old)
  <2>1. o.pay = [old.pay EXCEPT !.amount = @ + 99999]
    BY <1>1, <1>7 DEF Overcharged, Part
  <2>2. /\ o.pay.amount = old.pay.amount + 99999 /\ old.pay.amount \in Int
        /\ o.pay.goods = old.pay.goods /\ o.pay.delivery = old.pay.delivery /\ o.pay.fee = old.pay.fee
    BY <1>1, <2>1 DEF Payment
  <2>3. AmountOf(o.pay) = AmountOf(old.pay)
    BY <2>2 DEF AmountOf
  <2>4. o.pay.amount # AmountOf(o.pay)
    BY <1>1, <2>2, <2>3
  <2> QED BY <2>4 DEF Validate
<1>8. CASE o = Scrambled(old)
  <2>1. o.text = [f \in Field |->
                   CASE f \in {"entry", "currency", "payment_dt"} -> "bad"
                     [] f \in {"customer_id", "name", "city", "address", "transaction"} -> "empty"
                     [] OTHER -> "ok"]
    BY <1>1, <1>8 DEF Scrambled, Part
  <2>2. "entry" \in Field
    BY DEF Field, Required
  <2>3. o.text["entry"] = "bad"
    BY <2>1, <2>2
  <2> QED BY <2>3 DEF Validate, TextValid, Required
<1> QED BY <1>2, <1>3, <1>4, <1>5, <1>6, <1>7, <1>8 DEF InvalidCreates, InvalidUpdates

-----------------------------------------------------------------------------
(* Who made an order, and what that says about it at every stage.          *)
Provenance ==
    /\ stage \in {"drawn", "sent", "invalid", "valid", "stored", "refused"}
    /\ origin \in {"created", "updated", "corrupted", "foreign"}
    /\ stage = "drawn" => origin = "created" /\ Made(order, MaxItems)
    /\ origin \in {"created", "updated"} =>
          Made(order, MaxItems + 1) /\ stage \notin {"invalid", "refused"}
    /\ origin = "corrupted" =>
          ~ (order.json /\ Validate(order)) /\ stage \in {"sent", "invalid"}
    /\ origin = "foreign" => order \in Foreign

LEMMA MadeMore ==
    ASSUME NEW o, Made(o, MaxItems)
    PROVE  Made(o, MaxItems + 1)
<1>1. o.items \in Seq(Item) /\ Len(o.items) <= MaxItems /\ MaxItems \in Nat
  BY GenAssumption DEF Made
<1>2. Len(o.items) <= MaxItems + 1
  BY <1>1
<1> QED BY <1>2 DEF Made

LEMMA OrderProvenance == Spec => []Provenance
<1>1. Init => Provenance
  <2> SUFFICES ASSUME Init PROVE Provenance
    OBVIOUS
  <2>1. CASE origin = "foreign"
    BY <2>1 DEF Init, Provenance
  <2>2. CASE origin = "created"
    <3>1. PICK n \in 1 .. MaxItems : \E items \in [1 .. n -> GenItem] :
             \E d \in DeliveryCosts, fee \in CustomFees : order = Generated(items, d, fee)
      BY <2>2 DEF Init
    <3>2. Made(order, MaxItems)
      BY <3>1, GeneratedMade
    <3> QED BY <2>2, <3>2, MadeMore DEF Init, Provenance
  <2> QED BY <2>1, <2>2 DEF Init
<1>2. Provenance /\ [Next]_vars => Provenance'
  <2> SUFFICES ASSUME Provenance, [Next]_vars PROVE Provenance'
    OBVIOUS
  <2>1. CASE Create
    BY <2>1 DEF Create, Provenance
  <2>2. CASE Update
    <3>1. PICK o \in RandomMods(order) : order' = recalcTotals(o)
      BY <2>2 DEF Update
    <3>2. Made(order', MaxItems + 1)
      BY <2>2, <3>1, UpdatedMade DEF Update, Provenance
    <3> QED BY <2>2, <3>2 DEF Update, Provenance
  <2>3. CASE Corrupt
    <3>1. ~ (order'.json /\ Validate(order'))
      BY <2>3, CorruptedInvalid DEF Corrupt, Provenance
    <3> QED BY <2>3, <3>1 DEF Corrupt, Provenance
  <2>4. CASE ParseOrder
    <3>1. /\ stage = "sent" /\ UNCHANGED <<origin, order>>
          /\ stage' = IF order.json /\ Validate(order) THEN "valid" ELSE "invalid"
      BY <2>4 DEF ParseOrder
    <3>2. origin \in {"created", "updated"} => order.json /\ Validate(order)
      BY MadePasses DEF Provenance, Made
    <3> QED BY <3>1, <3>2 DEF Provenance
  <2>5. CASE SaveOrder
    <3>1. /\ stage = "valid" /\ UNCHANGED <<origin, order>>
          /\ stage' = IF Storable(order) THEN "stored" ELSE "refused"
      BY <2>5 DEF SaveOrder
    <3>2. origin \in {"created", "updated"} => Storable(order)
      BY MadePasses DEF Provenance
    <3> QED BY <3>1, <3>2 DEF Provenance
  <2>6. CASE UNCHANGED vars
    BY <2>6 DEF vars, Provenance
  <2> QED BY <2>1, <2>2, <2>3, <2>4, <2>5, <2>6 DEF Next
<1> QED BY <1>1, <1>2, PTL DEF Spec

(* Generator, random change and recalculation make only orders that the    *)
(* service accepts and its tables hold (main.go:764-887, order.go:124-372).*)
THEOREM SimulatorOrdersPassAll == Spec => []SimulatorOrdersPass
<1>1. Provenance => SimulatorOrdersPass
  BY DEF Provenance, SimulatorOrdersPass
<1> QED BY <1>1, OrderProvenance, PTL

(* No corruption leaves an order that obeys the rules (main.go:569-686).   *)
THEOREM CorruptionsAreFound == Spec => []CorruptionsAreInvalid
<1>1. Provenance => CorruptionsAreInvalid
  BY DEF Provenance, CorruptionsAreInvalid
<1> QED BY <1>1, OrderProvenance, PTL

(* The sums of a stored order are exact, although those of Validate wrap:  *)
(* its columns are too narrow, and its list too short, for them to wrap to *)
(* something acceptable (order.go:203-214, up.sql).                        *)
THEOREM StoredSumsAreExact == Spec => []StoredSumsExact
<1>1. Checked /\ Provenance => StoredSumsExact
  <2> SUFFICES ASSUME Checked, Provenance, stage = "stored"
               PROVE  /\ order.pay.goods = TrueSum(order.items)
                      /\ order.pay.amount = order.pay.goods + order.pay.delivery + order.pay.fee
    BY DEF StoredSumsExact
  <2> DEFINE g == order.pay.goods
             d == order.pay.delivery
             f == order.pay.fee
             items == order.items
  <2>1. Validate(order) /\ Storable(order) /\ items \in Seq(Item)
    BY DEF Checked
  <2>2. order.pay \in Payment
    BY ForeignAssumption DEF Provenance, Made
  <2>3. /\ g \in Nat /\ d \in Nat /\ f \in Nat /\ g < Narrow /\ d < Narrow /\ f < Narrow
    BY <2>1, <2>2 DEF Validate, PaymentValid, Storable, Fits, Payment
  <2>4. order.pay.amount = g + d + f
    <3>1. AmountOf(order.pay) = g + d + f
      BY <2>3, AmountExact
    <3> QED BY <2>1, <3>1 DEF Validate
  <2>5. GoodsOf(items) = TrueSum(items)
    <3>1. CASE origin \in {"created", "updated"}
      BY <3>1, MadePasses DEF Provenance
    <3>2. CASE origin = "foreign"
      <4>1. Len(items) * Narrow <= Wide
        BY <3>2, ForeignAssumption DEF Provenance
      <4> DEFINE n == Len(items)
                 most == Narrow - 1
                 a == n * Narrow
                 b == n * most
      <4>2. n \in Nat /\ Narrow \in Nat /\ most \in Nat /\ Wide \in Nat /\ 100 < Narrow
            /\ 100 * Narrow <= Wide
        BY <2>1, WidthAssumption
      <4>3. a \in Nat /\ b \in Nat /\ b = a - n
        <5>1. \A j, k \in Int : j * (k - 1) = j * k - j
          BY SMT
        <5>2. b = a - n
          <6>1. n \in Int /\ Narrow \in Int
            BY <4>2
          <6> HIDE DEF n
          <6> QED BY <5>1, <6>1, Zenon
        <5>3. a \in Nat /\ b \in Nat
          BY <4>2, Products
        <5> QED BY <5>2, <5>3
      <4> HIDE DEF n, most, a, b
      <4>4. b < Wide
        BY <4>1, <4>2, <4>3 DEF a, n
      <4>5. ASSUME NEW i \in DOMAIN items PROVE items[i].total \in 0 .. most
        <5>1. ItemValid(items[i]) /\ Fits(items[i].total) /\ items[i] \in Item
          BY <2>1 DEF Validate, Storable
        <5> QED BY <4>2, <5>1 DEF ItemValid, Fits, Item, most
      <4> QED BY <2>1, <4>2, <4>4, <4>5, SumsAgree DEF b, n
    <3> QED BY <3>1, <3>2 DEF Provenance
  <2> QED BY <2>1, <2>4, <2>5 DEF Validate
<1> QED BY <1>1, OrderProvenance, OrdersAreChecked, PTL
=============================================================================
