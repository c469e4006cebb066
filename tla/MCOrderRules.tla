----------------------------- MODULE MCOrderRules -----------------------------
(***************************************************************************)
(* The numbers of the generator at the ends of their ranges, and orders of *)
(* other producers around the limits of both widths: prices at 0, at the   *)
(* end of a column and of an int, three totals whose sum wraps to 2, the   *)
(* item of l0/Task/model.json, and one flawed field at a time.             *)
(***************************************************************************)
EXTENDS OrderRules

MCWide == 33554432   \* 2^25
MCNarrow == 262144   \* 2^18

MCGenPrices == {500, 49900}
MCGenSales == {0, 33, 70}
MCModSales == {10, 69}
MCDeliveryCosts == {1000, 3900}
MCCustomFees == {0, 4900}

Priced(p, s, t) == [ids |-> "ok", price |-> p, sale |-> s, total |-> t]

Third == 22369622    \* three of them are 2 more than 2 * MCWide

Items ==
    {Priced(p, s, t) : p \in {-1, 0, 453, MCNarrow - 1, MCNarrow}, s \in {-1, 0, 30, 100, 101},
                     t \in {-1, 0, 317, 318, MCNarrow - 1, MCNarrow}}
    \union {Priced(p, s, t) : p \in {Third, MCWide - 1}, s \in {0, 3, 60},
                           t \in {0, 2, Third, MCWide - 1}}
    \union {Priced(p, s, Discounted(p, s)) : p \in {1, Third, MCWide - 1}, s \in {3, 60}}
    \union {[Priced(453, 30, 318) EXCEPT !.ids = x] : x \in {"bad", "long"}}

Lists ==
    {<<i>> : i \in Items}
    \union {<<i, j>> : i, j \in {Priced(453, 30, 318), Priced(453, 30, 317), Priced(MCNarrow - 1, 0, MCNarrow - 1)}}
    \union {<<i, i, i>> : i \in {Priced(453, 30, 318), Priced(Third, 0, Third)}}

Order(items, goods, d, fee, amount) ==
    [json |-> TRUE, text |-> AllOk, items |-> items,
     pay |-> [goods |-> goods, delivery |-> d, fee |-> fee, amount |-> amount]]

Sums ==
    {Order(items, GoodsOf(items) + e, d, fee, AmountOf([goods |-> GoodsOf(items) + e, delivery |-> d, fee |-> fee]) + x) :
        items \in Lists, e \in {0, -1}, d \in {0, MCNarrow - 1}, fee \in {0, MCWide - 1}, x \in {0, 1}}

Texts ==
    {[Order(<<Priced(453, 30, 318)>>, 318, 1500, 0, 1818) EXCEPT !.text[f] = x] :
        f \in Field, x \in {"ok", "empty", "bad"}}
    \union {[Order(<<Priced(453, 30, 318)>>, 318, 1500, 0, 1818) EXCEPT !.text[f] = "long"] : f \in Unlimited}

MCForeign == Sums \union Texts \union {Order(<<>>, 0, 0, 0, 0)}
===============================================================================
