------------------------------ MODULE OrderRules ------------------------------
(***************************************************************************)
(* The way of an order from its producer through ParseOrder                *)
(* (internal/models/order.go) to the columns of sql/up.sql.  Three parts   *)
(* of the code must agree about it and do not know each other: the         *)
(* simulator that makes orders, valid and invalid ones                     *)
(* (cmd/test_producer/main.go), the rules of Validate, and the schema.     *)
(*                                                                         *)
(* Money is arithmetic on integers of two widths: the 64 bits of Go's int  *)
(* and the 32 bits of the columns.  A text, identifier or date is only     *)
(* what Validate and the schema tell apart: ok, empty, bad (it breaks its  *)
(* format, list or range), or long (longer than its column, and otherwise  *)
(* ok).                                                                    *)
(*                                                                         *)
(* A definition named X_Y is X with a plausible mistake Y; nothing uses    *)
(* it.  It stands before X so that X can be exchanged for it, to show that *)
(* a property would notice.                                                *)
(***************************************************************************)
EXTENDS Integers, Sequences, SequencesExt

CONSTANTS Wide,            \* int holds -Wide .. Wide - 1 (2^63 in the code)
          Narrow,          \* INTEGER holds -Narrow .. Narrow - 1 (2^31)
          GenPrices,       \* what generateItem may draw
          GenSales,
          DeliveryCosts,   \* what generateOrder may draw
          CustomFees,
          ModSales,        \* what applyRandomMod may draw
          MaxItems,        \* bound: items of a generated order (4 in the code)
          Foreign          \* orders of other producers

ASSUME WidthAssumption ==
    /\ Narrow \in Nat /\ Wide \in Nat
    /\ 100 < Narrow /\ 100 * Narrow <= Wide
ASSUME GenAssumption ==
    /\ GenPrices \subseteq Nat /\ GenSales \subseteq 0 .. 100 /\ ModSales \subseteq 0 .. 100
    /\ DeliveryCosts \subseteq Nat /\ CustomFees \subseteq Nat
    /\ MaxItems \in Nat
    \* 5 * 49900 + 3900 + 4900 in the code, an item added by doUpdate included
    /\ \A p \in GenPrices, d \in DeliveryCosts, fee \in CustomFees :
          (MaxItems + 1) * p + d + fee < Narrow

Payment == [goods : Int, delivery : Int, fee : Int, amount : Int]

Item == [ids : {"ok", "bad", "long"}, price : Int, sale : Int, total : Int]

Part == {"json", "text", "items", "pay"}

VARIABLES
    origin,    \* who made the order: "created", "updated", "corrupted", "foreign"
    order,     \* the order, or the message it travels in
    stage      \* "drawn", "sent", "invalid", "valid", "stored", "refused"

vars == <<origin, order, stage>>

(* Go's int wraps, and its division truncates.                             *)
Wrap(x) == ((x + Wide) % (2 * Wide)) - Wide

Quotient(x, d) == IF x >= 0 THEN x \div d ELSE -((-x) \div d)

(* The sum as Validate and generateOrder compute it, and the true one.     *)
GoodsOf(items) == FoldLeft(LAMBDA sum, item : Wrap(sum + item.total), 0, items)
TrueSum(items) == FoldLeft(LAMBDA sum, item : sum + item.total, 0, items)

(* item.Price - (item.Price * item.Sale / 100)                             *)
Discounted(price, sale) == Wrap(price - Quotient(Wrap(price * sale), 100))

AmountOf(pay) == Wrap(Wrap(pay.goods + pay.delivery) + pay.fee)

-----------------------------------------------------------------------------
(* The fields by what Validate asks of them ...                            *)
Required == {"order_uid", "track_number", "entry", "customer_id", "date_created", "name", "city",
             "address", "transaction", "currency", "payment_dt"}
Optional == {"locale", "shardkey", "sm_id", "delivery_service", "phone", "email", "provider", "bank"}
Free     == {"internal_signature", "oof_shard", "zip", "region", "request_id"}

Field == Required \union Optional \union Free

(* ... and those it does not keep from being longer than their column.     *)
Unlimited == Free \union {"customer_id", "city", "address", "transaction", "email"}

AllOk == [f \in Field |-> "ok"]

(* A Kafka message is shorter than 2^31 bytes (the consumer asks for 10^7, *)
(* consumer.go:65), too short for the 2^32 items of Wide = 2^32 * Narrow.  *)
ASSUME ForeignAssumption ==
    \A o \in Foreign : /\ DOMAIN o = Part /\ o.items \in Seq(Item) /\ o.pay \in Payment
                       /\ Len(o.items) * Narrow <= Wide
                       /\ \A f \in Field \ Unlimited : o.text[f] # "long"

TextValid(text) ==
    /\ \A f \in Required : text[f] \notin {"empty", "bad"}
    /\ \A f \in Optional : text[f] # "bad"

PaymentValid(pay) == pay.amount >= 0 /\ pay.delivery >= 0 /\ pay.goods >= 0 /\ pay.fee >= 0

ItemValid_AnyTotal(item) ==
    /\ item.ids \in {"ok", "long"}
    /\ item.price >= 0 /\ item.sale \in 0 .. 100 /\ item.total >= 0
    /\ item.total <= Discounted(item.price, item.sale)
ItemValid(item) ==
    /\ item.ids \in {"ok", "long"}   \* chrt_id, name, nm_id, brand, status; rid, size free
    /\ item.price >= 0 /\ item.sale \in 0 .. 100 /\ item.total >= 0
    /\ item.total = Discounted(item.price, item.sale)

(* Order.Validate: no error anywhere.                                      *)
Validate_AnyItems(o) ==
    /\ TextValid(o.text)
    /\ PaymentValid(o.pay)
    /\ \A i \in DOMAIN o.items : ItemValid(o.items[i])
    /\ o.pay.goods = GoodsOf(o.items)
    /\ o.pay.amount = AmountOf(o.pay)
Validate(o) ==
    /\ TextValid(o.text)
    /\ PaymentValid(o.pay)
    /\ o.items # <<>>
    /\ \A i \in DOMAIN o.items : ItemValid(o.items[i])
    /\ o.pay.goods = GoodsOf(o.items)
    /\ o.pay.amount = AmountOf(o.pay)

(* Whether the columns of sql/up.sql hold the order.                       *)
Fits(n) == n < Narrow /\ n >= -Narrow

Storable_PaymentOnly(o) ==
    /\ \A f \in Field : o.text[f] # "long"
    /\ Fits(o.pay.amount) /\ Fits(o.pay.delivery) /\ Fits(o.pay.goods) /\ Fits(o.pay.fee)
Storable(o) ==
    /\ \A f \in Field : o.text[f] # "long"
    /\ Fits(o.pay.amount) /\ Fits(o.pay.delivery) /\ Fits(o.pay.goods) /\ Fits(o.pay.fee)
    /\ \A i \in DOMAIN o.items :
          LET item == o.items[i]
          IN  item.ids # "long" /\ Fits(item.price) /\ Fits(item.sale) /\ Fits(item.total)

-----------------------------------------------------------------------------
(* generateItem, generateOrder.                                            *)
GenItem == {[ids |-> "ok", price |-> p, sale |-> s, total |-> Discounted(p, s)] :
               p \in GenPrices, s \in GenSales}

Paid(pay) == [pay EXCEPT !.amount = AmountOf(pay)]

Generated(items, d, fee) ==
    LET goods == GoodsOf(items)
    IN  [json |-> TRUE, text |-> AllOk, items |-> items,
         pay |-> Paid([goods |-> goods, delivery |-> IF goods > 500000 THEN 0 ELSE d,
                       fee |-> fee, amount |-> 0])]

(* applyRandomMod: one item more, another sale for the first, or another   *)
(* city, customer or name.                                                 *)
RandomMods(o) ==
    {[o EXCEPT !.items = Append(@, item)] : item \in GenItem}
    \union {[o EXCEPT !.items[1].sale = s] : s \in ModSales}
    \union {o}

recalcTotals_KeepsItems(o) ==
    [o EXCEPT !.pay = Paid([@ EXCEPT !.goods = GoodsOf(o.items)])]
recalcTotals(o) ==
    LET items == [i \in DOMAIN o.items |->
                     [o.items[i] EXCEPT !.total = Discounted(o.items[i].price, o.items[i].sale)]]
    IN  [o EXCEPT !.items = items, !.pay = Paid([@ EXCEPT !.goods = GoodsOf(items)])]

(* The corruptions of doInvalidCreate ...                                  *)
NoItems(o) == [o EXCEPT !.items = <<>>, !.pay = Paid([@ EXCEPT !.goods = 0])]

NegativePrices(o) ==
    [o EXCEPT !.items = [i \in DOMAIN @ |-> [@[i] EXCEPT !.price = -100, !.total = -100]],
              !.pay = Paid([@ EXCEPT !.goods = -100 * Len(o.items)])]

Unreadable(o)   == [o EXCEPT !.json = FALSE]
Unnamed(o)      == [o EXCEPT !.text.order_uid = "empty", !.text.transaction = "empty"]
BadCurrency(o)  == [o EXCEPT !.text.currency = "bad"]
Overcharged(o)  == [o EXCEPT !.pay.amount = @ + 99999]

InvalidCreates(o) ==
    {Unreadable(o), Unnamed(o), NoItems(o), NegativePrices(o), BadCurrency(o), Overcharged(o)}

(* ... and of doInvalidUpdate.                                             *)
Scrambled(o) ==
    [o EXCEPT
       !.text = [f \in Field |->
                   CASE f \in {"entry", "currency", "payment_dt"} -> "bad"
                     [] f \in {"customer_id", "name", "city", "address", "transaction"} -> "empty"
                     [] OTHER -> "ok"],
       !.items = <<[ids |-> "bad", price |-> -500, sale |-> 200, total |-> -500]>>]

InvalidUpdates(o) == {Unreadable(o), NoItems(o), Scrambled(o)}

-----------------------------------------------------------------------------
Init ==
    \/ /\ origin = "created" /\ stage = "drawn"
       /\ \E n \in 1 .. MaxItems : \E items \in [1 .. n -> GenItem] :
             \E d \in DeliveryCosts, fee \in CustomFees : order = Generated(items, d, fee)
    \/ /\ origin = "foreign" /\ stage = "sent"
       /\ order \in Foreign

(* doCreate sends the order as it was drawn, doUpdate with a change.       *)
Create ==
    /\ stage = "drawn"
    /\ stage' = "sent"
    /\ UNCHANGED <<origin, order>>

Update ==
    /\ stage = "drawn"
    /\ \E o \in RandomMods(order) : order' = recalcTotals(o)
    /\ origin' = "updated"
    /\ stage' = "sent"

Corrupt ==
    /\ stage = "drawn"
    /\ order' \in InvalidCreates(order) \union InvalidUpdates(order)
    /\ origin' = "corrupted"
    /\ stage' = "sent"

ParseOrder ==
    /\ stage = "sent"
    /\ stage' = IF order.json /\ Validate(order) THEN "valid" ELSE "invalid"
    /\ UNCHANGED <<origin, order>>

SaveOrder ==
    /\ stage = "valid"
    /\ stage' = IF Storable(order) THEN "stored" ELSE "refused"
    /\ UNCHANGED <<origin, order>>

Next == Create \/ Update \/ Corrupt \/ ParseOrder \/ SaveOrder

Spec == Init /\ [][Next]_vars

-----------------------------------------------------------------------------
(* Whatever the simulator creates, or makes of a tracked order, passes the *)
(* rules of the service and fits its tables: generator, random change and  *)
(* recalculation agree with Validate and schema (main.go:764-887,          *)
(* order.go:124-372, up.sql).                                              *)
SimulatorOrdersPass ==
    origin \in {"created", "updated"} => stage \notin {"invalid", "refused"}

(* Every corruption makes every order it is applied to invalid; none       *)
(* leaves an order that happens to obey the rules (main.go:569-686).       *)
CorruptionsAreInvalid == origin = "corrupted" => stage \notin {"valid", "stored", "refused"}

(* A stored item costs its price less the discount, which is rounded down, *)
(* and never more than its price: the product that Validate computes may   *)
(* wrap around (order.go:350), but none that did passes the columns.       *)
StoredItemsExact ==
    stage = "stored" =>
        \A i \in DOMAIN order.items :
            LET item == order.items[i]
            IN  /\ item.total = item.price - (item.price * item.sale) \div 100
                /\ item.total \in 0 .. item.price

(* The amounts of a stored order add up, in numbers that do not wrap,      *)
(* although the sums of Validate may (order.go:203-214).                   *)
StoredSumsExact ==
    stage = "stored" =>
        /\ order.pay.goods = TrueSum(order.items)
        /\ order.pay.amount = order.pay.goods + order.pay.delivery + order.pay.fee

(* order.go:63 says of an item: total price = price * (100 - sale) / 100,  *)
(* and the model of the assignment has 453, 30 and 317.  An order that     *)
(* follows this in all its items, and is right otherwise, would be valid.  *)
DocumentedTotalsPass ==
    LET documented ==
            /\ order.json /\ TextValid(order.text) /\ PaymentValid(order.pay)
            /\ order.items # <<>>
            /\ \A i \in DOMAIN order.items :
                  LET item == order.items[i]
                  IN  /\ item.ids = "ok" /\ item.price \in 0 .. Narrow /\ item.sale \in 0 .. 100
                      /\ item.total = (item.price * (100 - item.sale)) \div 100
            /\ order.pay.goods = GoodsOf(order.items)
            /\ order.pay.amount = AmountOf(order.pay)
    IN  documented => stage # "invalid"
===============================================================================
