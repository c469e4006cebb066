----------------------------- MODULE BoundedMap -----------------------------
(***************************************************************************)
(* What the order cache promises to the code that calls it (the interface  *)
(* OrderCache of internal/cache, used by the consumer and the handlers): a *)
(* bounded map from order uids to orders that may forget an order at any   *)
(* time, but never invents one, never files one under another uid, never   *)
(* replaces one except by a Put of that very uid, and gives up at most one *)
(* other order to make room for a Put.                                     *)
(***************************************************************************)
EXTENDS Integers, FiniteSets

CONSTANTS UID,       \* order uids
          Order,     \* orders: records with a uid, the rest of the data opaque
          MaxItems   \* capacity; 0 or less means unlimited

VARIABLE content     \* the orders the map holds, keyed by uid

Fits(S) == MaxItems > 0 => Cardinality(S) <= MaxItems

(***************************************************************************)
(* Every order is filed under its own uid, and there is room for them all. *)
(***************************************************************************)
Kept ==
    /\ DOMAIN content \subseteq UID
    /\ \A u \in DOMAIN content : content[u] \in Order /\ content[u].uid = u
    /\ Fits(DOMAIN content)

Init == content = [u \in {} |-> 0]

(* One order enters or is replaced; at most one other makes room for it.   *)
Put(o) ==
    \E gone \in SUBSET (DOMAIN content \ {o.uid}) :
        /\ gone # {} => o.uid \notin DOMAIN content /\ Cardinality(gone) = 1
        /\ content' = [u \in (DOMAIN content \ gone) \union {o.uid} |->
                          IF u = o.uid THEN o ELSE content[u]]
        /\ Fits(DOMAIN content')

(* Some orders are forgotten: deleted by a caller, or expired.             *)
Forget ==
    \E gone \in SUBSET DOMAIN content :
        content' = [u \in DOMAIN content \ gone |-> content[u]]

(* A batch enters: only uids that are absent, and only as many as fit.     *)
Fill ==
    /\ DOMAIN content \subseteq DOMAIN content'
    /\ \A u \in DOMAIN content : content'[u] = content[u]
    /\ content' = [u \in DOMAIN content' |-> content'[u]]
    /\ Kept'

Next == (\E o \in Order : Put(o)) \/ Forget \/ Fill

Spec == Init /\ [][Next]_content
=============================================================================
