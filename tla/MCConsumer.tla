----------------------------- MODULE MCConsumer -----------------------------
(* Small topics for TLC.                                                   *)
EXTENDS Consumer

CONSTANTS p1, p2

(* Two partitions, with a message of every kind between them, and one that *)
(* can be stored behind one that cannot.                                   *)
MCPartition == {p1, p2}
MCLog == [p \in MCPartition |-> IF p = p1 THEN <<"poison", "valid">> ELSE <<"invalid">>]

(* Nothing but orders that can be stored, for what is asked of them alone. *)
MCValidLog == [p \in MCPartition |-> <<"valid">>]
=============================================================================
