---------------------------- MODULE MCOrderRepo -----------------------------
(* One order with two versions, for TLC.                                   *)
EXTENDS OrderRepo

CONSTANTS a, v1, v2, s1, s2, r1

MCUid == {a}
MCVersion == {v1, v2}

(* The versions differ in their number of items.                           *)
MCCount == [v \in MCVersion |-> IF v = v1 THEN 1 ELSE 2]

MCSession == {s1, s2}
MCReader == {r1}
=============================================================================
