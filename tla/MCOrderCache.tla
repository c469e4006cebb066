---------------------------- MODULE MCOrderCache ----------------------------
(* A small cache for TLC: three orders, room for two, a TTL of two ticks.  *)
EXTENDS OrderCache

CONSTANTS a, b, c

MCUID == {a, b, c}
MCOrder == [uid : {a}, rev : {1, 2}] \union [uid : {b, c}, rev : {1}]

(* A single order, two orders, a duplicate that uses up room, and more     *)
(* orders than the cache holds.                                            *)
MCBatches ==
    {<<[uid |-> a, rev |-> 1]>>,
     <<[uid |-> b, rev |-> 1], [uid |-> c, rev |-> 1]>>,
     <<[uid |-> a, rev |-> 2], [uid |-> a, rev |-> 1], [uid |-> c, rev |-> 1]>>,
     <<[uid |-> c, rev |-> 1], [uid |-> b, rev |-> 1], [uid |-> a, rev |-> 2]>>}
=============================================================================
