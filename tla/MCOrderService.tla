--------------------------- MODULE MCOrderService ---------------------------
(* Two versions of one order around a message that does not parse, for     *)
(* TLC.  With one uid nothing is evicted; Expire covers entries that leave *)
(* the cache at any moment.                                                *)
EXTENDS OrderService

CONSTANTS p1, a, r1, d1

MCPartition == {p1}
MCUID == {a}
MCLog == [p \in MCPartition |-> <<"valid", "invalid", "valid">>]
MCUidOf == [m \in MCPartition \X (1 .. 3) |-> a]
MCReader == {r1}
MCDeleter == {d1}
=============================================================================
