------------------------------ MODULE MCWebUI -------------------------------
(* Up to two orders in pages of one or two, and polls that overlap, for    *)
(* TLC.                                                                    *)
EXTENDS WebUI

CONSTANTS p1, p2

MCPoll == {p1, p2}
MCSizes == {1, 2}
=============================================================================
