---------------------------- MODULE MCLifecycle -----------------------------
(* Two requests and one connection, which they and the consumer share, for *)
(* TLC.                                                                    *)
EXTENDS Lifecycle

CONSTANTS r1, r2

MCRequest == {r1, r2}
=============================================================================
