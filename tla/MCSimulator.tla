----------------------------- MODULE MCSimulator -----------------------------
(* Two workers and fewer uids than operations, for TLC.                    *)
EXTENDS Simulator

CONSTANTS w1, w2, a, b, c

MCWorker == {w1, w2}
MCUID == {a, b, c}
=============================================================================
