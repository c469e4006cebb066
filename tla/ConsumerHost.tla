---------------------------- MODULE ConsumerHost ----------------------------
(***************************************************************************)
(* What the process does to its consumer, as Consumer assumes it: the      *)
(* goroutine runs until the context is cancelled, reader and DLQ writer    *)
(* are closed only after that, and the process ends in order only when     *)
(* they are closed and the goroutine has returned.  Before that it can     *)
(* only die.                                                               *)
(***************************************************************************)
VARIABLE host   \* the consumer's surroundings, or how the process ended

Running(goroutine, ctx, reader) ==
    [goroutine |-> goroutine, ctx |-> ctx, reader |-> reader]

None == Running("none", "live", "open")
Ended == Running("returned", "ended", "closed")
Dead == Running("dead", "dead", "dead")

Init == host = None

Start == host = None /\ host' = Running("running", "live", "open")

Cancel ==
    /\ host.ctx = "live"
    /\ host.goroutine = "running"
    /\ host' = [host EXCEPT !.ctx = "cancelled"]

Close ==
    /\ host.ctx = "cancelled"
    /\ host.reader = "open"
    /\ host' = [host EXCEPT !.reader = "closed"]

Return ==
    /\ host.ctx = "cancelled"
    /\ host.goroutine = "running"
    /\ host' = [host EXCEPT !.goroutine = "returned"]

End == host = Running("returned", "cancelled", "closed") /\ host' = Ended

Die == host # Ended /\ host' = Dead

Restart == host \in {Ended, Dead} /\ host' = None

Next == Start \/ Cancel \/ Close \/ Return \/ End \/ Die \/ Restart

Spec == Init /\ [][Next]_host
=============================================================================
