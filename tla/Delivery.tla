------------------------------ MODULE Delivery ------------------------------
(***************************************************************************)
(* What the consumer promises about the topic it reads: a message is       *)
(* handled (stored, or written to the dead letter queue) or given up for   *)
(* good, and the group's committed offset never passes a message that is   *)
(* neither.  That is at-least-once delivery with the losses made explicit. *)
(***************************************************************************)
EXTENDS Integers, Sequences

CONSTANTS Partition,   \* partitions of the topic
          Log          \* partition -> the messages it holds

VARIABLES handled,     \* messages stored or dead-lettered
          givenUp,     \* messages the consumer has turned away from
          committed    \* partition -> messages the group has committed

Message == UNION {{<<p, o>> : o \in 1 .. Len(Log[p])} : p \in Partition}

(* Everything up to offset n of partition p is handled or given up.        *)
Settled(p, n) == \A o \in 1 .. n : <<p, o>> \in handled \union givenUp

CommittedAreSettled == \A p \in Partition : Settled(p, committed[p])

Init ==
    /\ handled = {}
    /\ givenUp = {}
    /\ committed = [p \in Partition |-> 0]

Handle(m) ==
    /\ handled' = handled \union {m}
    /\ UNCHANGED <<givenUp, committed>>

GiveUp(m) ==
    /\ givenUp' = givenUp \union {m}
    /\ UNCHANGED <<handled, committed>>

(* Offsets are committed, for some partitions; a late commit may even move *)
(* one back.                                                               *)
Commit ==
    /\ \A p \in Partition : committed'[p] = committed[p] \/ Settled(p, committed'[p])
    /\ UNCHANGED <<handled, givenUp>>

(* Messages given up but not yet passed by the committed offset will be    *)
(* delivered again.                                                        *)
Reconsider ==
    /\ givenUp' = {m \in givenUp : m[2] <= committed[m[1]]}
    /\ UNCHANGED <<handled, committed>>

Next ==
    \/ \E m \in Message : Handle(m) \/ GiveUp(m)
    \/ Commit
    \/ Reconsider

Spec == Init /\ [][Next]_<<handled, givenUp, committed>>
=============================================================================
