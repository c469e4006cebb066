----------------------------- MODULE OrderStore -----------------------------
(***************************************************************************)
(* What the repository promises about the orders it keeps: every call that *)
(* stores or deletes an order takes effect at one moment, on the whole     *)
(* order, and at most once, or it takes no effect at all.  A call that has *)
(* reported an error may take effect later all the same.                   *)
(***************************************************************************)
CONSTANTS Uid,         \* order uids
          Content,     \* what is stored under a uid, as a whole
          Call,        \* calls under way at a time
          NoCall

VARIABLES store,       \* uid -> content
          pending      \* call -> what it is to store, or NoCall

Request == [uid : Uid, content : Content]

Init ==
    /\ store \in [Uid -> Content]
    /\ pending = [c \in Call |-> NoCall]

Start(c, r) ==
    /\ pending[c] = NoCall
    /\ pending' = [pending EXCEPT ![c] = r]
    /\ UNCHANGED store

TakeEffect(c) ==
    /\ pending[c] # NoCall
    /\ store' = [store EXCEPT ![pending[c].uid] = pending[c].content]
    /\ pending' = [pending EXCEPT ![c] = NoCall]

NoEffect(c) ==
    /\ pending[c] # NoCall
    /\ pending' = [pending EXCEPT ![c] = NoCall]
    /\ UNCHANGED store

Next == \E c \in Call :
    \/ \E r \in Request : Start(c, r)
    \/ TakeEffect(c)
    \/ NoEffect(c)

Spec == Init /\ [][Next]_<<store, pending>>
=============================================================================
