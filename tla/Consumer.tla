------------------------------ MODULE Consumer ------------------------------
(***************************************************************************)
(* The Kafka consumer of internal/kafka/consumer.go: one goroutine that    *)
(* fetches a message, saves its order with up to five attempts, dead-      *)
(* letters what it cannot save and asks for the offset to be committed.    *)
(*                                                                         *)
(* Commits are asynchronous (CommitInterval is one second): CommitMessages *)
(* only hands the offset to the reader, which sends it to the group        *)
(* coordinator later, and a crash in between loses it.  The reader, the    *)
(* broker and the database are outside src/ and are modelled as the code   *)
(* uses them: any call may fail, a failed call may have taken effect, a    *)
(* failed save may take it later, and a select between a cancelled context *)
(* and a channel that is ready may choose either.                          *)
(*                                                                         *)
(* A definition named X_Y is X with a plausible mistake Y; nothing uses    *)
(* it.  It stands before X so that X can be exchanged for it, to show that *)
(* a property would notice.                                                *)
(***************************************************************************)
EXTENDS Integers, Sequences, FiniteSets

CONSTANTS Partition,     \* partitions of the topic
          Log,           \* partition -> what its messages turn out to be
          MaxRetries,    \* maxTransientRetries
          MaxOutages,    \* bound: crashes and shutdowns explored
          MaxRejoins,    \* bound: rebalances explored
          MaxLate        \* bound: failed calls the server may yet carry out

(* A message does not parse or validate; or its order can be stored; or    *)
(* the order is valid but the database refuses it (a value longer than its *)
(* column).                                                                *)
Kind == {"invalid", "valid", "poison"}

ASSUME LogAssumption == Log \in [Partition -> Seq(Kind)]
ASSUME RetriesAssumption == MaxRetries \in Nat \ {0}
ASSUME BoundsAssumption == MaxOutages \in Nat /\ MaxRejoins \in Nat /\ MaxLate \in Nat

VARIABLES
    pc,           \* where the consumer goroutine is
    msg,          \* the message it works on
    attempt,      \* the attempt of processWithRetry
    failures,     \* ghost: saves of the message that failed since its fetch
    ctx,          \* "live" or "cancelled"
    reader,       \* "open"; "closing": the reader is closed; "closed": so is
                  \* the DLQ writer
    stats,        \* received, processed, failed
    position,     \* partition -> messages fetched in this session
    stash,        \* partition -> offset the reader has yet to commit, 0: none
    committed,    \* partition -> messages committed by the group
    saved,        \* messages whose order reached the database
    late,         \* messages whose save failed after its COMMIT was sent, and
                  \* on which the server has yet to decide
    dead,         \* messages in the dead letter topic
    unwritten,    \* ghost: messages whose write to that topic failed
    interrupted,  \* ghost: messages left in the middle of a retry
    outages,      \* crashes and shutdowns so far
    rejoins       \* rebalances so far

vars == <<pc, msg, attempt, failures, ctx, reader, stats, position, stash, committed,
          saved, late, dead, unwritten, interrupted, outages, rejoins>>

tries   == <<attempt, failures>>
process == <<ctx, reader, outages, rejoins>>
offsets == <<position, stash, committed>>
lost    == <<dead, unwritten, interrupted>>
fates   == <<saved, late, lost>>

Message == UNION {{<<p, o>> : o \in 1 .. Len(Log[p])} : p \in Partition}

NoMessage == <<>>

KindOf(m) == Log[m[1]][m[2]]

NoStats == [received |-> 0, processed |-> 0, failed |-> 0]

-----------------------------------------------------------------------------
Init ==
    /\ pc = "fetch"
    /\ msg = NoMessage
    /\ attempt = 1 /\ failures = 0
    /\ ctx = "live"
    /\ reader = "open"
    /\ stats = NoStats
    /\ position = [p \in Partition |-> 0]
    /\ stash = [p \in Partition |-> 0]
    /\ committed = [p \in Partition |-> 0]
    /\ saved = {} /\ late = {} /\ dead = {} /\ unwritten = {} /\ interrupted = {}
    /\ outages = 0 /\ rejoins = 0

(* Start: FetchMessage returns the next message of some partition; a       *)
(* buffered one even when the context is cancelled or the reader closed.   *)
Fetch_ReadMessage(p) ==
    /\ pc = "fetch"
    /\ position[p] < Len(Log[p])
    /\ position' = [position EXCEPT ![p] = @ + 1]
    /\ stash' = [stash EXCEPT ![p] = position[p] + 1]
    /\ msg' = <<p, position[p] + 1>>
    /\ attempt' = 1 /\ failures' = 0
    /\ stats' = [stats EXCEPT !.received = @ + 1]
    /\ pc' = "process"
    /\ UNCHANGED <<committed, process, fates>>
Fetch(p) ==
    /\ pc = "fetch"
    /\ position[p] < Len(Log[p])
    /\ position' = [position EXCEPT ![p] = @ + 1]
    /\ msg' = <<p, position[p] + 1>>
    /\ attempt' = 1 /\ failures' = 0
    /\ stats' = [stats EXCEPT !.received = @ + 1]
    /\ pc' = "process"
    /\ UNCHANGED <<stash, committed, process, fates>>

(* FetchMessage fails; the loop waits a second or for the context.         *)
FetchError ==
    /\ pc = "fetch"
    /\ pc' = "pause"
    /\ UNCHANGED <<msg, tries, stats, offsets, process, fates>>

PauseOver_IgnoresContext ==
    /\ pc = "pause"
    /\ pc' = "fetch"
    /\ UNCHANGED <<msg, tries, stats, offsets, process, fates>>
PauseOver ==
    /\ pc = "pause"
    /\ ctx = "live"
    /\ pc' = "fetch"
    /\ UNCHANGED <<msg, tries, stats, offsets, process, fates>>

(* context.Canceled from FetchMessage, or ctx.Done during the pause.       *)
Stopped ==
    /\ pc \in {"fetch", "pause"}
    /\ ctx = "cancelled"
    /\ pc' = "stopped"
    /\ UNCHANGED <<msg, tries, stats, offsets, process, fates>>

-----------------------------------------------------------------------------
(* processMessage: ParseOrder rejects the message, a permanent error.      *)
ParseError_NotCounted ==
    /\ pc = "process"
    /\ KindOf(msg) = "invalid"
    /\ pc' = "deadLetter"
    /\ UNCHANGED <<msg, tries, stats, offsets, process, fates>>
ParseError ==
    /\ pc = "process"
    /\ KindOf(msg) = "invalid"
    /\ stats' = [stats EXCEPT !.failed = @ + 1]
    /\ pc' = "deadLetter"
    /\ UNCHANGED <<msg, tries, offsets, process, fates>>

(* SaveOrder succeeds; the cache is still to be set.  An earlier attempt   *)
(* the server has not decided on locks the row and keeps it waiting.       *)
SaveOrder ==
    /\ pc = "process"
    /\ KindOf(msg) = "valid"
    /\ msg \notin late
    /\ saved' = saved \union {msg}
    /\ pc' = "cache"
    /\ UNCHANGED <<msg, tries, stats, offsets, process, late, lost>>

(* The connection was lost, or the context ended, when COMMIT had been     *)
(* sent: the server may carry it out at any time from now on.              *)
LostReply ==
    /\ KindOf(msg) = "valid"
    /\ msg \notin late
    /\ Cardinality(late) < MaxLate
    /\ late' = late \union {msg}

(* SaveOrder fails.  There is another attempt after a pause, or none.  (A  *)
(* crash in the middle of SaveOrder is this step and then the crash.)      *)
SaveError_OneAttemptLess ==
    /\ pc = "process"
    /\ KindOf(msg) # "invalid"
    /\ LostReply \/ UNCHANGED late
    /\ failures' = failures + 1
    /\ \/ /\ attempt < MaxRetries - 1
          /\ pc' = "backoff"
          /\ UNCHANGED stats
       \/ /\ attempt >= MaxRetries - 1
          /\ pc' = "deadLetter"
          /\ stats' = [stats EXCEPT !.failed = @ + 1]
    /\ UNCHANGED <<msg, attempt, offsets, process, saved, lost>>
SaveError_OneAttemptMore ==
    /\ pc = "process"
    /\ KindOf(msg) # "invalid"
    /\ LostReply \/ UNCHANGED late
    /\ failures' = failures + 1
    /\ \/ /\ attempt <= MaxRetries
          /\ pc' = "backoff"
          /\ UNCHANGED stats
       \/ /\ attempt > MaxRetries
          /\ pc' = "deadLetter"
          /\ stats' = [stats EXCEPT !.failed = @ + 1]
    /\ UNCHANGED <<msg, attempt, offsets, process, saved, lost>>
SaveError ==
    /\ pc = "process"
    /\ KindOf(msg) # "invalid"
    /\ LostReply \/ UNCHANGED late
    /\ failures' = failures + 1
    /\ \/ /\ attempt < MaxRetries
          /\ pc' = "backoff"
          /\ UNCHANGED stats
       \/ /\ attempt = MaxRetries
          /\ pc' = "deadLetter"
          /\ stats' = [stats EXCEPT !.failed = @ + 1]
    /\ UNCHANGED <<msg, attempt, offsets, process, saved, lost>>

(* cache.Set, and the message counts as processed.                         *)
CacheSet ==
    /\ pc = "cache"
    /\ stats' = [stats EXCEPT !.processed = @ + 1]
    /\ pc' = "commit"
    /\ UNCHANGED <<msg, tries, offsets, process, fates>>

(* The backoff elapses.  Once the context is cancelled its timer, a second *)
(* at least, cannot win.                                                   *)
Retry_NextMessage ==
    /\ pc = "backoff"
    /\ ctx = "live"
    /\ msg' = NoMessage
    /\ pc' = "fetch"
    /\ UNCHANGED <<tries, stats, offsets, process, fates>>
Retry_StartsOver ==
    /\ pc = "backoff"
    /\ ctx = "live"
    /\ attempt' = 1 /\ failures' = 0
    /\ pc' = "process"
    /\ UNCHANGED <<msg, stats, offsets, process, fates>>
Retry ==
    /\ pc = "backoff"
    /\ ctx = "live"
    /\ attempt' = attempt + 1
    /\ pc' = "process"
    /\ UNCHANGED <<msg, failures, stats, offsets, process, fates>>

(* processWithRetry returns, and its counter is gone.                      *)
Returns == msg' = NoMessage /\ attempt' = 1 /\ failures' = 0

(* The context is cancelled during the backoff: the message is left        *)
(* uncommitted.                                                            *)
Interrupt ==
    /\ pc = "backoff"
    /\ ctx = "cancelled"
    /\ interrupted' = interrupted \union {msg}
    /\ Returns
    /\ pc' = "fetch"
    /\ UNCHANGED <<stats, offsets, process, saved, late, dead, unwritten>>

(* sendToDLQ: the message reaches the dead letter topic (though an error   *)
(* may be reported all the same) or it does not, which is only logged.     *)
DeadLetter_NoCommit ==
    /\ pc = "deadLetter"
    /\ \/ reader # "closed" /\ dead' = dead \union {msg} /\ UNCHANGED unwritten
       \/ unwritten' = unwritten \union {msg} /\ UNCHANGED dead
    /\ pc' = "fetch"
    /\ UNCHANGED <<msg, tries, stats, offsets, process, saved, late, interrupted>>
DeadLetter ==
    /\ pc = "deadLetter"
    /\ \/ reader # "closed" /\ dead' = dead \union {msg} /\ UNCHANGED unwritten
       \/ unwritten' = unwritten \union {msg} /\ UNCHANGED dead
    /\ pc' = "commit"
    /\ UNCHANGED <<msg, tries, stats, offsets, process, saved, late, interrupted>>

Newer(a, b) == IF a > b THEN a ELSE b

(* CommitMessages hands the offset to the reader, which keeps the highest  *)
(* one.  It fails only when the context is cancelled or the reader closed. *)
CommitMessages ==
    /\ pc = "commit"
    /\ \/ /\ reader = "open"
          /\ stash' = [stash EXCEPT ![msg[1]] = Newer(@, msg[2])]
       \/ /\ ctx = "cancelled" \/ reader # "open"
          /\ UNCHANGED stash
    /\ Returns
    /\ pc' = "fetch"
    /\ UNCHANGED <<stats, position, committed, process, fates>>

-----------------------------------------------------------------------------
(* The reader's commit loop.                                               *)
Flush(p) ==
    /\ reader = "open"
    /\ stash[p] > 0
    /\ committed' = [committed EXCEPT ![p] = stash[p]]
    /\ stash' = [stash EXCEPT ![p] = 0]
    /\ UNCHANGED <<pc, msg, tries, stats, position, process, fates>>

(* The group is rebalanced: what was not committed is forgotten, and the   *)
(* reader starts again from the committed offsets.  The goroutine goes on  *)
(* with the message it has.                                                *)
Rejoin ==
    /\ pc # "down"
    /\ reader = "open"
    /\ rejoins < MaxRejoins
    /\ rejoins' = rejoins + 1
    /\ stash' = [p \in Partition |-> 0]
    /\ position' = committed
    /\ UNCHANGED <<pc, msg, tries, ctx, stats, committed, reader, fates, outages>>

(* main: SIGTERM or a failed HTTP server cancels the context ...           *)
Cancel ==
    /\ pc # "down"
    /\ ctx = "live"
    /\ outages < MaxOutages
    /\ outages' = outages + 1
    /\ ctx' = "cancelled"
    /\ UNCHANGED <<pc, msg, tries, reader, stats, offsets, fates, rejoins>>

(* ... and closes the reader, whether or not the goroutine has returned:   *)
(* the final commit goes through or does not ...                           *)
Close ==
    /\ pc # "down"
    /\ ctx = "cancelled"
    /\ reader = "open"
    /\ reader' = "closing"
    /\ stash' = [p \in Partition |-> 0]
    /\ \/ committed' = [p \in Partition |-> IF stash[p] > 0 THEN stash[p] ELSE committed[p]]
       \/ UNCHANGED committed
    /\ UNCHANGED <<pc, msg, tries, ctx, stats, position, fates, outages, rejoins>>

(* ... and then the DLQ writer, even if closing the reader failed.         *)
CloseWriter ==
    /\ pc # "down"
    /\ reader = "closing"
    /\ reader' = "closed"
    /\ UNCHANGED <<pc, msg, tries, ctx, stats, offsets, fates, outages, rejoins>>

(* With the process its memory goes, and its place in the topic: whoever   *)
(* comes next starts from the committed offsets.                           *)
Forget ==
    /\ Returns
    /\ stats' = NoStats
    /\ position' = committed
    /\ stash' = [p \in Partition |-> 0]
    /\ UNCHANGED committed

(* wg.Wait returns and the process ends.                                   *)
Exit ==
    /\ pc = "stopped"
    /\ reader = "closed"
    /\ pc' = "down"
    /\ Forget
    /\ UNCHANGED <<process, fates>>

(* The process dies at any point.                                          *)
Crash ==
    /\ pc # "down"
    /\ outages < MaxOutages
    /\ outages' = outages + 1
    /\ pc' = "down"
    /\ Forget
    /\ UNCHANGED <<ctx, reader, fates, rejoins>>

(* The server decides on a save whose client is gone, whatever consumer    *)
(* and process do meanwhile.                                               *)
LateCommit(m) ==
    /\ m \in late
    /\ saved' = saved \union {m}
    /\ late' = late \ {m}
    /\ UNCHANGED <<pc, msg, tries, stats, offsets, process, lost>>

LateRollback(m) ==
    /\ m \in late
    /\ late' = late \ {m}
    /\ UNCHANGED <<pc, msg, tries, stats, offsets, process, saved, lost>>

(* A new process starts.  Messages given up beyond the committed offsets   *)
(* are delivered again.                                                    *)
Covered(S) == {m \in S : m[2] <= committed[m[1]]}

Restart ==
    /\ pc = "down"
    /\ pc' = "fetch"
    /\ ctx' = "live"
    /\ reader' = "open"
    /\ unwritten' = Covered(unwritten)
    /\ interrupted' = Covered(interrupted)
    /\ UNCHANGED <<msg, tries, stats, offsets, saved, late, dead, outages, rejoins>>

-----------------------------------------------------------------------------
Goroutine ==
    \/ \E p \in Partition : Fetch(p)
    \/ FetchError \/ PauseOver \/ Stopped
    \/ ParseError \/ SaveOrder \/ SaveError \/ CacheSet
    \/ Retry \/ Interrupt
    \/ DeadLetter
    \/ CommitMessages

Next ==
    \/ Goroutine
    \/ \E p \in Partition : Flush(p)
    \/ Rejoin
    \/ Cancel \/ Close \/ CloseWriter \/ Exit
    \/ \E m \in late : LateCommit(m) \/ LateRollback(m)
    \/ Crash \/ Restart

Spec == Init /\ [][Next]_vars

(* The goroutine runs, its calls return, the reader's commit loop runs, a  *)
(* shutdown goes its way and a dead process is started again; FetchMessage *)
(* may fail now and then but not every time for ever.                      *)
Fairness ==
    /\ WF_vars(Goroutine)
    /\ \A p \in Partition : SF_vars(Fetch(p)) /\ WF_vars(Flush(p))
    /\ WF_vars(Close) /\ WF_vars(CloseWriter) /\ WF_vars(Exit) /\ WF_vars(Restart)

FairSpec == Spec /\ Fairness

-----------------------------------------------------------------------------
(* Offsets stay within the log of their partition.                         *)
WithinLog(f) == f \in [Partition -> Nat] /\ \A p \in Partition : f[p] <= Len(Log[p])

(* The type of every variable.                                             *)
TypeOK ==
    /\ pc \in {"fetch", "pause", "process", "cache", "backoff", "deadLetter",
               "commit", "stopped", "down"}
    /\ msg \in Message \union {NoMessage}
    /\ attempt \in 1 .. MaxRetries /\ failures \in 0 .. MaxRetries
    /\ ctx \in {"live", "cancelled"}
    /\ reader \in {"open", "closing", "closed"}
    /\ stats \in [received : Nat, processed : Nat, failed : Nat]
    /\ WithinLog(position) /\ WithinLog(stash) /\ WithinLog(committed)
    /\ saved \subseteq Message /\ late \subseteq Message /\ dead \subseteq Message
    /\ unwritten \subseteq Message /\ interrupted \subseteq Message
    /\ outages \in 0 .. MaxOutages /\ rejoins \in 0 .. MaxRejoins

(* Handled, or given up: by a failed write to the dead letter topic, or by *)
(* a shutdown in the middle of a retry.                                    *)
Settled(p, n) ==
    \A o \in 1 .. n : <<p, o>> \in saved \union dead \union unwritten \union interrupted

(* The group's offset never passes a message unless its order was stored,  *)
(* it was dead-lettered, the write to the dead letter topic failed, or a   *)
(* shutdown cut its retries short: no crash, rebalance, failed fetch or    *)
(* lost commit can make the consumer skip a message (consumer.go:90-171).  *)
CommittedAreSettled == \A p \in Partition : Settled(p, committed[p])

(* In each partition an order is handed to the database for the first time *)
(* only when every earlier message has been dealt with, so a retry is      *)
(* never overtaken by what was published after it (consumer.go:124-165).   *)
NoOvertaking ==
    [][\A m \in (saved \union late)' \ (saved \union late) : Settled(m[1], m[2] - 1)]_vars

(* A message that parses goes to the dead letter topic when its save has   *)
(* failed MaxRetries times since it was fetched, no less and no more: the  *)
(* attempts of one message are not charged to the next, a redelivery       *)
(* starts anew, and no attempt is skipped or made twice                    *)
(* (consumer.go:124, 143, 153).                                            *)
DeadLetterAfterAllRetries ==
    pc = "deadLetter" /\ KindOf(msg) # "invalid" => failures = MaxRetries

(* Each message received is counted as processed or as failed exactly      *)
(* once, but for the one in progress and those a shutdown interrupted.     *)
StatsBalance ==
    LET inProgress == IF pc \in {"process", "backoff", "cache"} THEN 1 ELSE 0
        counted == stats.processed + stats.failed + inProgress
    IN  pc # "down" =>
            /\ counted <= stats.received
            /\ ctx = "live" => counted = stats.received

(* No message, not even one the database always refuses or one that does   *)
(* not parse, blocks its partition: every message is dealt with in the     *)
(* end, whatever crashed, was interrupted or was fetched again meanwhile.  *)
EveryMessageSettled == \A p \in Partition : <>[]Settled(p, Len(Log[p]))

(* The committed offset reaches the end of the log and stays there, so     *)
(* that a later restart repeats nothing.  Two rebalances around one        *)
(* message in progress are the exception: its late commit then moves the   *)
(* offset back, and nothing moves it forward until a new message arrives.  *)
LagVanishes ==
    \A p \in Partition : <>[](rejoins < 2 => committed[p] = Len(Log[p]))

(* A shutdown comes to an end: whatever the goroutine was doing when the   *)
(* context was cancelled - waiting for a message or for a retry, saving,   *)
(* committing to a reader that is closed already - it returns, and the     *)
(* process that waits for it ends (main.go:136-157).                       *)
ShutdownCompletes == ctx = "cancelled" ~> pc = "down"

(* What Task.md:28 asks: messages that do not parse may be ignored, but    *)
(* "on failures (a database error, a crash of the service) data is not     *)
(* lost", by means of transactions and broker acknowledgements.  So a      *)
(* message with an order in it is committed only when it is stored or at   *)
(* least in the dead letter topic.                                         *)
NothingLost ==
    \A p \in Partition : \A o \in 1 .. committed[p] :
        KindOf(<<p, o>>) # "invalid" => <<p, o>> \in saved \union dead

Promise == INSTANCE Delivery WITH handled <- saved \union dead,
                                  givenUp <- unwritten \union interrupted

RefinesDelivery == Promise!Spec

=============================================================================
