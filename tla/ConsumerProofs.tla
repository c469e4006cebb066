--------------------------- MODULE ConsumerProofs ---------------------------
(***************************************************************************)
(* Proofs about Consumer, for any partitions and log, any number of        *)
(* retries and any number of crashes, shutdowns and rebalances.            *)
(***************************************************************************)
EXTENDS Consumer, TLAPS

-----------------------------------------------------------------------------
(* The inductive invariant.  That committed offsets cover settled messages *)
(* only is not inductive: an offset is committed after it waited in the    *)
(* reader's stash, it was put there from the message in progress, and a    *)
(* commit covers every earlier message of the partition as well.           *)
Fated == saved \union dead \union unwritten \union interrupted

Busy == {"process", "cache", "backoff", "deadLetter", "commit"}

(* The goroutine has a message exactly while it works on one.              *)
HasMessage ==
    /\ pc \in Busy => msg \in Message
    /\ pc \in {"fetch", "pause", "stopped", "down"} => msg = NoMessage
    /\ pc = "commit" => msg \in Fated

(* Every attempt but the current one has failed, none is charged to        *)
(* another message, and a backoff is entered only while attempts are left. *)
AttemptsCounted ==
    /\ pc = "process" => failures = attempt - 1
    /\ pc = "backoff" => failures = attempt /\ attempt < MaxRetries
    /\ DeadLetterAfterAllRetries

(* The cache is set only for an order that is in the database.             *)
CacheAfterSave == pc = "cache" => msg \in saved

(* A process that is gone has left nothing but its commits.                *)
DownIsFresh == pc = "down" => position = committed /\ \A p \in Partition : stash[p] = 0

(* Everything before the message in progress is settled.                   *)
CurrentInOrder == msg # NoMessage => Settled(msg[1], msg[2] - 1)

(* Everything fetched in this session is settled, or in progress.          *)
FetchedSettled ==
    \A p \in Partition : \A o \in 1 .. position[p] : <<p, o>> \in Fated \/ <<p, o>> = msg

(* So is everything an offset awaiting commit covers.                      *)
StashSettled == \A p \in Partition : Settled(p, stash[p])

CInv ==
    /\ TypeOK
    /\ HasMessage
    /\ AttemptsCounted
    /\ CacheAfterSave
    /\ DownIsFresh
    /\ CurrentInOrder
    /\ FetchedSettled
    /\ StashSettled
    /\ CommittedAreSettled

LEMMA MessageParts ==
    ASSUME NEW m \in Message
    PROVE  /\ m[1] \in Partition /\ m[2] \in 1 .. Len(Log[m[1]]) /\ m = <<m[1], m[2]>>
           /\ m # NoMessage /\ m[2] \in Nat /\ Len(Log[m[1]]) \in Nat
<1>1. PICK p \in Partition : \E o \in 1 .. Len(Log[p]) : m = <<p, o>>
  BY DEF Message
<1>2. PICK o \in 1 .. Len(Log[p]) : m = <<p, o>>
  BY <1>1
<1>3. Len(Log[p]) \in Nat
  BY LogAssumption
<1>4. <<p, o>> # <<>>
  OBVIOUS
<1> QED BY <1>2, <1>3, <1>4 DEF NoMessage

LEMMA MessageIntro ==
    ASSUME NEW p \in Partition, NEW o \in 1 .. Len(Log[p])
    PROVE  <<p, o>> \in Message
BY DEF Message

LEMMA LogLength == \A p \in Partition : Len(Log[p]) \in Nat
BY LogAssumption

(* The type invariant, by groups of variables.                             *)
ControlType ==
    /\ pc \in {"fetch", "pause", "process", "cache", "backoff", "deadLetter",
               "commit", "stopped", "down"}
    /\ attempt \in 1 .. MaxRetries /\ failures \in 0 .. MaxRetries
    /\ ctx \in {"live", "cancelled"}
    /\ reader \in {"open", "closing", "closed"}
    /\ outages \in 0 .. MaxOutages
    /\ rejoins \in 0 .. MaxRejoins

MessageType == msg \in Message \union {NoMessage}

StatsType == stats \in [received : Nat, processed : Nat, failed : Nat]

OffsetsType == WithinLog(position) /\ WithinLog(stash) /\ WithinLog(committed)

FatesType ==
    /\ saved \subseteq Message /\ late \subseteq Message /\ dead \subseteq Message
    /\ unwritten \subseteq Message /\ interrupted \subseteq Message

LEMMA TypeParts ==
    TypeOK <=> ControlType /\ MessageType /\ StatsType /\ OffsetsType /\ FatesType
BY DEF TypeOK, ControlType, MessageType, StatsType, OffsetsType, FatesType

LEMMA InitCInv == Init => CInv
<1> SUFFICES ASSUME Init PROVE CInv
  OBVIOUS
<1>1. ControlType /\ MessageType /\ StatsType /\ FatesType
  BY RetriesAssumption, BoundsAssumption
  DEF Init, ControlType, MessageType, StatsType, FatesType, NoStats
<1>2. OffsetsType
  BY LogLength DEF Init, OffsetsType, WithinLog
<1>3. HasMessage /\ AttemptsCounted /\ CacheAfterSave /\ DownIsFresh /\ CurrentInOrder
  BY DEF Init, HasMessage, AttemptsCounted, DeadLetterAfterAllRetries, CacheAfterSave,
         DownIsFresh, CurrentInOrder, Busy
<1>4. FetchedSettled /\ StashSettled /\ CommittedAreSettled
  BY DEF Init, FetchedSettled, StashSettled, CommittedAreSettled, Settled
<1> QED BY <1>1, <1>2, <1>3, <1>4, TypeParts DEF CInv

(* Steps that neither forget a fate nor move an offset keep what is        *)
(* settled settled.                                                        *)
LEMMA FatesGrow ==
    ASSUME CInv, Fated \subseteq Fated', UNCHANGED <<offsets, msg>>
    PROVE  /\ CurrentInOrder'
           /\ FetchedSettled'
           /\ StashSettled'
           /\ CommittedAreSettled'
BY DEF CInv, CurrentInOrder, FetchedSettled, StashSettled, CommittedAreSettled, Settled,
       Fated, offsets

-----------------------------------------------------------------------------
LEMMA ControlStep == CInv /\ [Next]_vars => ControlType'
<1> SUFFICES ASSUME CInv, [Next]_vars PROVE ControlType'
  OBVIOUS
<1> USE RetriesAssumption, BoundsAssumption DEF ControlType, process, tries, Returns
<1>1. ControlType
  BY TypeParts DEF CInv
<1>2. ASSUME NEW p \in Partition, Fetch(p) \/ Flush(p) PROVE ControlType'
  BY <1>1, <1>2 DEF Fetch, Flush
<1>3. ASSUME FetchError \/ PauseOver \/ Stopped \/ ParseError PROVE ControlType'
  BY <1>1, <1>3 DEF FetchError, PauseOver, Stopped, ParseError
<1>4. ASSUME SaveOrder \/ CacheSet PROVE ControlType'
  BY <1>1, <1>4 DEF SaveOrder, CacheSet
<1>5. ASSUME Interrupt \/ DeadLetter \/ CommitMessages PROVE ControlType'
  BY <1>1, <1>5 DEF Interrupt, DeadLetter, CommitMessages
<1>6. ASSUME Rejoin \/ Cancel \/ Close \/ CloseWriter PROVE ControlType'
  BY <1>1, <1>6 DEF Rejoin, Cancel, Close, CloseWriter
<1>7. ASSUME Exit \/ Crash \/ Restart PROVE ControlType'
  BY <1>1, <1>7 DEF Exit, Crash, Restart, Forget
<1>8. ASSUME Retry PROVE ControlType'
  <2>1. attempt < MaxRetries
    BY <1>8 DEF Retry, CInv, AttemptsCounted
  <2> QED BY <1>1, <1>8, <2>1 DEF Retry
<1>9. ASSUME SaveError PROVE ControlType'
  <2>1. failures = attempt - 1
    BY <1>9 DEF SaveError, CInv, AttemptsCounted
  <2> QED BY <1>1, <1>9, <2>1 DEF SaveError
<1>10. ASSUME UNCHANGED vars PROVE ControlType'
  BY <1>1, <1>10 DEF vars
<1>11. ASSUME NEW m \in late, LateCommit(m) \/ LateRollback(m) PROVE ControlType'
  BY <1>1, <1>11 DEF LateCommit, LateRollback
<1> QED
  BY <1>2, <1>3, <1>4, <1>5, <1>6, <1>7, <1>8, <1>9, <1>10, <1>11 DEF Next, Goroutine

LEMMA MessageStep == CInv /\ [Next]_vars => MessageType'
<1> SUFFICES ASSUME CInv, [Next]_vars PROVE MessageType'
  OBVIOUS
<1>1. MessageType /\ OffsetsType
  BY TypeParts DEF CInv
<1>2. ASSUME NEW p \in Partition, Fetch(p) PROVE MessageType'
  <2>1. position[p] + 1 \in 1 .. Len(Log[p])
    BY <1>1, <1>2, LogLength DEF Fetch, OffsetsType, WithinLog
  <2> QED BY <1>2, <2>1, MessageIntro DEF Fetch, MessageType
<1>3. ASSUME Interrupt \/ CommitMessages \/ Exit \/ Crash PROVE MessageType'
  BY <1>3 DEF Interrupt, CommitMessages, Exit, Crash, Forget, Returns, MessageType
<1>4. ASSUME UNCHANGED msg PROVE MessageType'
  BY <1>1, <1>4 DEF MessageType
<1>5. CASE Goroutine
  BY <1>2, <1>3, <1>4, <1>5
  DEF Goroutine, FetchError, PauseOver, Stopped, ParseError, SaveOrder, SaveError, CacheSet,
      Retry, DeadLetter
<1>6. CASE ~ Goroutine
  BY <1>3, <1>4, <1>6
  DEF Next, Flush, Rejoin, Cancel, Close, CloseWriter, LateCommit, LateRollback, Restart, vars
<1> QED BY <1>5, <1>6

LEMMA StatsStep == CInv /\ [Next]_vars => StatsType'
<1> SUFFICES ASSUME CInv, [Next]_vars PROVE StatsType'
  OBVIOUS
<1>1. StatsType
  BY TypeParts DEF CInv
<1>2. ASSUME UNCHANGED stats PROVE StatsType'
  BY <1>1, <1>2 DEF StatsType
<1>3. ASSUME \E p \in Partition : Fetch(p) PROVE StatsType'
  BY <1>1, <1>3 DEF Fetch, StatsType
<1>4. ASSUME ParseError \/ SaveError \/ CacheSet PROVE StatsType'
  BY <1>1, <1>2, <1>4 DEF ParseError, SaveError, CacheSet, StatsType
<1>5. ASSUME Exit \/ Crash PROVE StatsType'
  BY <1>5 DEF Exit, Crash, Forget, NoStats, StatsType
<1>6. CASE Goroutine
  BY <1>2, <1>3, <1>4, <1>6
  DEF Goroutine, FetchError, PauseOver, Stopped, SaveOrder, Retry, Interrupt, DeadLetter,
      CommitMessages
<1>7. CASE ~ Goroutine
  BY <1>2, <1>5, <1>7
  DEF Next, Flush, Rejoin, Cancel, Close, CloseWriter, LateCommit, LateRollback, Restart, vars
<1> QED BY <1>6, <1>7

LEMMA OffsetsStep == CInv /\ [Next]_vars => OffsetsType'
<1> SUFFICES ASSUME CInv, [Next]_vars PROVE OffsetsType'
  OBVIOUS
<1>1. OffsetsType
  BY TypeParts DEF CInv
<1>2. ASSUME UNCHANGED offsets PROVE OffsetsType'
  BY <1>1, <1>2 DEF OffsetsType, offsets, WithinLog
<1>3. ASSUME NEW p \in Partition, Fetch(p) PROVE OffsetsType'
  BY <1>1, <1>3, LogLength DEF Fetch, OffsetsType, WithinLog
<1>4. ASSUME CommitMessages PROVE OffsetsType'
  <2>1. msg \in Message
    BY <1>4 DEF CommitMessages, CInv, HasMessage, Busy
  <2>2. msg[1] \in Partition /\ msg[2] \in Nat /\ msg[2] <= Len(Log[msg[1]])
    BY <2>1, MessageParts
  <2> QED BY <1>1, <1>4, <2>2 DEF CommitMessages, OffsetsType, WithinLog, Newer
<1>5. ASSUME NEW p \in Partition, Flush(p) PROVE OffsetsType'
  BY <1>1, <1>5, LogLength DEF Flush, OffsetsType, WithinLog
<1>6. ASSUME Rejoin \/ Close \/ Exit \/ Crash PROVE OffsetsType'
  <2>1. WithinLog(stash)'
    BY <1>6, LogLength DEF Rejoin, Close, Exit, Crash, Forget, WithinLog
  <2>2. CASE Rejoin \/ Exit \/ Crash
    BY <1>1, <2>1, <2>2 DEF Rejoin, Exit, Crash, Forget, OffsetsType, WithinLog
  <2>3. CASE Close
    <3>1. WithinLog(committed)'
      BY <1>1, <2>3 DEF Close, OffsetsType, WithinLog
    <3> QED BY <1>1, <2>1, <2>3, <3>1 DEF Close, OffsetsType, WithinLog
  <2> QED BY <1>6, <2>2, <2>3
<1>7. CASE Goroutine
  BY <1>2, <1>3, <1>4, <1>7
  DEF Goroutine, FetchError, PauseOver, Stopped, ParseError, SaveOrder, SaveError, CacheSet,
      Retry, Interrupt, DeadLetter
<1>8. CASE ~ Goroutine
  BY <1>2, <1>5, <1>6, <1>8
  DEF Next, Cancel, CloseWriter, LateCommit, LateRollback, Restart, vars, offsets
<1> QED BY <1>7, <1>8

LEMMA FatesStep == CInv /\ [Next]_vars => FatesType'
<1> SUFFICES ASSUME CInv, [Next]_vars PROVE FatesType'
  OBVIOUS
<1>1. FatesType
  BY TypeParts DEF CInv
<1>2. ASSUME UNCHANGED fates PROVE FatesType'
  BY <1>1, <1>2 DEF FatesType, fates, lost
<1>3. ASSUME SaveOrder \/ SaveError \/ Interrupt \/ DeadLetter PROVE FatesType'
  <2>1. msg \in Message
    BY <1>3 DEF SaveOrder, SaveError, Interrupt, DeadLetter, CInv, HasMessage, Busy
  <2> QED
    BY <1>1, <1>3, <2>1
    DEF SaveOrder, SaveError, LostReply, Interrupt, DeadLetter, FatesType, lost
<1>4. ASSUME Restart PROVE FatesType'
  BY <1>1, <1>4 DEF Restart, Covered, FatesType
<1>5. CASE Goroutine
  BY <1>2, <1>3, <1>5
  DEF Goroutine, Fetch, FetchError, PauseOver, Stopped, ParseError, CacheSet, Retry,
      CommitMessages
<1>6. ASSUME NEW m \in late, LateCommit(m) \/ LateRollback(m) PROVE FatesType'
  BY <1>1, <1>6 DEF LateCommit, LateRollback, FatesType, lost
<1>7. CASE ~ Goroutine
  BY <1>2, <1>4, <1>6, <1>7
  DEF Next, Flush, Rejoin, Cancel, Close, CloseWriter, Exit, Crash, vars, fates, lost
<1> QED BY <1>5, <1>7

LEMMA TypeStep == CInv /\ [Next]_vars => TypeOK'
<1> SUFFICES ASSUME CInv, [Next]_vars PROVE TypeOK'
  OBVIOUS
<1>1. (ControlType /\ MessageType /\ StatsType /\ OffsetsType /\ FatesType)'
  BY ControlStep, MessageStep, StatsStep, OffsetsStep, FatesStep
<1> QED BY <1>1, TypeParts DEF TypeOK, ControlType, MessageType, StatsType, OffsetsType, FatesType

-----------------------------------------------------------------------------
(* The rest of the inductive invariant, action by action.                  *)
LEMMA MessageHeld == CInv /\ [Next]_vars => HasMessage'
<1> SUFFICES ASSUME CInv, [Next]_vars PROVE HasMessage'
  OBVIOUS
<1> USE DEF HasMessage, Busy
<1>1. HasMessage /\ MessageType /\ MessageType'
  BY MessageStep, TypeParts DEF CInv
<1>2. ASSUME NEW p \in Partition, Fetch(p) PROVE HasMessage'
  <2>1. msg' # NoMessage
    BY <1>2 DEF Fetch, NoMessage
  <2> QED BY <1>1, <1>2, <2>1 DEF Fetch, MessageType
<1>3. ASSUME FetchError \/ PauseOver \/ Stopped \/ ParseError PROVE HasMessage'
  BY <1>1, <1>3 DEF FetchError, PauseOver, Stopped, ParseError
<1>4. ASSUME SaveOrder \/ SaveError \/ Retry PROVE HasMessage'
  BY <1>1, <1>4 DEF SaveOrder, SaveError, Retry
<1>5. ASSUME CacheSet PROVE HasMessage'
  <2>1. msg \in saved
    BY <1>5 DEF CacheSet, CInv, CacheAfterSave
  <2> QED BY <1>1, <1>5, <2>1 DEF CacheSet, Fated, fates
<1>6. ASSUME DeadLetter PROVE HasMessage'
  BY <1>1, <1>6 DEF DeadLetter, Fated
<1>7. ASSUME Interrupt \/ CommitMessages \/ Exit \/ Crash PROVE HasMessage'
  BY <1>7 DEF Interrupt, CommitMessages, Exit, Crash, Forget, Returns
<1>8. ASSUME Restart PROVE HasMessage'
  BY <1>1, <1>8 DEF Restart
<1>9. ASSUME UNCHANGED <<pc, msg>>, Fated \subseteq Fated' PROVE HasMessage'
  BY <1>1, <1>9
<1>10. ASSUME \/ \E p \in Partition : Flush(p)
              \/ Rejoin \/ Cancel \/ Close \/ CloseWriter \/ UNCHANGED vars
       PROVE  HasMessage'
  <2>1. UNCHANGED <<pc, msg, fates>>
    BY <1>10 DEF Flush, Rejoin, Cancel, Close, CloseWriter, vars, fates, lost
  <2> QED BY <1>9, <2>1 DEF Fated, fates, lost
<1>11. ASSUME NEW m \in late, LateCommit(m) \/ LateRollback(m) PROVE HasMessage'
  BY <1>9, <1>11 DEF LateCommit, LateRollback, Fated, lost
<1> QED
  BY <1>2, <1>3, <1>4, <1>5, <1>6, <1>7, <1>8, <1>10, <1>11 DEF Next, Goroutine

LEMMA AttemptsStep == CInv /\ [Next]_vars => AttemptsCounted'
<1> SUFFICES ASSUME CInv, [Next]_vars PROVE AttemptsCounted'
  OBVIOUS
<1> USE RetriesAssumption DEF AttemptsCounted, DeadLetterAfterAllRetries, KindOf, tries
<1>1. AttemptsCounted /\ ControlType
  BY TypeParts DEF CInv
<1>2. attempt \in Nat /\ failures \in Nat /\ MaxRetries \in Nat
  BY <1>1 DEF ControlType
<1>3. CASE Retry
  BY <1>1, <1>2, <1>3 DEF Retry
<1>4. CASE SaveError
  BY <1>1, <1>2, <1>4 DEF SaveError
<1>5. CASE Goroutine /\ ~ Retry /\ ~ SaveError
  BY <1>1, <1>5
  DEF Goroutine, Fetch, FetchError, PauseOver, Stopped, ParseError, SaveOrder, CacheSet,
      Interrupt, DeadLetter, CommitMessages
<1>6. CASE ~ Goroutine
  BY <1>1, <1>6
  DEF Next, Flush, Rejoin, Cancel, Close, CloseWriter, LateCommit, LateRollback, Exit, Crash,
      Restart, vars
<1> QED BY <1>3, <1>4, <1>5, <1>6

LEMMA CacheAfterSaveStep == CInv /\ [Next]_vars => CacheAfterSave'
<1> SUFFICES ASSUME CInv, [Next]_vars PROVE CacheAfterSave'
  OBVIOUS
<1>1. CacheAfterSave
  BY DEF CInv
<1>2. CASE Goroutine
  BY <1>1, <1>2
  DEF CacheAfterSave, Goroutine, Fetch, FetchError, PauseOver, Stopped, ParseError, SaveOrder,
      SaveError, CacheSet, Retry, Interrupt, DeadLetter, CommitMessages
<1>3. CASE ~ Goroutine
  BY <1>1, <1>3
  DEF CacheAfterSave, Next, Flush, Rejoin, Cancel, Close, CloseWriter, LateCommit, LateRollback,
      Exit, Crash, Restart, vars, fates
<1> QED BY <1>2, <1>3

LEMMA DownIsFreshStep == CInv /\ [Next]_vars => DownIsFresh'
<1> SUFFICES ASSUME CInv, [Next]_vars PROVE DownIsFresh'
  OBVIOUS
<1>1. DownIsFresh
  BY DEF CInv
<1>2. CASE Goroutine
  BY <1>1, <1>2
  DEF DownIsFresh, Goroutine, Fetch, FetchError, PauseOver, Stopped, ParseError, SaveOrder,
      SaveError, CacheSet, Retry, Interrupt, DeadLetter, CommitMessages
<1>3. CASE Exit \/ Crash
  BY <1>3 DEF DownIsFresh, Exit, Crash, Forget
<1>4. CASE ~ Goroutine /\ ~ Exit /\ ~ Crash
  BY <1>1, <1>4
  DEF DownIsFresh, Next, Flush, Rejoin, Cancel, Close, CloseWriter, LateCommit, LateRollback,
      Restart, vars, offsets
<1> QED BY <1>2, <1>3, <1>4

SettledParts == CurrentInOrder /\ FetchedSettled /\ StashSettled /\ CommittedAreSettled

LEMMA FetchSettled ==
    ASSUME CInv, NEW p \in Partition, Fetch(p)
    PROVE  SettledParts'
<1>1. OffsetsType
  BY TypeParts DEF CInv
<1>2. position[p] \in Nat /\ position'[p] = position[p] + 1 /\ msg' = <<p, position[p] + 1>>
      /\ \A q \in Partition : q # p => position'[q] = position[q]
  BY <1>1 DEF Fetch, OffsetsType, WithinLog
<1>3. msg = NoMessage
  BY DEF Fetch, CInv, HasMessage
<1>4. \A q \in Partition : \A o \in 1 .. position[q] : <<q, o>> \in Fated
  BY <1>3 DEF CInv, FetchedSettled, NoMessage
<1>5. Fated' = Fated
  BY DEF Fetch, Fated, fates, lost
<1>6. CurrentInOrder'
  BY <1>2, <1>4, <1>5 DEF CurrentInOrder, Settled, Fated
<1>7. FetchedSettled'
  <2> SUFFICES ASSUME NEW q \in Partition, NEW o \in 1 .. position'[q]
               PROVE  <<q, o>> \in Fated' \/ <<q, o>> = msg'
    BY DEF FetchedSettled
  <2>1. o \in 1 .. position[q] \/ (q = p /\ o = position[p] + 1)
    BY <1>1, <1>2 DEF OffsetsType, WithinLog
  <2> QED BY <1>2, <1>4, <1>5, <2>1
<1>8. (StashSettled /\ CommittedAreSettled)'
  BY DEF CInv, Fetch, StashSettled, CommittedAreSettled, Settled, fates, lost
<1> QED BY <1>6, <1>7, <1>8 DEF SettledParts

(* Letting go of the message in progress, once its fate is known.          *)
LEMMA LetGo ==
    ASSUME CInv, msg \in Fated', msg' = NoMessage, Fated \subseteq Fated',
           UNCHANGED <<position, committed>>
    PROVE  CurrentInOrder' /\ FetchedSettled' /\ CommittedAreSettled'
BY DEF CInv, CurrentInOrder, FetchedSettled, CommittedAreSettled, Settled, Fated

LEMMA InterruptSettled == CInv /\ Interrupt => SettledParts'
<1> SUFFICES ASSUME CInv, Interrupt PROVE SettledParts'
  OBVIOUS
<1>1. msg \in Fated' /\ Fated \subseteq Fated' /\ UNCHANGED offsets /\ msg' = NoMessage
  BY DEF Interrupt, Returns, Fated
<1>2. StashSettled'
  BY <1>1 DEF CInv, StashSettled, Settled, Fated, offsets
<1> QED BY <1>1, <1>2, LetGo DEF SettledParts, offsets

LEMMA CommitSettled == CInv /\ CommitMessages => SettledParts'
<1> SUFFICES ASSUME CInv, CommitMessages PROVE SettledParts'
  OBVIOUS
<1>1. msg \in Fated /\ msg \in Message /\ Fated' = Fated /\ msg' = NoMessage
  BY DEF CInv, HasMessage, Busy, CommitMessages, Returns, Fated, fates, lost
<1>2. msg = <<msg[1], msg[2]>> /\ msg[1] \in Partition /\ msg[2] \in Nat /\ msg # NoMessage
  BY <1>1, MessageParts
<1>3. Settled(msg[1], msg[2])
  <2> SUFFICES ASSUME NEW o \in 1 .. msg[2] PROVE <<msg[1], o>> \in Fated
    BY DEF Settled, Fated
  <2>1. o = msg[2] \/ o \in 1 .. msg[2] - 1
    BY <1>2
  <2> QED BY <1>1, <1>2, <2>1 DEF CInv, CurrentInOrder, Settled, Fated
<1>4. OffsetsType
  BY TypeParts DEF CInv
<1>5. \A p \in Partition : stash'[p] = stash[p] \/ (p = msg[1] /\ stash'[p] = msg[2])
  BY <1>2, <1>4 DEF CommitMessages, OffsetsType, WithinLog, Newer
<1>6. StashSettled'
  BY <1>1, <1>3, <1>5 DEF CInv, StashSettled, Settled, Fated
<1> QED BY <1>1, <1>6, LetGo DEF CommitMessages, SettledParts

LEMMA FlushSettled ==
    ASSUME CInv, NEW p \in Partition, Flush(p)
    PROVE  SettledParts'
<1>1. OffsetsType
  BY TypeParts DEF CInv
<1>2. \A q \in Partition : /\ stash'[q] = stash[q] \/ stash'[q] = 0
                           /\ committed'[q] = committed[q] \/ committed'[q] = stash[q]
  BY <1>1 DEF Flush, OffsetsType, WithinLog
<1>3. Fated' = Fated /\ UNCHANGED <<msg, position>>
  BY DEF Flush, Fated, fates, lost
<1>4. StashSettled'
  <2> SUFFICES ASSUME NEW q \in Partition, NEW o \in 1 .. stash'[q] PROVE <<q, o>> \in Fated'
    BY DEF StashSettled, Settled, Fated
  <2>1. o \in 1 .. stash[q]
    BY <1>2
  <2> QED BY <1>3, <2>1 DEF CInv, StashSettled, Settled, Fated
<1>5. CommittedAreSettled'
  BY <1>2, <1>3 DEF CInv, StashSettled, CommittedAreSettled, Settled, Fated
<1>6. (CurrentInOrder /\ FetchedSettled)'
  BY <1>3 DEF CInv, CurrentInOrder, FetchedSettled, Settled, Fated
<1> QED BY <1>4, <1>5, <1>6 DEF SettledParts

(* Starting again from the committed offsets, with the message in progress *)
(* or without it.                                                          *)
LEMMA StartAgain ==
    ASSUME CInv, UNCHANGED <<fates, committed>>, msg' \in {msg, NoMessage},
           position' = committed, \A p \in Partition : stash'[p] = 0
    PROVE  SettledParts'
<1>1. Fated' = Fated
  BY DEF Fated, fates, lost
<1>2. (CommittedAreSettled /\ CurrentInOrder)'
  BY <1>1 DEF CInv, CommittedAreSettled, CurrentInOrder, Settled, Fated
<1>3. FetchedSettled'
  BY <1>1 DEF CInv, CommittedAreSettled, FetchedSettled, Settled, Fated
<1>4. StashSettled'
  BY DEF StashSettled, Settled
<1> QED BY <1>2, <1>3, <1>4 DEF SettledParts

LEMMA CloseSettled == CInv /\ Close => SettledParts'
<1> SUFFICES ASSUME CInv, Close PROVE SettledParts'
  OBVIOUS
<1>1. Fated' = Fated /\ UNCHANGED <<msg, position>> /\ \A p \in Partition : stash'[p] = 0
  BY DEF Close, Fated, fates, lost
<1>2. \A p \in Partition : committed'[p] = committed[p] \/ committed'[p] = stash[p]
  BY DEF Close
<1>3. CommittedAreSettled'
  BY <1>1, <1>2 DEF CInv, StashSettled, CommittedAreSettled, Settled, Fated
<1>4. (CurrentInOrder /\ FetchedSettled)'
  BY <1>1 DEF CInv, CurrentInOrder, FetchedSettled, Settled, Fated
<1>5. StashSettled'
  BY <1>1 DEF StashSettled, Settled
<1> QED BY <1>3, <1>4, <1>5 DEF SettledParts

(* A restart forgets fates, but none that a committed offset covers.       *)
LEMMA RestartSettled == CInv /\ Restart => SettledParts'
<1> SUFFICES ASSUME CInv, Restart PROVE SettledParts'
  OBVIOUS
<1>1. OffsetsType
  BY TypeParts DEF CInv
<1>2. ASSUME NEW p \in Partition, NEW o \in 1 .. committed[p] PROVE <<p, o>> \in Fated'
  <2>1. <<p, o>> \in Fated
    BY DEF CInv, CommittedAreSettled, Settled, Fated
  <2>2. o <= committed[p]
    BY <1>1 DEF OffsetsType, WithinLog
  <2> QED BY <2>1, <2>2 DEF Restart, Covered, Fated
<1>3. (FetchedSettled /\ CommittedAreSettled)'
  BY <1>2 DEF Restart, CInv, DownIsFresh, offsets, FetchedSettled, CommittedAreSettled, Settled,
              Fated
<1>4. (StashSettled /\ CurrentInOrder)'
  BY DEF Restart, CInv, DownIsFresh, HasMessage, offsets, StashSettled, CurrentInOrder, Settled
<1> QED BY <1>3, <1>4 DEF SettledParts

LEMMA SettledStep == CInv /\ [Next]_vars => SettledParts'
<1> SUFFICES ASSUME CInv, [Next]_vars PROVE SettledParts'
  OBVIOUS
<1>1. ASSUME Fated \subseteq Fated', UNCHANGED <<offsets, msg>> PROVE SettledParts'
  BY <1>1, FatesGrow DEF SettledParts
<1>2. ASSUME SaveOrder \/ SaveError \/ DeadLetter PROVE SettledParts'
  BY <1>1, <1>2 DEF SaveOrder, SaveError, DeadLetter, Fated, lost
<1>3. ASSUME FetchError \/ PauseOver \/ Stopped \/ ParseError \/ CacheSet \/ Retry
      PROVE  SettledParts'
  BY <1>1, <1>3
  DEF FetchError, PauseOver, Stopped, ParseError, CacheSet, Retry, Fated, fates, lost
<1>4. ASSUME Cancel \/ CloseWriter \/ UNCHANGED vars PROVE SettledParts'
  BY <1>1, <1>4 DEF Cancel, CloseWriter, vars, Fated, fates, lost, offsets
<1>5. ASSUME NEW m \in late, LateCommit(m) \/ LateRollback(m) PROVE SettledParts'
  BY <1>1, <1>5 DEF LateCommit, LateRollback, Fated, lost
<1>6. ASSUME Rejoin \/ Exit \/ Crash PROVE SettledParts'
  BY <1>6, StartAgain DEF Rejoin, Exit, Crash, Forget, Returns
<1> QED
  BY <1>2, <1>3, <1>4, <1>5, <1>6, FetchSettled, InterruptSettled, CommitSettled, FlushSettled,
     CloseSettled, RestartSettled
  DEF Next, Goroutine

LEMMA CInvStep == CInv /\ [Next]_vars => CInv'
BY TypeStep, MessageHeld, AttemptsStep, CacheAfterSaveStep, DownIsFreshStep, SettledStep
DEF CInv, SettledParts

-----------------------------------------------------------------------------
(* The inductive invariant holds in every behaviour.                       *)
THEOREM InductiveInvariant == Spec => []CInv
<1>1. Init => CInv
  BY InitCInv
<1>2. CInv /\ [Next]_vars => CInv'
  BY CInvStep
<1> QED BY <1>1, <1>2, PTL DEF Spec

(* Every variable keeps its type, whatever the topic holds and however     *)
(* many crashes, shutdowns and rebalances occur.                           *)
THEOREM TypeCorrect == Spec => []TypeOK
<1>1. CInv => TypeOK
  BY DEF CInv
<1> QED BY <1>1, InductiveInvariant, PTL

(* The group's offset never passes a message whose fate is not known.      *)
THEOREM CommitsAreSettled == Spec => []CommittedAreSettled
<1>1. CInv => CommittedAreSettled
  BY DEF CInv
<1> QED BY <1>1, InductiveInvariant, PTL

(* A message that parses reaches the dead letter topic with exactly        *)
(* MaxRetries failed saves since it was fetched, whatever came before it.  *)
THEOREM AllRetriesFirst == Spec => []DeadLetterAfterAllRetries
<1>1. CInv => DeadLetterAfterAllRetries
  BY DEF CInv, AttemptsCounted
<1> QED BY <1>1, InductiveInvariant, PTL

(* An order is handed to the database for the first time only after        *)
(* everything published before it in its partition has been dealt with.    *)
THEOREM PartitionOrderKept == Spec => NoOvertaking
<1>1. CInv /\ [Next]_vars
        => [\A m \in (saved \union late)' \ (saved \union late) : Settled(m[1], m[2] - 1)]_vars
  <2> SUFFICES ASSUME CInv, [Next]_vars,
                      NEW m \in (saved \union late)' \ (saved \union late)
               PROVE  Settled(m[1], m[2] - 1)
    OBVIOUS
  <2>1. CASE SaveOrder \/ SaveError
    <3>1. m = msg /\ msg # NoMessage
      BY <2>1, MessageParts DEF SaveOrder, SaveError, LostReply, CInv, HasMessage, Busy
    <3> QED BY <3>1 DEF CInv, CurrentInOrder
  <2>2. CASE ~ SaveOrder /\ ~ SaveError
    BY <2>2
    DEF Next, Goroutine, Fetch, FetchError, PauseOver, Stopped, ParseError, CacheSet, Retry,
        Interrupt, DeadLetter, CommitMessages, Flush, Rejoin, Cancel, Close, CloseWriter,
        LateCommit, LateRollback, Exit, Crash, Restart, vars, fates
  <2> QED BY <2>1, <2>2
<1> QED BY <1>1, InductiveInvariant, PTL DEF Spec, NoOvertaking

(* No message is counted twice or not at all, until a shutdown.            *)
InProgress == IF pc \in {"process", "backoff", "cache"} THEN 1 ELSE 0

LEMMA StatsBalanceDef ==
    StatsBalance <=>
        (pc # "down" =>
            /\ stats.processed + stats.failed + InProgress <= stats.received
            /\ ctx = "live" => stats.processed + stats.failed + InProgress = stats.received)
BY DEF StatsBalance, InProgress

(* Counters start from nothing.                                            *)
NothingCounted == pc = "down" => stats = NoStats

LEMMA StatsBalanceStep == CInv /\ NothingCounted /\ StatsBalance /\ [Next]_vars => StatsBalance'
<1> DEFINE Counted == stats.processed + stats.failed + InProgress
<1> SUFFICES ASSUME CInv, NothingCounted, StatsBalance, [Next]_vars
             PROVE  StatsBalance'
  OBVIOUS
<1>1. StatsType /\ ControlType
  BY TypeParts DEF CInv
<1>2. pc # "down" => /\ Counted <= stats.received
                     /\ ctx = "live" => Counted = stats.received
  BY StatsBalanceDef
<1>3. (pc' # "down" => /\ Counted' <= stats'.received
                       /\ ctx' = "live" => Counted' = stats'.received)
      => StatsBalance'
  BY DEF StatsBalance, InProgress
<1> USE DEF InProgress, StatsType
<1>4. ASSUME NEW p \in Partition, Fetch(p) PROVE StatsBalance'
  BY <1>1, <1>2, <1>3, <1>4 DEF Fetch, process
<1>5. ASSUME ParseError PROVE StatsBalance'
  BY <1>1, <1>2, <1>3, <1>5 DEF ParseError, process
<1>6. ASSUME SaveError PROVE StatsBalance'
  BY <1>1, <1>2, <1>3, <1>6 DEF SaveError, process
<1>7. ASSUME CacheSet PROVE StatsBalance'
  BY <1>1, <1>2, <1>3, <1>7 DEF CacheSet, process
<1>8. ASSUME Interrupt PROVE StatsBalance'
  BY <1>1, <1>2, <1>3, <1>8 DEF Interrupt, process
<1>9. ASSUME FetchError \/ PauseOver \/ Stopped \/ SaveOrder \/ Retry \/ DeadLetter
             \/ CommitMessages
      PROVE  StatsBalance'
  BY <1>1, <1>2, <1>3, <1>9
  DEF FetchError, PauseOver, Stopped, SaveOrder, Retry, DeadLetter, CommitMessages, process
<1>10. ASSUME NEW p \in Partition, Flush(p) PROVE StatsBalance'
  BY <1>1, <1>2, <1>3, <1>10 DEF Flush, process
<1>11. ASSUME Rejoin \/ Cancel \/ Close \/ CloseWriter \/ UNCHANGED vars PROVE StatsBalance'
  BY <1>1, <1>2, <1>3, <1>11 DEF Rejoin, Cancel, Close, CloseWriter, vars
<1>12. ASSUME Exit \/ Crash PROVE StatsBalance'
  BY <1>3, <1>12 DEF Exit, Crash
<1>13. ASSUME NEW m \in late, LateCommit(m) \/ LateRollback(m) PROVE StatsBalance'
  BY <1>1, <1>2, <1>3, <1>13 DEF LateCommit, LateRollback, process
<1>14. ASSUME Restart, pc = "down" => stats = NoStats PROVE StatsBalance'
  BY <1>3, <1>14 DEF Restart, NoStats
<1> QED
  BY <1>4, <1>5, <1>6, <1>7, <1>8, <1>9, <1>10, <1>11, <1>12, <1>13, <1>14
  DEF Next, Goroutine, NothingCounted

LEMMA NothingCountedStep == NothingCounted /\ [Next]_vars => NothingCounted'
<1> SUFFICES ASSUME NothingCounted, [Next]_vars PROVE NothingCounted'
  OBVIOUS
<1>1. CASE Goroutine
  BY <1>1
  DEF NothingCounted, Goroutine, Fetch, FetchError, PauseOver, Stopped, ParseError, SaveOrder,
      SaveError, CacheSet, Retry, Interrupt, DeadLetter, CommitMessages
<1>2. CASE ~ Goroutine
  BY <1>2
  DEF NothingCounted, Next, Flush, Rejoin, Cancel, Close, CloseWriter, LateCommit, LateRollback,
      Exit, Crash, Forget, Restart, vars
<1> QED BY <1>1, <1>2

THEOREM StatsAlwaysBalance == Spec => []StatsBalance
<1>1. Init => StatsBalance /\ NothingCounted
  BY DEF Init, StatsBalance, NothingCounted, NoStats
<1> QED BY <1>1, StatsBalanceStep, NothingCountedStep, InductiveInvariant, PTL DEF Spec

-----------------------------------------------------------------------------
(* Commits move forward.  Without a rebalance, offsets follow the message  *)
(* in progress: it is the last one fetched, nothing past it is committed   *)
(* or about to be, and what is about to be committed is past what is.      *)
OffsetsBehind ==
    /\ \A p \in Partition : /\ committed[p] <= position[p] /\ stash[p] <= position[p]
                            /\ stash[p] > 0 => committed[p] < stash[p]
    /\ msg # NoMessage => /\ position[msg[1]] = msg[2]
                          /\ committed[msg[1]] < msg[2] /\ stash[msg[1]] < msg[2]

LEMMA OffsetsStart == Init => OffsetsBehind
BY DEF Init, OffsetsBehind

LEMMA FetchBehind ==
    ASSUME CInv, OffsetsBehind, NEW p \in Partition, Fetch(p)
    PROVE  OffsetsBehind'
<1>1. OffsetsType
  BY TypeParts DEF CInv
<1>2. /\ position'[p] = position[p] + 1 /\ msg' = <<p, position[p] + 1>>
      /\ \A q \in Partition : position[q] \in Nat /\ (q # p => position'[q] = position[q])
      /\ \A q \in Partition : stash[q] \in Nat /\ committed[q] \in Nat
      /\ UNCHANGED <<stash, committed>>
  BY <1>1 DEF Fetch, OffsetsType, WithinLog
<1> QED BY <1>2 DEF OffsetsBehind

LEMMA CommitBehind == CInv /\ OffsetsBehind /\ CommitMessages => OffsetsBehind'
<1> SUFFICES ASSUME CInv, OffsetsBehind, CommitMessages PROVE OffsetsBehind'
  OBVIOUS
<1>1. msg # NoMessage /\ msg[1] \in Partition /\ msg[2] \in Nat
  BY MessageParts DEF CInv, HasMessage, CommitMessages, Busy
<1>2. OffsetsType
  BY TypeParts DEF CInv
<1>3. UNCHANGED <<position, committed>> /\ msg' = NoMessage
  BY DEF CommitMessages, Returns
<1>4. ASSUME NEW p \in Partition
      PROVE  stash'[p] = stash[p] \/ (p = msg[1] /\ stash'[p] = msg[2])
  BY <1>1, <1>2 DEF CommitMessages, OffsetsType, WithinLog, Newer
<1>5. /\ position[msg[1]] = msg[2]
      /\ committed[msg[1]] < msg[2] /\ stash[msg[1]] < msg[2]
  BY <1>1 DEF OffsetsBehind
<1>6. ASSUME NEW p \in Partition
      PROVE  /\ committed'[p] <= position'[p] /\ stash'[p] <= position'[p]
             /\ stash'[p] > 0 => committed'[p] < stash'[p]
  BY <1>1, <1>2, <1>3, <1>4, <1>5 DEF OffsetsBehind, OffsetsType, WithinLog
<1> QED BY <1>3, <1>6 DEF OffsetsBehind

(* Steps that move no position: an offset may be sent or forgotten.        *)
LEMMA SentBehind ==
    ASSUME CInv, OffsetsBehind, UNCHANGED position, msg' \in {msg, NoMessage},
           \A p \in Partition : \/ committed'[p] = committed[p] /\ stash'[p] \in {stash[p], 0}
                                \/ committed'[p] = stash[p] /\ stash[p] > 0 /\ stash'[p] = 0
    PROVE  OffsetsBehind'
<1>1. OffsetsType
  BY TypeParts DEF CInv
<1>2. msg # NoMessage => msg[1] \in Partition /\ msg[2] \in Nat /\ msg[2] > 0
  BY TypeParts, MessageParts DEF CInv, MessageType
<1>3. ASSUME NEW p \in Partition
      PROVE  /\ committed'[p] <= position'[p] /\ stash'[p] <= position'[p]
             /\ stash'[p] > 0 => committed'[p] < stash'[p]
  <2>1. stash[p] \in Nat /\ committed[p] \in Nat /\ position[p] \in Nat
    BY <1>1 DEF OffsetsType, WithinLog
  <2>2. /\ committed[p] <= position[p] /\ stash[p] <= position[p]
        /\ stash[p] > 0 => committed[p] < stash[p]
    BY DEF OffsetsBehind
  <2>3. \/ committed'[p] = committed[p] /\ (stash'[p] = stash[p] \/ stash'[p] = 0)
        \/ committed'[p] = stash[p] /\ stash[p] > 0 /\ stash'[p] = 0
    OBVIOUS
  <2>4. CASE committed'[p] = committed[p]
    BY <2>1, <2>2, <2>3, <2>4
  <2>5. CASE committed'[p] = stash[p]
    BY <2>1, <2>2, <2>3, <2>5
  <2> QED BY <2>3, <2>4, <2>5
<1>4. ASSUME msg' # NoMessage
      PROVE  /\ position'[msg'[1]] = msg'[2]
             /\ committed'[msg'[1]] < msg'[2] /\ stash'[msg'[1]] < msg'[2]
  BY <1>2, <1>4 DEF OffsetsBehind
<1> QED BY <1>3, <1>4 DEF OffsetsBehind

LEMMA BehindStep ==
    ASSUME CInv, OffsetsBehind, [Next]_vars, ~ Rejoin
    PROVE  OffsetsBehind'
<1>1. OffsetsType
  BY TypeParts DEF CInv
<1>2. CASE \E p \in Partition : Flush(p)
  <2>1. \A p \in Partition :
            \/ committed'[p] = committed[p] /\ stash'[p] \in {stash[p], 0}
            \/ committed'[p] = stash[p] /\ stash[p] > 0 /\ stash'[p] = 0
    BY <1>1, <1>2 DEF Flush, OffsetsType, WithinLog
  <2> QED BY <1>2, <2>1, SentBehind DEF Flush
<1>3. CASE Close
  BY <1>3, SentBehind DEF Close
<1>4. CASE Exit \/ Crash
  BY <1>1, <1>4 DEF Exit, Crash, Forget, Returns, OffsetsBehind, OffsetsType, WithinLog
<1>5. CASE FetchError \/ PauseOver \/ Stopped \/ ParseError \/ SaveOrder \/ SaveError
           \/ CacheSet \/ Retry \/ Interrupt \/ DeadLetter
  <2>1. UNCHANGED offsets /\ msg' \in {msg, NoMessage}
    BY <1>5 DEF FetchError, PauseOver, Stopped, ParseError, SaveOrder, SaveError, CacheSet, Retry,
                Interrupt, Returns, DeadLetter
  <2> QED BY <2>1, SentBehind DEF offsets
<1>6. CASE Cancel \/ CloseWriter \/ Restart \/ UNCHANGED vars
  BY <1>6, SentBehind DEF Cancel, CloseWriter, Restart, vars, offsets
<1>7. CASE \E m \in late : LateCommit(m) \/ LateRollback(m)
  BY <1>7, SentBehind DEF LateCommit, LateRollback, offsets
<1> QED BY <1>2, <1>3, <1>4, <1>5, <1>6, <1>7, FetchBehind, CommitBehind DEF Next, Goroutine

LEMMA NoRejoinBefore ==
    ASSUME CInv, [Next]_vars, rejoins' = 0
    PROVE  rejoins = 0 /\ ~ Rejoin
<1>1. rejoins \in Nat
  BY TypeParts, BoundsAssumption DEF CInv, ControlType
<1>2. ~ Rejoin
  BY <1>1 DEF Rejoin
<1>3. UNCHANGED rejoins
  BY <1>2
  DEF Next, Goroutine, Fetch, FetchError, PauseOver, Stopped, ParseError, SaveOrder, SaveError,
      CacheSet, Retry, Interrupt, DeadLetter, CommitMessages, Flush, Cancel, Close, CloseWriter,
      LateCommit, LateRollback, Exit, Crash, Restart, vars, process
<1> QED BY <1>2, <1>3

(* Until a rebalance, nothing past the message in progress is committed or *)
(* about to be, through any number of crashes and restarts.                *)
THEOREM OffsetsFollow == Spec => [](rejoins = 0 => OffsetsBehind)
<1>1. CInv /\ (rejoins = 0 => OffsetsBehind) /\ [Next]_vars
          => (rejoins = 0 => OffsetsBehind)'
  <2> SUFFICES ASSUME CInv, rejoins = 0 => OffsetsBehind, [Next]_vars, rejoins' = 0
               PROVE  OffsetsBehind'
    OBVIOUS
  <2> QED BY NoRejoinBefore, BehindStep
<1> QED BY <1>1, OffsetsStart, InductiveInvariant, PTL DEF Spec

(* The committed offset is never moved back, so that what a restart        *)
(* repeats only shrinks, until the group is rebalanced: the late commit of *)
(* a message that was in progress then is followed by those of messages    *)
(* before it, which are fetched once more (consumer.go:90-172).            *)
CommitsForward ==
    [][rejoins = 0 => \A p \in Partition : committed[p] <= committed'[p]]_vars

(* No crash, shutdown, retry or lost commit moves the offset back.         *)
THEOREM CommitsMoveForward == Spec => CommitsForward
<1>1. CInv /\ (rejoins = 0 => OffsetsBehind) /\ [Next]_vars
          => [rejoins = 0 => \A p \in Partition : committed[p] <= committed'[p]]_vars
  <2> SUFFICES ASSUME CInv, OffsetsBehind, [Next]_vars, NEW p \in Partition
               PROVE  committed[p] <= committed'[p]
    OBVIOUS
  <2>1. OffsetsType
    BY TypeParts DEF CInv
  <2>2. committed'[p] = committed[p] \/ (committed'[p] = stash[p] /\ stash[p] > 0)
    BY <2>1
    DEF Next, Goroutine, Fetch, FetchError, PauseOver, Stopped, ParseError, SaveOrder, SaveError,
        CacheSet, Retry, Interrupt, DeadLetter, CommitMessages, Flush, Rejoin, Cancel, Close,
        CloseWriter, LateCommit, LateRollback, Exit, Crash, Forget, Restart, vars, offsets,
        OffsetsType, WithinLog
  <2> QED BY <2>1, <2>2 DEF OffsetsBehind, OffsetsType, WithinLog
<1> QED BY <1>1, InductiveInvariant, OffsetsFollow, PTL DEF Spec, CommitsForward

-----------------------------------------------------------------------------
(* Consumer implements Delivery.                                           *)
Abstract == <<saved \union dead, unwritten \union interrupted, committed>>

LEMMA PromiseInit == Init => Promise!Init
BY DEF Init, Promise!Init

LEMMA MessageInPromise == Promise!Message = Message
BY DEF Promise!Message, Message

(* Storing, dead-lettering and giving up a message.                        *)
LEMMA FateSteps ==
    ASSUME CInv, SaveOrder \/ DeadLetter \/ Interrupt \/ \E m \in late : LateCommit(m)
    PROVE  [Promise!Next]_Abstract
<1>1. msg \in Promise!Message \/ \E m \in late : LateCommit(m)
  BY MessageInPromise DEF CInv, HasMessage, Busy, SaveOrder, DeadLetter, Interrupt
<1>2. late \subseteq Promise!Message
  BY MessageInPromise, TypeParts DEF CInv, FatesType
<1>3. ASSUME NEW m \in Promise!Message,
             (saved \union dead)' = (saved \union dead) \union {m},
             UNCHANGED <<unwritten, interrupted, committed>>
      PROVE  Promise!Next
  BY <1>3 DEF Promise!Next, Promise!Handle
<1>4. ASSUME NEW m \in Promise!Message,
             (unwritten \union interrupted)' = (unwritten \union interrupted) \union {m},
             UNCHANGED <<saved, dead, committed>>
      PROVE  Promise!Next
  BY <1>4 DEF Promise!Next, Promise!GiveUp
<1>5. ASSUME NEW m \in late, LateCommit(m) PROVE Promise!Next
  <2>1. m \in Promise!Message
    BY <1>2
  <2>2. /\ (saved \union dead)' = (saved \union dead) \union {m}
        /\ UNCHANGED <<unwritten, interrupted, committed>>
    BY <1>5 DEF LateCommit, offsets, lost
  <2> QED BY <1>3, <2>1, <2>2
<1>6. CASE SaveOrder
  BY <1>1, <1>3, <1>5, <1>6 DEF SaveOrder, offsets, lost
<1>7. CASE DeadLetter
  BY <1>1, <1>3, <1>4, <1>5, <1>7 DEF DeadLetter, offsets
<1>8. CASE Interrupt
  BY <1>1, <1>4, <1>5, <1>8 DEF Interrupt, offsets
<1> QED BY <1>5, <1>6, <1>7, <1>8

(* Sending a stashed offset to the coordinator.                            *)
LEMMA CommitSteps ==
    ASSUME CInv, Close \/ \E p \in Partition : Flush(p)
    PROVE  Promise!Next
<1>1. OffsetsType
  BY TypeParts DEF CInv
<1>2. \A q \in Partition : committed'[q] = committed[q] \/ committed'[q] = stash[q]
  BY <1>1 DEF Close, Flush, OffsetsType, WithinLog
<1>3. \A q \in Partition : Promise!Settled(q, stash[q])
  BY DEF CInv, StashSettled, Settled, Promise!Settled
<1>4. UNCHANGED fates
  BY DEF Close, Flush
<1>5. Promise!Commit
  BY <1>2, <1>3, <1>4 DEF Promise!Commit, fates, lost
<1> QED BY <1>5 DEF Promise!Next

(* A restart reconsiders what was given up beyond the committed offsets.   *)
LEMMA RestartReconsiders == Restart => Promise!Next
<1> SUFFICES ASSUME Restart PROVE Promise!Reconsider
  BY DEF Promise!Next
<1> QED BY DEF Restart, Covered, offsets, Promise!Reconsider

LEMMA PromiseStep == CInv /\ [Next]_vars => [Promise!Next]_Abstract
<1> SUFFICES ASSUME CInv, [Next]_vars PROVE [Promise!Next]_Abstract
  OBVIOUS
<1>1. ASSUME UNCHANGED <<saved, lost, committed>> PROVE UNCHANGED Abstract
  BY <1>1 DEF Abstract, lost
<1>2. CASE SaveOrder \/ DeadLetter \/ Interrupt \/ \E m \in late : LateCommit(m)
  BY <1>2, FateSteps
<1>3. CASE Close \/ \E p \in Partition : Flush(p)
  BY <1>3, CommitSteps
<1>4. CASE Restart
  BY <1>4, RestartReconsiders
<1>5. CASE \/ \E p \in Partition : Fetch(p)
           \/ FetchError \/ PauseOver \/ Stopped \/ ParseError \/ SaveError \/ CacheSet
           \/ Retry \/ CommitMessages
  BY <1>1, <1>5
  DEF Fetch, FetchError, PauseOver, Stopped, ParseError, SaveError, CacheSet, Retry,
      CommitMessages, offsets, fates
<1>6. CASE \/ Rejoin \/ Cancel \/ CloseWriter \/ Exit \/ Crash \/ UNCHANGED vars
           \/ \E m \in late : LateRollback(m)
  BY <1>1, <1>6
  DEF Rejoin, Cancel, CloseWriter, Exit, Crash, Forget, LateRollback, vars, offsets, fates, lost
<1> QED BY <1>2, <1>3, <1>4, <1>5, <1>6 DEF Next, Goroutine

(* The consumer keeps the promise of at-least-once delivery, with its      *)
(* losses made explicit.                                                   *)
THEOREM ImplementsDelivery == Spec => RefinesDelivery
<1>1. CInv /\ [Next]_vars => [Promise!Next]_Abstract
  BY PromiseStep
<1> QED BY <1>1, PromiseInit, InductiveInvariant, PTL
        DEF Spec, RefinesDelivery, Promise!Spec, Abstract
=============================================================================
