------------------------- MODULE OrderServiceProofs -------------------------
(***************************************************************************)
(* Proofs about OrderService, for any topic, any orders, any number of     *)
(* concurrent requests, any capacity, any number of outages and any number *)
(* of calls that take effect after they have failed.                       *)
(***************************************************************************)
EXTENDS OrderService, ConsumerProofs, FiniteSetTheorems

-----------------------------------------------------------------------------
(* The service is the consumer with database, cache and requests around    *)
(* it: whatever is proved of Consumer holds here as well.                  *)
LEMMA ConsumerStepIsNext == ConsumerStep => [Next]_vars
BY DEF ConsumerStep, SaveAndStore, SaveFails, CacheSaved, ProcessEnds, WarmRead, WarmStart,
       ConsumerOnly, Next, Goroutine

LEMMA ServerStepIsNext == ServerStep => [Next]_vars
BY DEF ServerStep, LateStore, LateUndone, LateDelete, Next

LEMMA RequestsLeaveConsumer ==
    ASSUME \/ \E r \in Reader : ReaderStep(r)
           \/ \E d \in Deleter : DeleterStep(d)
           \/ \E u \in UID : Expire(u)
    PROVE  UNCHANGED vars
BY DEF ReaderStep, GetMiss, GetRow, GetItems, GetFails, GetFill, DeleterStep, DeleteRow,
       DeleteFails, DeleteCached, Expire

LEMMA StepIsNext == [SNext]_svars => [Next]_vars
<1>1. UNCHANGED svars => UNCHANGED vars
  BY DEF svars
<1> QED BY <1>1, ConsumerStepIsNext, ServerStepIsNext, RequestsLeaveConsumer DEF SNext

THEOREM ComposesConsumer == SSpec => Spec
<1>1. SInit => Init
  BY DEF SInit
<1> QED BY <1>1, StepIsNext, PTL DEF SSpec, Spec

(* So the group's offset passes no message whose fate is unknown, however  *)
(* requests and consumer interleave.                                       *)
THEOREM ServiceCommitsAreSettled == SSpec => []CommittedAreSettled
BY ComposesConsumer, CommitsAreSettled, PTL

(* The service keeps the consumer's promise of at-least-once delivery.     *)
THEOREM ServiceKeepsPromise == SSpec => RefinesDelivery
BY ComposesConsumer, ImplementsDelivery, PTL

-----------------------------------------------------------------------------
(* The inductive invariant.  What the cache may hold is decided by what    *)
(* readers, the consumer and a warm start have in their hands: all that    *)
(* was stored, and as long as nothing has overtaken it, all that is.       *)

(* The database holds stored orders, each under its own uid.               *)
DbStored ==
    \A u \in UID : db[u] # NoMessage => db[u] \in saved /\ UidOf[db[u]] = u

(* A reader holds what the database held when it asked.                    *)
GetsStored ==
    \A r \in Reader :
        /\ gets[r].at # "idle" => gets[r].uid \in UID
        /\ gets[r].at \in {"items", "fill"} =>
              gets[r].head \in saved /\ UidOf[gets[r].head] = gets[r].uid
        /\ gets[r].at = "fill" =>
              \/ gets[r].items = NoMessage
              \/ gets[r].items \in saved /\ UidOf[gets[r].items] = gets[r].uid

(* So does a warm start.                                                   *)
WarmStored ==
    \A u \in DOMAIN warm : u \in UID /\ warm[u] \in saved /\ UidOf[warm[u]] = u

(* A copy whose row has not changed since it was read is up to date.       *)
ReaderFresh ==
    \A r \in Reader \ overtaken :
        /\ gets[r].at \in {"items", "fill"} => gets[r].head = db[gets[r].uid]
        /\ gets[r].at = "fill" => gets[r].items = db[gets[r].uid]

ConsumerFresh == pc = "cache" /\ "consumer" \notin overtaken => db[UidOf[msg]] = msg

WarmFresh == \A u \in DOMAIN warm \ outdated : warm[u] = db[u]

(* A process that has ended holds no orders, and only a warm start holds   *)
(* some before the process runs.                                           *)
DownIsEmpty ==
    /\ pc = "down" => DOMAIN cache = {}
    /\ pc # "down" => DOMAIN warm = {}

GetsType ==
    gets \in [Reader -> [at : {"idle", "row", "items", "fill"},
                         uid : UID \union {NoMessage},
                         head : Message \union {NoMessage},
                         items : Message \union {NoMessage}]]

DbType == db \in [UID -> Message \union {NoMessage}]

DeletesType == deletes \in [Deleter -> UID \union {NoMessage}] /\ lateDeletes \in [UID -> Nat]

CacheType == Map!Kept /\ outdated \subseteq DOMAIN cache \union DOMAIN warm

WarmType == warm \in [DOMAIN warm -> Message] /\ Map!Fits(DOMAIN warm)

OvertakenType == overtaken \subseteq Reader \union {"consumer"}

ServiceType ==
    GetsType /\ DbType /\ DeletesType /\ CacheType /\ WarmType /\ OvertakenType

Stored == DbStored /\ GetsStored /\ WarmStored /\ CachedWasStored

Fresh == ReaderFresh /\ ConsumerFresh /\ WarmFresh

ServiceInv == ServiceType /\ Stored /\ Fresh /\ DownIsEmpty /\ CacheCoherent

SInv == CInv /\ ServiceInv

LEMMA ServiceTypeDef == ServiceTypeOK <=> ServiceType
BY DEF ServiceTypeOK, ServiceType, GetsType, DbType, DeletesType, CacheType, WarmType,
       OvertakenType

(* Fewer orders fit where more of them did.                                *)
LEMMA FitsSubset ==
    ASSUME NEW S \in SUBSET UID, NEW T \in SUBSET S, Map!Fits(S)
    PROVE  Map!Fits(T)
<1>1. IsFiniteSet(S)
  BY UidAssumption, FS_Subset
<1>2. Cardinality(T) <= Cardinality(S) /\ Cardinality(T) \in Nat /\ Cardinality(S) \in Nat
  BY <1>1, FS_Subset, FS_CardinalityType
<1> QED BY <1>2, MaxItemsAssumption DEF Map!Fits, Map!Cardinality, Cardinality

LEMMA FitsEmpty == Map!Fits({})
<1>1. Cardinality({}) = 0
  BY FS_EmptySet
<1> QED BY <1>1, MaxItemsAssumption DEF Map!Fits, Map!Cardinality, Cardinality

(* What cache.Set does to the cache and to the marks on its entries.       *)
LEMMA PutProperties ==
    ASSUME CacheType, DOMAIN warm = {}, NEW c \in Copy, NEW by, Put(c, by),
           by \notin overtaken => UpToDate(c)
    PROVE  /\ Map!Kept' /\ outdated' \subseteq DOMAIN cache'
           /\ DOMAIN cache' \subseteq DOMAIN cache \union {c.uid}
           /\ cache'[c.uid] = c
           /\ \A v \in DOMAIN cache' \ {c.uid} :
                 cache'[v] = cache[v] /\ (v \in outdated' <=> v \in outdated)
           /\ c.uid \notin outdated' => UpToDate(c)
<1>1. PICK gone \in SUBSET (DOMAIN cache \ {c.uid}) :
          /\ cache' = [u \in (DOMAIN cache \ gone) \union {c.uid} |->
                          IF u = c.uid THEN c ELSE cache[u]]
          /\ Map!Fits(DOMAIN cache')
  BY DEF Put, Map!Put
<1>2. DOMAIN cache' = (DOMAIN cache \ gone) \union {c.uid}
  BY <1>1
<1>3. /\ cache'[c.uid] = c
      /\ \A v \in DOMAIN cache' \ {c.uid} : v \in DOMAIN cache /\ cache'[v] = cache[v]
  BY <1>1, <1>2
<1>4. c.uid \in UID
  BY DEF Copy
<1>5. Map!Kept'
  BY <1>1, <1>2, <1>3, <1>4 DEF CacheType, Map!Kept
<1>6. outdated' \subseteq DOMAIN cache'
  BY <1>2 DEF Put
<1>7. c.uid \notin outdated' => UpToDate(c)
  BY DEF Put
<1>8. \A v \in DOMAIN cache' \ {c.uid} : v \in outdated' <=> v \in outdated
  BY DEF Put
<1> QED BY <1>2, <1>3, <1>5, <1>6, <1>7, <1>8

LEMMA DropProperties ==
    ASSUME CacheType, DOMAIN warm = {}, NEW u, Drop(u)
    PROVE  /\ Map!Kept' /\ outdated' \subseteq DOMAIN cache'
           /\ DOMAIN cache' = DOMAIN cache \ {u}
           /\ \A v \in DOMAIN cache' :
                 cache'[v] = cache[v] /\ (v \in outdated' <=> v \in outdated)
<1>1. DOMAIN cache' = DOMAIN cache \ {u} /\ \A v \in DOMAIN cache' : cache'[v] = cache[v]
  BY DEF Drop
<1>2. Map!Fits(DOMAIN cache')
  BY <1>1, FitsSubset DEF CacheType, Map!Kept
<1>3. Map!Kept'
  BY <1>1, <1>2 DEF CacheType, Map!Kept, Map!Fits
<1> QED BY <1>1, <1>3 DEF CacheType, Drop

-----------------------------------------------------------------------------
(* Every step preserves the invariant.                                     *)
LEMMA InitSInv == SInit => SInv
<1> SUFFICES ASSUME SInit PROVE SInv
  OBVIOUS
<1>1. CInv
  BY InitCInv DEF SInit
<1>2. GetsType /\ DbType /\ DeletesType /\ OvertakenType
  BY DEF SInit, GetsType, DbType, DeletesType, OvertakenType, Idle
<1>3. DOMAIN cache = {} /\ DOMAIN warm = {} /\ outdated = {}
  BY DEF SInit, EmptyCache
<1>4. CacheType /\ WarmType
  BY <1>3, FitsEmpty DEF SInit, CacheType, WarmType, EmptyCache, Map!Kept, Map!Fits
<1>5. Stored
  BY <1>3 DEF SInit, Idle, Stored, DbStored, GetsStored, WarmStored, CachedWasStored
<1>6. Fresh
  BY <1>3 DEF SInit, Init, Idle, Fresh, ReaderFresh, ConsumerFresh, WarmFresh
<1>7. DownIsEmpty /\ CacheCoherent
  BY <1>3 DEF DownIsEmpty, CacheCoherent
<1> QED BY <1>1, <1>2, <1>4, <1>5, <1>6, <1>7 DEF SInv, ServiceInv, ServiceType

LEMMA SInvParts ==
    ASSUME SInv
    PROVE  /\ CInv /\ FatesType /\ HasMessage /\ CacheAfterSave
           /\ GetsType /\ DbType /\ DeletesType /\ CacheType /\ WarmType /\ OvertakenType
           /\ DbStored /\ GetsStored /\ WarmStored /\ CachedWasStored
           /\ ReaderFresh /\ ConsumerFresh /\ WarmFresh
           /\ DownIsEmpty /\ CacheCoherent
BY TypeParts DEF SInv, CInv, ServiceInv, ServiceType, Stored, Fresh

(* The message in progress is a whole order.                               *)
LEMMA MessageInHand ==
    ASSUME SInv, pc \in Busy
    PROVE  /\ msg \in Message /\ UidOf[msg] \in UID
           /\ Whole(UidOf[msg], msg) \in Copy
<1>1. msg \in Message
  BY SInvParts DEF HasMessage
<1> QED BY <1>1, UidAssumption DEF Whole, Copy

(* A row changes - by the consumer, a DELETE or late - and either somebody *)
(* is still to see to its cached copy or that copy is marked.              *)
LEMMA RowStep ==
    ASSUME SInv, NEW u \in UID, NEW m \in Message \union {NoMessage}, SetRow(u, m),
           m # NoMessage => m \in saved' /\ UidOf[m] = u,
           saved \subseteq saved',
           UNCHANGED <<cache, gets, warm>>, DeletesType',
           \/ UNCHANGED <<pc, msg>>
           \/ /\ pc = "process" /\ pc' = "cache" /\ UNCHANGED msg
              /\ m = msg,
           \A v \in UID : Pending(v) => Pending(v)',
           \/ pc # "down" /\ Pending(u)' /\ UNCHANGED outdated
           \/ Unnoticed(u)
    PROVE  ServiceInv'
<1> USE SInvParts
<1>1. /\ db'[u] = m
      /\ \A v \in UID \ {u} : db'[v] = db[v]
      /\ overtaken' = overtaken \union Holding(u)
  BY DEF SetRow, DbType
<1>2. DbType' /\ GetsType' /\ WarmType'
  BY DEF SetRow, DbType, GetsType, WarmType, Map!Fits
<1>3. outdated \subseteq outdated' /\ outdated' \subseteq outdated \union {u}
      /\ outdated' \subseteq DOMAIN cache \union DOMAIN warm
  BY DEF CacheType, Unnoticed
<1>4. CacheType'
  BY <1>3 DEF CacheType, Map!Kept, Map!Fits
<1>5. OvertakenType'
  BY <1>1 DEF OvertakenType, Holding
<1>6. Stored'
  <2>1. DbStored'
    BY <1>1 DEF DbStored
  <2>2. (GetsStored /\ WarmStored /\ CachedWasStored)'
    BY DEF GetsStored, WarmStored, CachedWasStored
  <2> QED BY <2>1, <2>2 DEF Stored
<1>7. ReaderFresh'
  <2> SUFFICES ASSUME NEW r \in Reader, r \notin overtaken', gets[r].at \in {"items", "fill"}
               PROVE  /\ gets[r].head = db'[gets[r].uid]
                      /\ gets[r].at = "fill" => gets[r].items = db'[gets[r].uid]
    BY DEF ReaderFresh
  <2>1. gets[r].uid \in UID /\ gets[r].uid # u /\ r \notin overtaken
    BY <1>1 DEF GetsStored, Holding
  <2> QED BY <1>1, <2>1 DEF ReaderFresh
<1>8. ConsumerFresh'
  <2>1. CASE UNCHANGED <<pc, msg>>
    <3> SUFFICES ASSUME pc = "cache", "consumer" \notin overtaken' PROVE db'[UidOf[msg]] = msg
      BY <2>1 DEF ConsumerFresh
    <3>1. UidOf[msg] \in UID
      BY MessageInHand DEF Busy
    <3>2. UidOf[msg] # u /\ "consumer" \notin overtaken
      BY <1>1 DEF Holding
    <3> QED BY <1>1, <3>1, <3>2 DEF ConsumerFresh
  <2>2. CASE pc = "process" /\ UNCHANGED msg /\ m = msg
    <3>1. msg \in Message /\ msg # NoMessage
      BY <2>2, MessageInHand, MessageParts DEF Busy
    <3> QED BY <1>1, <2>2, <3>1 DEF ConsumerFresh
  <2> QED BY <2>1, <2>2
<1>9. DownIsEmpty'
  BY DEF DownIsEmpty
<1>10. WarmFresh'
  <2> SUFFICES ASSUME NEW v \in DOMAIN warm, v \notin outdated' PROVE warm[v] = db'[v]
    BY DEF WarmFresh
  <2>1. v \in UID /\ warm[v] = db[v]
    BY <1>3 DEF WarmFresh, WarmStored
  <2>2. CASE v # u
    BY <1>1, <2>1, <2>2
  <2>3. CASE v = u /\ Unnoticed(u)
    BY <2>1, <2>3 DEF Unnoticed
  <2>4. CASE ~ Unnoticed(u)
    BY <2>4 DEF DownIsEmpty
  <2> QED BY <2>2, <2>3, <2>4
<1>11. CacheCoherent'
  <2> SUFFICES ASSUME NEW v \in DOMAIN cache, v \notin outdated', ~ Pending(v)'
               PROVE  UpToDate(cache[v])'
    BY DEF CacheCoherent
  <2>1. v \in UID /\ v \notin outdated /\ cache[v].uid = v
    BY <1>3 DEF CacheType, Map!Kept
  <2>2. UpToDate(cache[v])
    BY <2>1 DEF CacheCoherent
  <2>3. db'[v] = db[v]
    BY <1>1, <2>1 DEF Unnoticed
  <2> QED BY <2>1, <2>2, <2>3 DEF UpToDate
<1> QED BY <1>2, <1>4, <1>5, <1>6, <1>7, <1>8, <1>9, <1>10, <1>11
        DEF ServiceInv, ServiceType, Fresh

(* A copy of what was stored is put into the cache.                        *)
LEMMA PutStep ==
    ASSUME SInv, NEW c \in Copy, NEW by, Put(c, by), by \notin overtaken => UpToDate(c),
           UNCHANGED <<db, saved, warm>>, pc # "down", pc' # "down",
           c.head \in saved, UidOf[c.head] = c.uid,
           c.items = NoMessage \/ (c.items \in saved /\ UidOf[c.items] = c.uid),
           \A v \in UID : v # c.uid /\ Pending(v) => Pending(v)'
    PROVE  (CacheType /\ WarmType /\ OvertakenType /\ DbStored /\ WarmStored /\ CachedWasStored
               /\ WarmFresh /\ DownIsEmpty /\ CacheCoherent)'
<1> USE SInvParts
<1>1. DOMAIN warm = {} /\ DOMAIN warm' = {}
  BY DEF DownIsEmpty
<1>2. /\ Map!Kept' /\ outdated' \subseteq DOMAIN cache'
      /\ DOMAIN cache' \subseteq DOMAIN cache \union {c.uid}
      /\ cache'[c.uid] = c
      /\ \A v \in DOMAIN cache' \ {c.uid} :
            cache'[v] = cache[v] /\ (v \in outdated' <=> v \in outdated)
      /\ c.uid \notin outdated' => UpToDate(c)
  BY <1>1, PutProperties
<1>3. (CacheType /\ WarmType /\ OvertakenType)'
  BY <1>2 DEF CacheType, WarmType, Map!Fits, OvertakenType, Put
<1>4. (DbStored /\ WarmStored /\ WarmFresh /\ DownIsEmpty)'
  BY <1>1 DEF DbStored, WarmStored, WarmFresh, DownIsEmpty
<1>5. CachedWasStored'
  BY <1>2 DEF CachedWasStored
<1>6. ASSUME NEW u \in DOMAIN cache' \ outdated' PROVE Pending(u)' \/ UpToDate(cache[u])'
  <2>1. CASE u = c.uid
    BY <1>2, <1>6, <2>1 DEF UpToDate
  <2>2. CASE u # c.uid
    <3>1. u \in DOMAIN cache \ outdated /\ cache'[u] = cache[u] /\ u \in UID
      BY <1>2, <1>6, <2>2 DEF CacheType, Map!Kept
    <3>2. Pending(u) \/ UpToDate(cache[u])
      BY <3>1 DEF CacheCoherent
    <3> QED BY <2>2, <3>1, <3>2 DEF UpToDate
  <2> QED BY <2>1, <2>2
<1>7. CacheCoherent'
  BY <1>6 DEF CacheCoherent
<1> QED BY <1>3, <1>4, <1>5, <1>7

(* An entry leaves the cache.                                              *)
LEMMA DropStep ==
    ASSUME SInv, NEW u, Drop(u), UNCHANGED <<vars, db, gets, lateDeletes, warm, overtaken>>,
           pc # "down", DeletesType', \A v \in UID : v # u /\ Pending(v) => Pending(v)'
    PROVE  ServiceInv'
<1> USE SInvParts
<1>1. DOMAIN warm = {} /\ UNCHANGED <<pc, msg, saved>>
  BY DEF DownIsEmpty, vars
<1>2. /\ Map!Kept' /\ outdated' \subseteq DOMAIN cache'
      /\ DOMAIN cache' = DOMAIN cache \ {u}
      /\ \A v \in DOMAIN cache' :
            cache'[v] = cache[v] /\ (v \in outdated' <=> v \in outdated)
  BY <1>1, DropProperties
<1>3. ServiceType'
  BY <1>2 DEF ServiceType, CacheType, GetsType, DbType, WarmType, Map!Fits, OvertakenType
<1>4. Stored'
  BY <1>1, <1>2 DEF Stored, DbStored, GetsStored, WarmStored, CachedWasStored
<1>5. Fresh' /\ DownIsEmpty'
  BY <1>1 DEF Fresh, ReaderFresh, ConsumerFresh, WarmFresh, DownIsEmpty
<1>6. ASSUME NEW v \in DOMAIN cache' \ outdated' PROVE Pending(v)' \/ UpToDate(cache[v])'
  <2>1. v # u /\ v \in DOMAIN cache \ outdated /\ cache'[v] = cache[v] /\ v \in UID
    BY <1>2, <1>6 DEF CacheType, Map!Kept
  <2>2. Pending(v) \/ UpToDate(cache[v])
    BY <2>1 DEF CacheCoherent
  <2> QED BY <2>1, <2>2 DEF UpToDate
<1>7. CacheCoherent'
  BY <1>6 DEF CacheCoherent
<1> QED BY <1>3, <1>4, <1>5, <1>7 DEF ServiceInv

(* Database and cache stay as they are, whatever requests do to            *)
(* themselves, and nothing pending is forgotten.                           *)
LEMMA QuietStep ==
    ASSUME SInv, UNCHANGED <<db, cache, warm, outdated, saved>>,
           GetsType', DeletesType', OvertakenType', GetsStored', ReaderFresh', ConsumerFresh',
           pc' = "down" <=> pc = "down", \A v \in UID : Pending(v) => Pending(v)'
    PROVE  ServiceInv'
<1> USE SInvParts
<1>1. (DbType /\ WarmType /\ DbStored /\ WarmStored /\ CachedWasStored /\ WarmFresh /\ DownIsEmpty)'
  BY DEF DbType, WarmType, Map!Fits, DbStored, WarmStored, CachedWasStored, WarmFresh, DownIsEmpty
<1>2. CacheType'
  BY DEF CacheType, Map!Kept, Map!Fits
<1>3. CacheCoherent'
  BY <1>2 DEF CacheCoherent, UpToDate, CacheType, Map!Kept
<1> QED BY <1>1, <1>2, <1>3 DEF ServiceInv, ServiceType, Stored, Fresh

(* The consumer goes on and the service does not notice.                   *)
LEMMA UnseenStep ==
    ASSUME SInv, UNCHANGED service, UNCHANGED saved, pc' = "down" <=> pc = "down",
           pc = "cache" => pc' = "cache" /\ msg' = msg,
           pc' = "cache" => pc = "cache"
    PROVE  ServiceInv'
<1> USE SInvParts DEF service
<1>1. (GetsType /\ DeletesType /\ OvertakenType /\ GetsStored /\ ReaderFresh /\ ConsumerFresh)'
  BY DEF GetsType, DeletesType, OvertakenType, GetsStored, ReaderFresh, ConsumerFresh
<1>2. \A v \in UID : Pending(v) => Pending(v)'
  BY DEF Pending
<1> QED BY <1>1, <1>2, QuietStep

LEMMA SaveStep == SInv /\ SaveAndStore => ServiceInv'
<1> SUFFICES ASSUME SInv, SaveAndStore PROVE ServiceInv'
  OBVIOUS
<1>1. msg \in Message /\ UidOf[msg] \in UID
  BY MessageInHand DEF SaveAndStore, SaveOrder, Busy
<1>2. SetRow(UidOf[msg], msg) /\ saved' = saved \union {msg} /\ UNCHANGED <<cache, gets, warm>>
  BY DEF SaveAndStore, SaveOrder, Store
<1>3. pc = "process" /\ pc' = "cache" /\ UNCHANGED <<msg, deletes, lateDeletes, outdated>>
  BY DEF SaveAndStore, SaveOrder
<1>4. DeletesType'
  BY <1>3, SInvParts DEF DeletesType
<1>5. (\A v \in UID : Pending(v) => Pending(v)') /\ Pending(UidOf[msg])'
  BY <1>3 DEF Pending
<1> QED BY <1>1, <1>2, <1>3, <1>4, <1>5, RowStep

LEMMA CacheSavedStep == SInv /\ CacheSaved => ServiceInv'
<1> DEFINE c == Whole(UidOf[msg], msg)
<1> SUFFICES ASSUME SInv, CacheSaved PROVE ServiceInv'
  OBVIOUS
<1> USE SInvParts
<1>1. c \in Copy /\ c.head = msg /\ c.items = msg /\ c.uid = UidOf[msg]
  BY MessageInHand DEF CacheSaved, CacheSet, Busy, Whole
<1>2. msg \in saved
  BY DEF CacheSaved, CacheSet, CacheAfterSave
<1>3. \A v \in UID : v # UidOf[msg] /\ Pending(v) => Pending(v)'
  BY DEF CacheSaved, Pending
<1>4. /\ UNCHANGED <<db, saved, gets, deletes, lateDeletes, warm>> /\ Put(c, "consumer")
      /\ pc = "cache" /\ pc' = "commit"
  BY DEF CacheSaved, CacheSet, fates
<1>5. "consumer" \notin overtaken => UpToDate(c)
  BY <1>4 DEF ConsumerFresh, UpToDate, Whole
<1>6. overtaken' = overtaken \ {"consumer"}
  BY <1>4 DEF Put
<1> HIDE DEF c
<1>7. (CacheType /\ WarmType /\ OvertakenType /\ DbStored /\ WarmStored /\ CachedWasStored
          /\ WarmFresh /\ DownIsEmpty /\ CacheCoherent)'
  BY <1>1, <1>2, <1>3, <1>4, <1>5, PutStep
<1>8. (GetsType /\ DbType /\ DeletesType /\ GetsStored)'
  BY <1>4 DEF GetsType, DbType, DeletesType, GetsStored
<1>9. (ReaderFresh /\ ConsumerFresh)'
  BY <1>4, <1>6, ReaderAssumption DEF ReaderFresh, ConsumerFresh
<1> QED BY <1>7, <1>8, <1>9 DEF ServiceInv, ServiceType, Stored, Fresh

LEMMA EndStep == SInv /\ ProcessEnds => ServiceInv'
<1> SUFFICES ASSUME SInv, ProcessEnds PROVE ServiceInv'
  OBVIOUS
<1> USE SInvParts
<1>1. UNCHANGED <<db, saved, lateDeletes, warm>> /\ pc # "down" /\ pc' = "down"
  BY DEF ProcessEnds, Exit, Crash, fates
<1>2. DOMAIN cache' = {} /\ outdated' = {} /\ overtaken' = {} /\ DOMAIN warm = {}
  BY <1>1 DEF ProcessEnds, EmptyCache, DownIsEmpty
<1>3. (CacheType /\ WarmType /\ OvertakenType)'
  BY <1>1, <1>2, FitsEmpty DEF CacheType, WarmType, OvertakenType, Map!Kept, Map!Fits
<1>4. (DbType /\ DbStored)'
  BY <1>1 DEF DbType, DbStored
<1>5. (GetsType /\ GetsStored /\ DeletesType /\ ReaderFresh)'
  BY DEF ProcessEnds, Idle, GetsType, GetsStored, DeletesType, ReaderFresh
<1>6. (WarmStored /\ WarmFresh /\ ConsumerFresh /\ DownIsEmpty)'
  BY <1>1, <1>2 DEF WarmStored, WarmFresh, ConsumerFresh, DownIsEmpty
<1>7. (CachedWasStored /\ CacheCoherent)'
  BY <1>2 DEF CachedWasStored, CacheCoherent
<1> QED BY <1>3, <1>4, <1>5, <1>6, <1>7 DEF ServiceInv, ServiceType, Stored, Fresh

LEMMA WarmReadStep == SInv /\ WarmRead => ServiceInv'
<1> SUFFICES ASSUME SInv, WarmRead PROVE ServiceInv'
  OBVIOUS
<1> USE SInvParts
<1>1. PICK S \in SUBSET {u \in UID : db[u] # NoMessage} :
          Map!Fits(S) /\ warm' = [u \in S |-> db[u]]
  BY DEF WarmRead, Rows
<1>2. /\ UNCHANGED <<pc, msg, saved, db, cache, gets, deletes, lateDeletes, overtaken>>
      /\ outdated' = {} /\ pc = "down"
  BY DEF WarmRead, vars
<1>3. ASSUME NEW u \in S PROVE /\ u \in UID /\ warm'[u] = db[u] /\ warm'[u] \in Message
                               /\ db[u] \in saved /\ UidOf[db[u]] = u
  BY <1>1 DEF DbType, DbStored
<1>4. DOMAIN warm' = S
  BY <1>1
<1>5. WarmType'
  BY <1>1, <1>3, <1>4 DEF WarmType, Map!Fits
<1>6. (CacheType /\ GetsType /\ DbType /\ DeletesType /\ OvertakenType)'
  BY <1>2 DEF CacheType, Map!Kept, Map!Fits, GetsType, DbType, DeletesType, OvertakenType
<1>7. (DbStored /\ GetsStored /\ CachedWasStored)'
  BY <1>2 DEF DbStored, GetsStored, CachedWasStored
<1>8. (WarmStored /\ WarmFresh)'
  BY <1>2, <1>3, <1>4 DEF WarmStored, WarmFresh
<1>9. (ReaderFresh /\ ConsumerFresh /\ DownIsEmpty)'
  BY <1>2 DEF ReaderFresh, ConsumerFresh, DownIsEmpty
<1>10. CacheCoherent'
  BY <1>2 DEF DownIsEmpty, CacheCoherent
<1> QED BY <1>5, <1>6, <1>7, <1>8, <1>9, <1>10 DEF ServiceInv, ServiceType, Stored, Fresh

LEMMA WarmStartStep == SInv /\ WarmStart => ServiceInv'
<1> SUFFICES ASSUME SInv, WarmStart PROVE ServiceInv'
  OBVIOUS
<1> USE SInvParts
<1>1. /\ UNCHANGED <<saved, msg, db, gets, deletes, lateDeletes, overtaken, outdated>>
      /\ pc = "down" /\ pc' = "fetch" /\ DOMAIN cache = {} /\ DOMAIN warm' = {}
      /\ warm' = [u \in {} |-> 0]
  BY DEF WarmStart, Restart, DownIsEmpty, EmptyCache
<1>2. cache' = [u \in DOMAIN warm |-> [uid |-> u, head |-> warm[u], items |-> db[u]]]
  BY DEF WarmStart
<1>3. ASSUME NEW u \in DOMAIN warm
      PROVE  /\ u \in UID /\ cache'[u] \in Copy
             /\ cache'[u].uid = u /\ cache'[u].head = warm[u] /\ cache'[u].items = db[u]
             /\ warm[u] \in saved /\ UidOf[warm[u]] = u
             /\ db[u] # NoMessage => db[u] \in saved /\ UidOf[db[u]] = u
             /\ warm[u] = db[u] => cache'[u] = Whole(u, db[u])
  <2>1. u \in UID /\ warm[u] \in Message /\ warm[u] \in saved /\ UidOf[warm[u]] = u
    BY DEF WarmStored, WarmType
  <2>2. db[u] \in Message \union {NoMessage}
    BY <2>1 DEF DbType
  <2> QED BY <1>2, <2>1, <2>2 DEF DbStored, Whole, Copy
<1>4. DOMAIN cache' = DOMAIN warm
  BY <1>2
<1>5. CacheType'
  BY <1>1, <1>3, <1>4 DEF CacheType, WarmType, Map!Kept, Map!Fits
<1>6. WarmType'
  BY <1>1, FitsEmpty DEF WarmType, Map!Fits
<1>7. CachedWasStored'
  BY <1>1, <1>3, <1>4 DEF CachedWasStored
<1>8. CacheCoherent'
  BY <1>1, <1>3, <1>4 DEF CacheCoherent, UpToDate, WarmFresh
<1>9. (GetsType /\ DbType /\ DeletesType /\ OvertakenType /\ DbStored /\ GetsStored)'
  BY <1>1 DEF GetsType, DbType, DeletesType, OvertakenType, DbStored, GetsStored
<1>10. (WarmStored /\ WarmFresh /\ ReaderFresh /\ ConsumerFresh /\ DownIsEmpty)'
  BY <1>1 DEF WarmStored, WarmFresh, ReaderFresh, ConsumerFresh, DownIsEmpty
<1> QED BY <1>5, <1>6, <1>7, <1>8, <1>9, <1>10 DEF ServiceInv, ServiceType, Stored, Fresh

LEMMA ConsumerServiceStep == SInv /\ ConsumerStep => ServiceInv'
<1> SUFFICES ASSUME SInv, ConsumerStep PROVE ServiceInv'
  OBVIOUS
<1>1. CASE SaveFails
  BY <1>1, UnseenStep DEF SaveFails, SaveError
<1>2. CASE ConsumerOnly
  <2>1. UNCHANGED saved
    BY <1>2
    DEF ConsumerOnly, Fetch, Flush, FetchError, PauseOver, Stopped, ParseError, Retry, Interrupt,
        DeadLetter, CommitMessages, Rejoin, Cancel, Close, CloseWriter, fates
  <2>2. /\ pc' = "down" <=> pc = "down"
        /\ pc = "cache" => pc' = "cache" /\ msg' = msg
        /\ pc' = "cache" => pc = "cache"
    BY <1>2
    DEF ConsumerOnly, Fetch, Flush, FetchError, PauseOver, Stopped, ParseError, Retry, Interrupt,
        DeadLetter, CommitMessages, Rejoin, Cancel, Close, CloseWriter
  <2> QED BY <1>2, <2>1, <2>2, UnseenStep DEF ConsumerOnly
<1> QED
  BY <1>1, <1>2, SaveStep, CacheSavedStep, EndStep, WarmReadStep, WarmStartStep DEF ConsumerStep

(* What failed is carried out after all: the copies of the row are marked. *)
LEMMA LateStoreStep ==
    ASSUME SInv, NEW m \in late, LateStore(m)
    PROVE  ServiceInv'
<1>1. m \in Message /\ UidOf[m] \in UID
  BY SInvParts, UidAssumption DEF FatesType
<1>2. /\ SetRow(UidOf[m], m) /\ saved' = saved \union {m} /\ Unnoticed(UidOf[m])
      /\ UNCHANGED <<pc, msg, cache, gets, deletes, lateDeletes, warm>>
  BY DEF LateStore, LateCommit, Store
<1>3. DeletesType' /\ \A v \in UID : Pending(v) => Pending(v)'
  BY <1>2, SInvParts DEF DeletesType, Pending
<1> QED BY <1>1, <1>2, <1>3, RowStep

LEMMA LateDeleteStep ==
    ASSUME SInv, NEW u \in UID, LateDelete(u)
    PROVE  ServiceInv'
<1> USE SInvParts
<1>1. UNCHANGED <<pc, msg, saved, cache, gets, deletes, warm>>
  BY DEF LateDelete, vars
<1>2. DeletesType'
  BY DEF LateDelete, DeletesType
<1>3. \A v \in UID : Pending(v) => Pending(v)'
  BY <1>1 DEF Pending
<1>4. CASE SetRow(u, NoMessage) /\ Unnoticed(u)
  BY <1>1, <1>2, <1>3, <1>4, RowStep
<1>5. CASE UNCHANGED <<db, overtaken, outdated>>
  <2>1. (GetsType /\ OvertakenType /\ GetsStored /\ ReaderFresh /\ ConsumerFresh)'
    BY <1>1, <1>5 DEF GetsType, OvertakenType, GetsStored, ReaderFresh, ConsumerFresh
  <2> QED BY <1>1, <1>2, <1>3, <1>5, <2>1, QuietStep
<1> QED BY <1>4, <1>5 DEF LateDelete

LEMMA ServerServiceStep == SInv /\ ServerStep => ServiceInv'
<1> SUFFICES ASSUME SInv, ServerStep PROVE ServiceInv'
  OBVIOUS
<1>1. ASSUME NEW m \in late, LateUndone(m) PROVE ServiceInv'
  BY <1>1, UnseenStep DEF LateUndone, LateRollback
<1> QED BY <1>1, LateStoreStep, LateDeleteStep DEF ServerStep

LEMMA ReaderServiceStep ==
    ASSUME SInv, NEW r \in Reader, ReaderStep(r)
    PROVE  ServiceInv'
<1> USE SInvParts DEF GetsType
<1>1. UNCHANGED <<pc, msg, saved, db, deletes, lateDeletes, warm>> /\ pc # "down"
  BY DEF ReaderStep, GetMiss, GetRow, GetItems, GetFails, GetFill, vars
<1>2. (DbType /\ DeletesType)' /\ \A v \in UID : Pending(v) => Pending(v)'
  BY <1>1 DEF DbType, DeletesType, Pending
<1>3. ASSUME UNCHANGED <<cache, outdated, overtaken>>, (GetsType /\ GetsStored /\ ReaderFresh)'
      PROVE  ServiceInv'
  <2>1. (OvertakenType /\ ConsumerFresh)'
    BY <1>1, <1>3 DEF OvertakenType, ConsumerFresh
  <2> QED BY <1>1, <1>2, <1>3, <2>1, QuietStep
<1>4. ASSUME NEW u \in UID, GetMiss(r, u) PROVE ServiceInv'
  <2>1. (GetsType /\ GetsStored /\ ReaderFresh)'
    BY <1>1, <1>4 DEF GetMiss, GetsStored, ReaderFresh
  <2> QED BY <1>3, <1>4, <2>1 DEF GetMiss
<1>5. CASE GetRow(r)
  <2>1. gets[r].uid \in UID
    BY <1>5 DEF GetRow, GetsStored
  <2>2. db[gets[r].uid] \in saved /\ UidOf[db[gets[r].uid]] = gets[r].uid
        /\ db[gets[r].uid] \in Message
    BY <1>5, <2>1 DEF GetRow, DbStored, FatesType
  <2>3. GetsType'
    BY <1>5, <2>2 DEF GetRow
  <2>4. GetsStored'
    BY <1>1, <1>5, <2>1, <2>2 DEF GetRow, GetsStored
  <2>5. ReaderFresh'
    BY <1>1, <1>5 DEF GetRow, ReaderFresh
  <2> QED BY <1>3, <1>5, <2>3, <2>4, <2>5 DEF GetRow
<1>6. CASE GetItems(r)
  <2>1. gets[r].uid \in UID
    BY <1>6 DEF GetItems, GetsStored
  <2>2. /\ db[gets[r].uid] \in Message \union {NoMessage}
        /\ db[gets[r].uid] # NoMessage =>
              db[gets[r].uid] \in saved /\ UidOf[db[gets[r].uid]] = gets[r].uid
    BY <2>1 DEF DbStored, DbType
  <2>3. GetsType'
    BY <1>6, <2>2 DEF GetItems
  <2>4. GetsStored'
    BY <1>1, <1>6, <2>1, <2>2 DEF GetItems, GetsStored
  <2>5. ReaderFresh'
    BY <1>1, <1>6 DEF GetItems, ReaderFresh
  <2> QED BY <1>3, <1>6, <2>3, <2>4, <2>5 DEF GetItems
<1>7. CASE GetFails(r)
  <2>1. UNCHANGED <<cache, outdated>> /\ overtaken' = overtaken \ {r}
    BY <1>7 DEF GetFails
  <2>2. (GetsType /\ GetsStored /\ ReaderFresh)'
    BY <1>1, <1>7 DEF GetFails, GetsStored, ReaderFresh, Idle
  <2>3. (OvertakenType /\ ConsumerFresh)'
    BY <1>1, <2>1, ReaderAssumption DEF OvertakenType, ConsumerFresh
  <2> QED BY <1>1, <1>2, <2>1, <2>2, <2>3, QuietStep
<1>8. CASE GetFill(r)
  <2> DEFINE c == [uid |-> gets[r].uid, head |-> gets[r].head, items |-> gets[r].items]
  <2>1. /\ gets[r].uid \in UID /\ gets[r].head \in saved /\ UidOf[gets[r].head] = gets[r].uid
        /\ \/ gets[r].items = NoMessage
           \/ gets[r].items \in saved /\ UidOf[gets[r].items] = gets[r].uid
    BY <1>8 DEF GetFill, GetsStored
  <2>2. /\ c \in Copy /\ c.head \in saved /\ UidOf[c.head] = c.uid
        /\ c.items = NoMessage \/ (c.items \in saved /\ UidOf[c.items] = c.uid)
    BY <2>1 DEF Copy, FatesType
  <2>3. r \notin overtaken => UpToDate(c)
    BY <1>8 DEF GetFill, ReaderFresh, UpToDate, Whole
  <2>4. Put(c, r) /\ overtaken' = overtaken \ {r}
    BY <1>8 DEF GetFill, Put
  <2>5. (GetsType /\ GetsStored /\ ReaderFresh)'
    BY <1>1, <1>8, <2>4 DEF GetFill, GetsStored, ReaderFresh, Idle
  <2>6. ConsumerFresh'
    BY <1>1, <2>4, ReaderAssumption DEF ConsumerFresh
  <2> HIDE DEF c
  <2>7. (CacheType /\ WarmType /\ OvertakenType /\ DbStored /\ WarmStored /\ CachedWasStored
            /\ WarmFresh /\ DownIsEmpty /\ CacheCoherent)'
    BY <1>1, <1>2, <2>2, <2>3, <2>4, PutStep
  <2> QED BY <1>2, <2>5, <2>6, <2>7 DEF ServiceInv, ServiceType, Stored, Fresh
<1> QED BY <1>4, <1>5, <1>6, <1>7, <1>8 DEF ReaderStep

LEMMA DeleterServiceStep ==
    ASSUME SInv, NEW d \in Deleter, DeleterStep(d)
    PROVE  ServiceInv'
<1> USE SInvParts
<1>1. UNCHANGED <<vars, pc, msg, saved, gets, warm>> /\ pc # "down"
  BY DEF DeleterStep, DeleteRow, DeleteFails, DeleteCached, vars
<1>2. ASSUME NEW u \in UID, DeleteRow(d, u) PROVE ServiceInv'
  <2>1. DeletesType'
    BY <1>2 DEF DeleteRow, DeletesType
  <2>2. /\ deletes[d] = NoMessage /\ deletes'[d] = u
        /\ \A e \in Deleter \ {d} : deletes'[e] = deletes[e]
    BY <1>2 DEF DeleteRow, DeletesType
  <2>3. \A v \in UID : Pending(v) => Pending(v)'
    BY <1>1, <2>2, UidAssumption DEF Pending
  <2>4. Pending(u)'
    BY <2>2 DEF Pending
  <2> QED BY <1>1, <1>2, <2>1, <2>3, <2>4, RowStep DEF DeleteRow
<1>3. ASSUME NEW u \in UID, DeleteFails(d, u) PROVE ServiceInv'
  <2>1. UNCHANGED <<db, cache, outdated, overtaken, deletes>>
    BY <1>3 DEF DeleteFails
  <2>2. DeletesType'
    BY <1>3 DEF DeleteFails, DeletesType
  <2>3. (GetsType /\ OvertakenType /\ GetsStored /\ ReaderFresh /\ ConsumerFresh)'
    BY <1>1, <2>1 DEF GetsType, OvertakenType, GetsStored, ReaderFresh, ConsumerFresh
  <2>4. \A v \in UID : Pending(v) => Pending(v)'
    BY <1>1, <2>1 DEF Pending
  <2> QED BY <1>1, <2>1, <2>2, <2>3, <2>4, QuietStep
<1>4. CASE DeleteCached(d)
  <2>1. Drop(deletes[d]) /\ UNCHANGED <<db, gets, lateDeletes, warm, overtaken>>
    BY <1>4 DEF DeleteCached
  <2>2. DeletesType'
    BY <1>4 DEF DeleteCached, DeletesType
  <2>3. \A v \in UID : v # deletes[d] /\ Pending(v) => Pending(v)'
    BY <1>1, <1>4 DEF DeleteCached, Pending, DeletesType
  <2> QED BY <1>1, <2>1, <2>2, <2>3, DropStep
<1> QED BY <1>2, <1>3, <1>4 DEF DeleterStep

LEMMA ExpireServiceStep ==
    ASSUME SInv, NEW u \in UID, Expire(u)
    PROVE  ServiceInv'
<1>1. pc # "down"
  BY SInvParts DEF Expire, DownIsEmpty
<1>2. DeletesType' /\ \A v \in UID : Pending(v) => Pending(v)'
  BY SInvParts DEF Expire, DeletesType, Pending, vars
<1> QED BY <1>1, <1>2, DropStep DEF Expire

LEMMA SInvStep == SInv /\ [SNext]_svars => SInv'
<1> SUFFICES ASSUME SInv, [SNext]_svars PROVE SInv'
  OBVIOUS
<1>1. CInv'
  BY StepIsNext, CInvStep DEF SInv
<1>2. ASSUME SNext PROVE ServiceInv'
  BY <1>2, ConsumerServiceStep, ServerServiceStep, ReaderServiceStep, DeleterServiceStep,
     ExpireServiceStep
  DEF SNext
<1>3. ASSUME UNCHANGED svars PROVE ServiceInv'
  BY <1>3, UnseenStep DEF svars, vars
<1> QED BY <1>1, <1>2, <1>3 DEF SInv

-----------------------------------------------------------------------------
(* The inductive invariant of the service holds in every behaviour.        *)
THEOREM ServiceInvariant == SSpec => []SInv
<1> QED BY InitSInv, SInvStep, PTL DEF SSpec

(* Every variable of the service keeps its type; the cache stays within    *)
(* its capacity and files every order under its own uid.                   *)
THEOREM ServiceTypeCorrect == SSpec => []ServiceTypeOK
<1>1. SInv => ServiceTypeOK
  BY ServiceTypeDef DEF SInv, ServiceInv
<1> QED BY <1>1, ServiceInvariant, PTL

(* Nothing enters the cache that no transaction ever stored.               *)
THEOREM CacheHoldsStoredOrders == SSpec => []CachedWasStored
<1>1. SInv => CachedWasStored
  BY SInvParts
<1> QED BY <1>1, ServiceInvariant, PTL

(* A copy that nothing overtook on its way into the cache agrees with the  *)
(* database ever after, but between the two steps of a writer and until a  *)
(* call that failed takes effect.                                          *)
THEOREM CacheStaysCoherent == SSpec => []CacheCoherent
<1>1. SInv => CacheCoherent
  BY SInvParts
<1> QED BY <1>1, ServiceInvariant, PTL

-----------------------------------------------------------------------------
(* The service uses its cache as a bounded map.                            *)
LEMMA DropIsForget == \A u : Drop(u) => Map!Forget
<1> SUFFICES ASSUME NEW u, Drop(u) PROVE Map!Forget
  OBVIOUS
<1>1. DOMAIN cache \ {u} = DOMAIN cache \ ({u} \intersect DOMAIN cache)
  OBVIOUS
<1> QED BY <1>1 DEF Drop, Map!Forget

LEMMA ConsumerUsesMap == SInv /\ ConsumerStep => [Map!Next]_cache
<1> SUFFICES ASSUME SInv, ConsumerStep PROVE [Map!Next]_cache
  OBVIOUS
<1> USE SInvParts
<1>1. CASE SaveAndStore \/ SaveFails \/ WarmRead \/ ConsumerOnly
  BY <1>1 DEF SaveAndStore, SaveFails, WarmRead, ConsumerOnly, service
<1>2. CASE CacheSaved
  <2>1. Whole(UidOf[msg], msg) \in Copy
    BY <1>2, MessageInHand DEF CacheSaved, CacheSet, Busy
  <2> QED BY <1>2, <2>1 DEF CacheSaved, Put, Map!Next
<1>3. CASE ProcessEnds
  <2>1. cache' = [u \in DOMAIN cache \ DOMAIN cache |-> cache[u]]
    BY <1>3 DEF ProcessEnds, EmptyCache
  <2> QED BY <2>1 DEF Map!Next, Map!Forget
<1>4. CASE WarmStart
  <2>1. DOMAIN cache = {}
    BY <1>4 DEF WarmStart, Restart, DownIsEmpty
  <2>2. Map!Kept'
    BY <1>4, ConsumerServiceStep DEF ServiceInv, ServiceType, CacheType
  <2>3. cache' = [u \in DOMAIN cache' |-> cache'[u]]
    BY <1>4 DEF WarmStart
  <2>4. Map!Fill
    BY <2>1, <2>2, <2>3 DEF Map!Fill
  <2> QED BY <2>4 DEF Map!Next
<1> QED BY <1>1, <1>2, <1>3, <1>4 DEF ConsumerStep

LEMMA RequestsUseMap ==
    ASSUME SInv,
           \/ \E r \in Reader : ReaderStep(r)
           \/ \E d \in Deleter : DeleterStep(d)
           \/ \E u \in UID : Expire(u)
    PROVE  [Map!Next]_cache
<1>1. ASSUME NEW r \in Reader, GetFill(r) PROVE Map!Next
  <2>1. [uid |-> gets[r].uid, head |-> gets[r].head, items |-> gets[r].items] \in Copy
    BY <1>1, SInvParts DEF GetFill, GetsStored, Copy, FatesType
  <2> QED BY <1>1, <2>1 DEF GetFill, Put, Map!Next
<1>2. ASSUME NEW r \in Reader, ReaderStep(r), ~ GetFill(r) PROVE UNCHANGED cache
  BY <1>2 DEF ReaderStep, GetMiss, GetRow, GetItems, GetFails
<1>3. ASSUME NEW d \in Deleter, DeleterStep(d) PROVE UNCHANGED cache \/ Map!Next
  BY <1>3, DropIsForget DEF DeleterStep, DeleteRow, DeleteFails, DeleteCached, Map!Next
<1>4. ASSUME NEW u \in UID, Expire(u) PROVE Map!Next
  BY <1>4, DropIsForget DEF Expire, Map!Next
<1> QED BY <1>1, <1>2, <1>3, <1>4

(* Consumer, handlers, warm start and expiry use the cache the way         *)
(* BoundedMap allows, which is the way OrderCache implements: every entry  *)
(* comes by a Put of its own uid or by the batch of a warm start that fits *)
(* into an empty cache, and leaves by being forgotten.                     *)
THEOREM ServiceUsesBoundedMap == SSpec => Map!Spec
<1>1. SInit => Map!Init
  BY DEF SInit, EmptyCache, Map!Init
<1>2. ServerStep => UNCHANGED cache
  BY DEF ServerStep, LateStore, LateUndone, LateDelete, service
<1>3. SInv /\ [SNext]_svars => [Map!Next]_cache
  BY <1>2, ConsumerUsesMap, RequestsUseMap DEF SNext, svars, service
<1> QED BY <1>1, <1>3, ServiceInvariant, PTL DEF SSpec, Map!Spec

-----------------------------------------------------------------------------
(* The database keeps up with the messages that are fetched, and so does   *)
(* what the server may yet carry out: neither is older than a message that *)
(* was fetched and is neither in progress nor given up.                    *)
GivenUp == dead \union unwritten \union interrupted

Held == late \union {db[u] : u \in Rows}

NewestOf(m) ==
    \A o \in m[2] + 1 .. position[m[1]] :
        UidOf[<<m[1], o>>] = UidOf[m] => <<m[1], o>> \in GivenUp \union {msg}

(* A message that is done with is given up, or it is what the database     *)
(* holds, unless the order has been deleted, and nothing late can replace  *)
(* it.                                                                     *)
DoneIsStored ==
    pc \in {"cache", "commit"} =>
        \/ msg \in GivenUp
        \/ db[UidOf[msg]] \in {msg, NoMessage} /\ Unlocked(UidOf[msg])

NewestInv == OffsetsBehind /\ DoneIsStored /\ \A m \in Held : NewestOf(m)

NInv == SInv /\ (rejoins = 0 => NewestInv)

LEMMA NewestStoredImplied == NInv => NewestStored
<1> SUFFICES ASSUME SInv, NewestInv, NEW u \in UID, db[u] # NoMessage,
                    NEW o \in db[u][2] + 1 .. position[db[u][1]],
                    UidOf[<<db[u][1], o>>] = u
             PROVE  <<db[u][1], o>> \in dead \union unwritten \union interrupted \union {msg}
  BY DEF NInv, NewestStored
<1>1. db[u] \in Held /\ UidOf[db[u]] = u
  BY SInvParts DEF Held, Rows, DbStored
<1> QED BY <1>1 DEF NewestInv, NewestOf, GivenUp

LEMMA HeldMessages ==
    ASSUME SInv, NEW m \in Held
    PROVE  m \in Message /\ m # NoMessage /\ m[1] \in Partition /\ m[2] \in Nat
<1>1. m \in Message
  BY SInvParts DEF Held, Rows, DbType, FatesType
<1> QED BY <1>1, MessageParts

LEMMA InitNInv == SInit => NInv
<1> SUFFICES ASSUME SInit PROVE NInv
  OBVIOUS
<1>1. OffsetsBehind /\ DoneIsStored
  BY DEF SInit, Init, OffsetsBehind, DoneIsStored
<1>2. Held = {}
  BY DEF SInit, Init, Held, Rows
<1> QED BY <1>1, <1>2, InitSInv DEF NInv, NewestInv

(* Nothing is fetched, no fate forgotten, and the message in progress is   *)
(* the only one that may newly be stored or on its way.                    *)
LEMMA StillNewest ==
    ASSUME SInv, NewestInv, OffsetsBehind', DoneIsStored',
           UNCHANGED position, GivenUp \subseteq GivenUp',
           UNCHANGED msg \/ (msg' = NoMessage /\ msg \in GivenUp'),
           \A m \in Held' : m \in Held \/ (m = msg /\ msg # NoMessage)
    PROVE  NewestInv'
<1>1. ASSUME NEW m \in Held' PROVE NewestOf(m)
  <2>1. CASE m \in Held
    BY <2>1 DEF NewestInv
  <2>2. CASE m = msg /\ msg # NoMessage
    <3>1. position[msg[1]] = msg[2] /\ msg[2] \in Nat
      BY <2>2, SInvParts, TypeParts, MessageParts DEF CInv, MessageType, NewestInv, OffsetsBehind
    <3> QED BY <2>2, <3>1 DEF NewestOf
  <2> QED BY <1>1, <2>1, <2>2
<1>2. ASSUME NEW m \in Held' PROVE NewestOf(m)'
  BY <1>1, <1>2 DEF NewestOf
<1> QED BY <1>2 DEF NewestInv

(* The database may lose rows and get what was on its way.                 *)
LEMMA RowsLost ==
    ASSUME SInv, NewestInv, UNCHANGED vars, \A u \in UID : db'[u] \in {db[u], NoMessage}
    PROVE  NewestInv'
<1>1. OffsetsBehind'
  BY DEF NewestInv, OffsetsBehind, vars
<1>2. DoneIsStored'
  <2>1. pc \in {"cache", "commit"} => UidOf[msg] \in UID
    BY MessageInHand DEF Busy
  <2> QED BY <2>1 DEF NewestInv, DoneIsStored, GivenUp, Unlocked, vars
<1>3. UNCHANGED <<position, msg, late, dead, unwritten, interrupted>>
  BY DEF vars
<1>4. Held' \subseteq Held
  BY <1>3 DEF Held, Rows
<1> QED BY <1>1, <1>2, <1>3, <1>4, StillNewest DEF GivenUp

LEMMA RequestsNewest ==
    ASSUME SInv, NewestInv,
           \/ \E r \in Reader : ReaderStep(r)
           \/ \E d \in Deleter : DeleterStep(d)
           \/ \E u \in UID : Expire(u)
           \/ \E u \in UID : LateDelete(u)
           \/ WarmRead
    PROVE  NewestInv'
<1>1. UNCHANGED vars
  BY RequestsLeaveConsumer DEF LateDelete, WarmRead
<1>2. DbType
  BY SInvParts
<1>3. \A u \in UID : db'[u] \in {db[u], NoMessage}
  BY <1>2
  DEF DbType, ReaderStep, GetMiss, GetRow, GetItems, GetFails, GetFill, DeleterStep, DeleteRow,
      DeleteFails, DeleteCached, Expire, LateDelete, WarmRead, SetRow
<1> QED BY <1>1, <1>3, RowsLost

(* The message in progress is stored.                                      *)
LEMMA StoreNewest ==
    ASSUME SInv, NewestInv, SaveAndStore, OffsetsBehind'
    PROVE  NewestInv'
<1>1. DbType /\ msg \in Message /\ UidOf[msg] \in UID /\ msg # NoMessage
  BY SInvParts, MessageInHand, MessageParts DEF SaveAndStore, SaveOrder, Busy
<1>2. db'[UidOf[msg]] = msg /\ \A u \in UID \ {UidOf[msg]} : db'[u] = db[u]
  BY <1>1 DEF SaveAndStore, Store, SetRow, DbType
<1>3. UNCHANGED <<msg, late, position>> /\ Unlocked(UidOf[msg]) /\ GivenUp' = GivenUp
  BY DEF SaveAndStore, SaveOrder, offsets, lost, GivenUp
<1>4. DoneIsStored'
  BY <1>2, <1>3 DEF DoneIsStored, Unlocked
<1>5. \A m \in Held' : m \in Held \/ m = msg
  BY <1>2, <1>3 DEF Held, Rows
<1> QED BY <1>1, <1>3, <1>4, <1>5, StillNewest

(* The save of the message in progress fails, and may be on its way.       *)
LEMMA FailNewest ==
    ASSUME SInv, NewestInv, SaveFails, OffsetsBehind'
    PROVE  NewestInv'
<1>1. msg \in Message /\ msg # NoMessage
  BY MessageInHand, MessageParts DEF SaveFails, SaveError, Busy
<1>2. UNCHANGED <<msg, db, position>> /\ GivenUp' = GivenUp /\ late' \subseteq late \union {msg}
  BY DEF SaveFails, SaveError, LostReply, service, offsets, lost, GivenUp
<1>3. DoneIsStored'
  BY DEF SaveFails, SaveError, DoneIsStored
<1>4. \A m \in Held' : m \in Held \/ m = msg
  BY <1>2 DEF Held, Rows
<1> QED BY <1>1, <1>2, <1>3, <1>4, StillNewest

(* What was on its way arrives, or is dropped.                             *)
LEMMA ServerNewest ==
    ASSUME SInv, NewestInv, NEW m \in late, LateStore(m) \/ LateUndone(m), OffsetsBehind'
    PROVE  NewestInv'
<1>1. DbType /\ m \in Message /\ UidOf[m] \in UID
  BY SInvParts, UidAssumption DEF FatesType
<1>2. UNCHANGED <<pc, msg, position>> /\ GivenUp' = GivenUp /\ late' = late \ {m}
  BY DEF LateStore, LateUndone, LateCommit, LateRollback, offsets, lost, GivenUp
<1>3. \A u \in UID : db'[u] = db[u] \/ (u = UidOf[m] /\ db'[u] = m)
  BY <1>1 DEF LateStore, LateUndone, Store, SetRow, DbType, service
<1>4. DoneIsStored'
  <2> SUFFICES ASSUME pc \in {"cache", "commit"}, msg \notin GivenUp
               PROVE  db'[UidOf[msg]] \in {msg, NoMessage} /\ Unlocked(UidOf[msg])'
    BY <1>2 DEF DoneIsStored
  <2>1. db[UidOf[msg]] \in {msg, NoMessage} /\ Unlocked(UidOf[msg]) /\ UidOf[msg] \in UID
    BY MessageInHand DEF NewestInv, DoneIsStored, Busy
  <2> QED BY <1>2, <1>3, <2>1 DEF Unlocked
<1>5. Held' \subseteq Held
  BY <1>2, <1>3 DEF Held, Rows
<1> QED BY <1>2, <1>4, <1>5, StillNewest

LEMMA FetchNewest ==
    ASSUME SInv, NewestInv, NEW p \in Partition, Fetch(p), UNCHANGED db, OffsetsBehind'
    PROVE  NewestInv'
<1>1. OffsetsType /\ msg = NoMessage
  BY SInvParts, TypeParts DEF CInv, HasMessage, Fetch
<1>2. /\ position'[p] = position[p] + 1 /\ msg' = <<p, position[p] + 1>>
      /\ \A q \in Partition : position[q] \in Nat /\ (q # p => position'[q] = position[q])
  BY <1>1 DEF Fetch, OffsetsType, WithinLog
<1>3. DoneIsStored'
  BY DEF Fetch, DoneIsStored
<1>4. GivenUp' = GivenUp /\ Held' = Held
  BY DEF Fetch, GivenUp, Held, Rows, fates, lost
<1>5. ASSUME NEW m \in Held', NEW o \in m[2] + 1 .. position'[m[1]],
             UidOf[<<m[1], o>>] = UidOf[m]
      PROVE  <<m[1], o>> \in GivenUp' \union {msg'}
  <2>1. m[1] \in Partition /\ m[2] \in Nat
    BY <1>4, HeldMessages
  <2>2. o \in m[2] + 1 .. position[m[1]] \/ (m[1] = p /\ o = position[p] + 1)
    BY <1>2, <2>1
  <2>3. <<m[1], o>> # msg
    BY <1>1 DEF NoMessage
  <2> QED BY <1>2, <1>4, <1>5, <2>2, <2>3 DEF NewestInv, NewestOf
<1>6. \A m \in Held' : NewestOf(m)'
  BY <1>5 DEF NewestOf
<1> QED BY <1>3, <1>6 DEF NewestInv

LEMMA CommitNewest ==
    ASSUME SInv, NewestInv, CommitMessages, UNCHANGED db, OffsetsBehind'
    PROVE  NewestInv'
<1>1. msg \in Message /\ UidOf[msg] \in UID
  BY MessageInHand DEF CommitMessages, Busy
<1>2. DoneIsStored'
  BY DEF CommitMessages, DoneIsStored
<1>3. GivenUp' = GivenUp /\ Held' = Held /\ UNCHANGED position
  BY DEF CommitMessages, GivenUp, Held, Rows, fates, lost
<1>4. ASSUME NEW m \in Held, NEW o \in m[2] + 1 .. position[m[1]],
             UidOf[<<m[1], o>>] = UidOf[m]
      PROVE  <<m[1], o>> \in GivenUp
  <2>1. <<m[1], o>> \in GivenUp \union {msg}
    BY <1>4 DEF NewestInv, NewestOf
  <2>2. CASE <<m[1], o>> = msg
    <3>1. \/ msg \in GivenUp
          \/ db[UidOf[msg]] \in {msg, NoMessage} /\ Unlocked(UidOf[msg])
      BY DEF NewestInv, DoneIsStored, CommitMessages
    <3>2. m # msg
      <4>1. m[2] \in Nat /\ o # m[2]
        BY HeldMessages
      <4>2. msg[2] = o
        BY <2>2
      <4> QED BY <4>1, <4>2
    <3>3. UidOf[m] = UidOf[msg]
      BY <1>4, <2>2
    <3>4. m \in late \/ (db[UidOf[m]] = m /\ m # NoMessage)
      BY HeldMessages, SInvParts DEF Held, Rows, DbStored
    <3> QED BY <2>2, <3>1, <3>2, <3>3, <3>4 DEF Unlocked
  <2> QED BY <2>1, <2>2
<1>5. \A m \in Held' : NewestOf(m)'
  BY <1>3, <1>4 DEF NewestOf
<1> QED BY <1>2, <1>5 DEF NewestInv

(* Whoever comes next starts from the committed offsets, behind the        *)
(* message in progress.                                                    *)
LEMMA EndNewest ==
    ASSUME SInv, NewestInv, ProcessEnds, OffsetsBehind'
    PROVE  NewestInv'
<1>1. OffsetsType /\ MessageType
  BY SInvParts, TypeParts DEF CInv
<1>2. position' = committed /\ msg' = NoMessage /\ GivenUp' = GivenUp /\ Held' = Held
  BY DEF ProcessEnds, Exit, Crash, Forget, Returns, GivenUp, Held, Rows, fates, lost
<1>3. DoneIsStored'
  BY DEF ProcessEnds, Exit, Crash, DoneIsStored
<1>4. ASSUME NEW m \in Held, NEW o \in m[2] + 1 .. committed[m[1]],
             UidOf[<<m[1], o>>] = UidOf[m]
      PROVE  <<m[1], o>> \in GivenUp
  <2>1. m[1] \in Partition /\ m[2] \in Nat
    BY HeldMessages
  <2>2. /\ committed[m[1]] \in Nat /\ position[m[1]] \in Nat
        /\ committed[m[1]] <= position[m[1]]
    BY <1>1, <2>1 DEF NewestInv, OffsetsBehind, OffsetsType, WithinLog
  <2>3. o \in m[2] + 1 .. position[m[1]] /\ o <= committed[m[1]]
    BY <1>4, <2>1, <2>2
  <2>4. <<m[1], o>> \in GivenUp \union {msg}
    BY <1>4, <2>3 DEF NewestInv, NewestOf
  <2>5. <<m[1], o>> # msg
    <3> SUFFICES ASSUME msg = <<m[1], o>> PROVE FALSE
      OBVIOUS
    <3>1. msg # NoMessage /\ msg[1] = m[1] /\ msg[2] = o
      BY DEF NoMessage
    <3>2. committed[m[1]] < o
      BY <3>1 DEF NewestInv, OffsetsBehind
    <3> QED BY <2>1, <2>2, <2>3, <3>2
  <2> QED BY <2>4, <2>5
<1>5. \A m \in Held' : NewestOf(m)'
  BY <1>2, <1>4 DEF NewestOf
<1> QED BY <1>3, <1>5 DEF NewestInv

(* A restart forgets fates, but none that the committed offsets cover.     *)
LEMMA RestartNewest ==
    ASSUME SInv, NewestInv, WarmStart, OffsetsBehind'
    PROVE  NewestInv'
<1>1. OffsetsType
  BY SInvParts, TypeParts DEF CInv
<1>2. position = committed /\ msg = NoMessage /\ UNCHANGED <<position, msg>> /\ Held' = Held
  BY SInvParts
  DEF WarmStart, Restart, CInv, DownIsFresh, HasMessage, offsets, Held, Rows
<1>3. DoneIsStored'
  BY DEF WarmStart, Restart, DoneIsStored
<1>4. ASSUME NEW m \in Held, NEW o \in m[2] + 1 .. position[m[1]],
             UidOf[<<m[1], o>>] = UidOf[m]
      PROVE  <<m[1], o>> \in GivenUp'
  <2>1. m[1] \in Partition /\ m[2] \in Nat /\ position[m[1]] \in Nat
    BY <1>1, HeldMessages DEF OffsetsType, WithinLog
  <2>2. o <= committed[m[1]]
    BY <1>2, <2>1
  <2>3. <<m[1], o>> \in GivenUp
    BY <1>2, <1>4 DEF NewestInv, NewestOf, NoMessage
  <2> QED BY <2>2, <2>3 DEF GivenUp, WarmStart, Restart, Covered
<1>5. \A m \in Held' : NewestOf(m)'
  BY <1>2, <1>4 DEF NewestOf
<1> QED BY <1>3, <1>5 DEF NewestInv

(* The remaining steps: nothing is stored or fetched, no fate forgotten.   *)
LEMMA OtherNewest ==
    ASSUME SInv, NewestInv, UNCHANGED db, OffsetsBehind',
           \/ \E p \in Partition : Flush(p)
           \/ FetchError \/ PauseOver \/ Stopped \/ ParseError \/ CacheSet
           \/ Retry \/ Interrupt \/ DeadLetter \/ Cancel \/ Close \/ CloseWriter
    PROVE  NewestInv'
<1>1. GivenUp \subseteq GivenUp' /\ UNCHANGED <<position, late>>
  BY DEF GivenUp, Flush, FetchError, PauseOver, Stopped, ParseError, CacheSet, Retry,
         Interrupt, DeadLetter, Cancel, Close, CloseWriter, fates, lost, offsets
<1>2. UNCHANGED msg \/ (msg' = NoMessage /\ msg \in GivenUp')
  BY DEF GivenUp, Flush, FetchError, PauseOver, Stopped, ParseError, CacheSet, Retry,
         Interrupt, Returns, DeadLetter, Cancel, Close, CloseWriter
<1>3. DoneIsStored'
  <2>1. CASE DeadLetter \/ Interrupt
    BY <1>1, <2>1 DEF NewestInv, DoneIsStored, GivenUp, DeadLetter, Interrupt
  <2>2. CASE ~ DeadLetter /\ ~ Interrupt
    BY <1>1, <2>2
    DEF NewestInv, DoneIsStored, GivenUp, Unlocked, Flush, FetchError, PauseOver, Stopped,
        ParseError, CacheSet, Retry, Cancel, Close, CloseWriter, fates, lost
  <2> QED BY <2>1, <2>2
<1>4. Held' = Held
  BY <1>1 DEF Held, Rows
<1> QED BY <1>1, <1>2, <1>3, <1>4, StillNewest

LEMMA ConsumerNewest ==
    ASSUME SInv, NewestInv, ConsumerStep, ~ Rejoin, OffsetsBehind'
    PROVE  NewestInv'
<1>1. CASE SaveAndStore
  BY <1>1, StoreNewest
<1>2. CASE SaveFails
  BY <1>2, FailNewest
<1>3. CASE CacheSaved
  BY <1>3, OtherNewest DEF CacheSaved
<1>4. CASE ProcessEnds
  BY <1>4, EndNewest
<1>5. CASE WarmRead
  BY <1>5, RequestsNewest
<1>6. CASE WarmStart
  BY <1>6, RestartNewest
<1>7. CASE ConsumerOnly
  BY <1>7, FetchNewest, CommitNewest, OtherNewest DEF ConsumerOnly, service
<1> QED BY <1>1, <1>2, <1>3, <1>4, <1>5, <1>6, <1>7 DEF ConsumerStep

LEMMA NInvStep == NInv /\ [SNext]_svars => NInv'
<1> SUFFICES ASSUME NInv, [SNext]_svars PROVE NInv'
  OBVIOUS
<1>1. SInv'
  BY SInvStep DEF NInv
<1>2. ASSUME rejoins' = 0 PROVE rejoins = 0 /\ ~ Rejoin
  BY <1>2, NoRejoinBefore, StepIsNext DEF NInv, SInv
<1>3. ASSUME UNCHANGED svars, NewestInv PROVE NewestInv'
  <2>1. UNCHANGED vars /\ UNCHANGED db
    BY <1>3 DEF svars, service
  <2> QED BY <1>3, <2>1, RowsLost DEF NInv
<1>4. ASSUME rejoins' = 0 PROVE NewestInv'
  <2>1. OffsetsBehind'
    BY <1>2, <1>4, StepIsNext, BehindStep DEF NInv, SInv, NewestInv
  <2>2. SInv /\ NewestInv
    BY <1>2, <1>4 DEF NInv
  <2>3. CASE ServerStep
    BY <2>1, <2>2, <2>3, ServerNewest, RequestsNewest DEF ServerStep
  <2> QED BY <1>2, <1>3, <1>4, <2>1, <2>2, <2>3, ConsumerNewest, RequestsNewest DEF SNext
<1> QED BY <1>1, <1>4 DEF NInv

(* Until a rebalance, no repeated delivery, crash, failed save or save     *)
(* that takes effect late leaves an older version of an order in the       *)
(* database than the last one that was fetched and not given up.           *)
THEOREM DatabaseKeepsUp == SSpec => []NewestStored
<1>1. NInv => NewestStored
  BY NewestStoredImplied
<1> QED BY <1>1, InitNInv, NInvStep, PTL DEF SSpec
=============================================================================
