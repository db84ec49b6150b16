------------------------ MODULE RedisServicesProofs ------------------------
(***************************************************************************)
(* Theorems about Cache, PubSub and LockHolder, for every value of their   *)
(* constants.                                                              *)
(***************************************************************************)
EXTENDS Cache, PubSub, LockHolder, TLAPS

(***************************************************************************)
(* Cache: staleness.  A fill that holds version v read it before v was     *)
(* replaced and has had at most MaxFill since; an entry that is current    *)
(* expires within TTL of now, one that is stale within MaxFill + TTL of    *)
(* its replacement.                                                        *)
(***************************************************************************)

FillsAreYoung ==
  \A f \in Fills : fill[f] = "store" =>
    /\ value[f] <= row
    /\ readAt[f] <= clock
    /\ clock <= readAt[f] + MaxFill
    /\ value[f] < row => readAt[f] <= changed[value[f]]

EntryEndsInTime ==
  entry # NoEntry =>
    /\ entry <= row
    /\ clock <= expiry
    /\ entry = row => expiry <= clock + TTL
    /\ entry < row => expiry <= changed[entry] + MaxFill + TTL

\* A version that was read before its del, and whose del has come, is held only
\* by calls that the del raced with.
FillsAreRaced ==
  owedDels = 0 =>
    \A f \in Fills : fill[f] = "store" /\ value[f] # row => f \in raced

CInv == /\ CTypeOK
        /\ FillsAreYoung
        /\ EntryEndsInTime
        /\ FillsAreRaced
        /\ StaleOnlyByRace

\* An empty cache is not stale.
LEMMA CacheInit == CInit => CInv
  <1> SUFFICES ASSUME CInit PROVE CInv
    OBVIOUS
  <1> USE DEF CInit
  <1>1. 0 \in Versions
    BY CacheAssumption DEF Versions
  <1>2. CTypeOK
    BY <1>1 DEF CTypeOK
  <1>3. FillsAreYoung /\ FillsAreRaced
    BY DEF FillsAreYoung, FillsAreRaced
  <1>4. EntryEndsInTime /\ StaleOnlyByRace
    BY DEF EntryEndsInTime, StaleOnlyByRace, Stale
  <1> QED BY <1>2, <1>3, <1>4 DEF CInv

\* The row changes: what is cached, or held by a fill, was current until now.
LEMMA WriteKeeps == ASSUME CInv, Write PROVE CInv'
  <1> USE CacheAssumption DEF CInv, Write
  <1>a. row + 1 \in Versions
    BY DEF CTypeOK, Versions
  <1>1. CTypeOK'
    BY <1>a DEF CTypeOK
  <1>2. FillsAreYoung'
    BY DEF FillsAreYoung, CTypeOK, Versions
  <1>3. EntryEndsInTime'
    BY DEF EntryEndsInTime, CTypeOK, Versions, NoEntry
  <1>4. FillsAreRaced' /\ StaleOnlyByRace'
    BY DEF FillsAreRaced, StaleOnlyByRace, CTypeOK
  <1> QED BY <1>1, <1>2, <1>3, <1>4

\* del removes the entry; who has read the row before it has raced with it.
LEMMA DelKeeps == ASSUME CInv, Del PROVE CInv'
  <1> USE DEF CInv, Del
  <1>a. /\ owedDels' \in Nat
        /\ entry' \in Versions \union {NoEntry}
        /\ raced' \in SUBSET Fills
    BY DEF CTypeOK
  <1>b. tainted' \in BOOLEAN
    OBVIOUS
  <1>1. CTypeOK'
    BY <1>a, <1>b DEF CTypeOK
  <1>2. FillsAreYoung' /\ EntryEndsInTime'
    BY DEF FillsAreYoung, EntryEndsInTime
  <1>3. FillsAreRaced' /\ StaleOnlyByRace'
    BY DEF FillsAreRaced, StaleOnlyByRace, Stale
  <1> QED BY <1>1, <1>2, <1>3

\* A call that misses has read nothing yet.
LEMMA MissesKeeps == ASSUME CInv, NEW f \in Fills, Misses(f) PROVE CInv'
  <1> USE DEF CInv, Misses
  <1>1. CTypeOK'
    BY DEF CTypeOK
  <1>2. FillsAreYoung' /\ FillsAreRaced'
    BY DEF FillsAreYoung, FillsAreRaced, CTypeOK
  <1>3. EntryEndsInTime' /\ StaleOnlyByRace'
    BY DEF EntryEndsInTime, StaleOnlyByRace, Stale
  <1> QED BY <1>1, <1>2, <1>3

\* What is read now is current.
LEMMA ReadsRowKeeps == ASSUME CInv, NEW f \in Fills, ReadsRow(f) PROVE CInv'
  <1> USE CacheAssumption DEF CInv, ReadsRow
  <1>1. CTypeOK'
    BY DEF CTypeOK
  <1>2. FillsAreYoung'
    BY DEF FillsAreYoung, CTypeOK, Versions
  <1>3. FillsAreRaced'
    BY DEF FillsAreRaced, CTypeOK
  <1>4. EntryEndsInTime' /\ StaleOnlyByRace'
    BY DEF EntryEndsInTime, StaleOnlyByRace, Stale
  <1> QED BY <1>1, <1>2, <1>3, <1>4

\* The bound of an entry is the bound of its fill and one TTL.
LEMMA SetsKeeps == ASSUME CInv, NEW f \in Fills, Sets(f) PROVE CInv'
  <1> USE CacheAssumption DEF CInv, Sets, Store, Returns
  <1>a. 0 \in Versions
    BY DEF Versions
  <1>1. CTypeOK'
    BY <1>a DEF CTypeOK
  <1>2. FillsAreYoung' /\ FillsAreRaced'
    BY DEF FillsAreYoung, FillsAreRaced, CTypeOK
  <1>3. EntryEndsInTime'
    <2>1. /\ entry' = value[f] /\ row' = row /\ clock' = clock
          /\ changed' = changed
          /\ clock <= expiry' /\ expiry' <= clock + TTL
      BY DEF CTypeOK
    <2>2. /\ value[f] <= row /\ clock <= readAt[f] + MaxFill
          /\ value[f] < row => readAt[f] <= changed[value[f]]
      BY DEF FillsAreYoung
    <2>3. /\ clock \in Nat /\ readAt[f] \in Nat /\ expiry' \in Nat
          /\ value[f] \in Nat /\ row \in Nat
          /\ changed[value[f]] \in Nat
      BY <1>1 DEF CTypeOK, Versions
    <2> QED BY <2>1, <2>2, <2>3 DEF EntryEndsInTime
  <1>4. StaleOnlyByRace'
    <2>1. value[f] # row /\ owedDels = 0 => f \in raced
      BY DEF FillsAreRaced
    <2> QED BY <2>1 DEF StaleOnlyByRace, Stale
  <1> QED BY <1>1, <1>2, <1>3, <1>4

\* A call that rejects writes nothing.
LEMMA RejectsKeeps == ASSUME CInv, NEW f \in Fills, Rejects(f) PROVE CInv'
  <1> USE CacheAssumption DEF CInv, Rejects, Returns
  <1>a. 0 \in Versions
    BY DEF Versions
  <1>1. CTypeOK'
    BY <1>a DEF CTypeOK
  <1>2. FillsAreYoung' /\ FillsAreRaced'
    BY DEF FillsAreYoung, FillsAreRaced, CTypeOK
  <1>3. EntryEndsInTime' /\ StaleOnlyByRace'
    BY DEF EntryEndsInTime, StaleOnlyByRace, Stale
  <1> QED BY <1>1, <1>2, <1>3

\* Entry and fills grow old together.
LEMMA CacheTickKeeps == ASSUME CInv, CacheTick PROVE CInv'
  <1> USE CacheAssumption DEF CInv, CacheTick
  <1>a. clock' \in Nat /\ entry' \in Versions \union {NoEntry}
    BY DEF CTypeOK
  <1>b. tainted' \in BOOLEAN
    BY DEF CTypeOK
  <1>1. CTypeOK'
    BY <1>a, <1>b DEF CTypeOK
  <1>2. FillsAreYoung'
    <2> SUFFICES ASSUME NEW f \in Fills, fill[f] = "store"
                 PROVE  /\ readAt[f] <= clock + 1
                        /\ clock + 1 <= readAt[f] + MaxFill
      BY DEF FillsAreYoung
    <2>1. clock \in Nat /\ readAt[f] \in Nat
      BY DEF CTypeOK
    <2>2. readAt[f] <= clock /\ clock < readAt[f] + MaxFill
      BY DEF FillsAreYoung
    <2> QED BY <2>1, <2>2
  <1>3. EntryEndsInTime'
    BY DEF EntryEndsInTime, CTypeOK, NoEntry
  <1>4. FillsAreRaced' /\ StaleOnlyByRace'
    BY DEF FillsAreRaced, StaleOnlyByRace, Stale, NoEntry
  <1> QED BY <1>1, <1>2, <1>3, <1>4

\* CInv holds always.
LEMMA CacheInvariant == CSpec => []CInv
  <1>1. CInv /\ [CNext]_cVars => CInv'
    <2> SUFFICES ASSUME CInv, [CNext]_cVars PROVE CInv'
      OBVIOUS
    <2>1. CASE UNCHANGED cVars
      BY <2>1 DEF cVars, CInv, CTypeOK, FillsAreYoung, EntryEndsInTime,
                  FillsAreRaced, StaleOnlyByRace, Stale
    <2>2. CASE CNext
      BY <2>2, WriteKeeps, DelKeeps, MissesKeeps, ReadsRowKeeps, SetsKeeps,
         RejectsKeeps, CacheTickKeeps DEF CNext
    <2> QED BY <2>1, <2>2
  <1> QED BY CacheInit, <1>1, PTL DEF CSpec

\* Every variable of Cache has its type.
THEOREM CacheTypeCorrect == CSpec => []CTypeOK
  BY CacheInvariant, PTL DEF CInv

\* A version is cached no longer than one fill and one TTL after it was
\* replaced: RedisCacheService's getOrSet, set and del in any order, with any
\* number of fills.
THEOREM CacheStaleness == CSpec => []StalenessBounded
  <1>1. CInv => StalenessBounded
    <2> SUFFICES ASSUME CInv, Stale
                 PROVE  clock <= changed[entry] + MaxFill + TTL
      BY DEF StalenessBounded
    <2>1. /\ entry \in Versions /\ row \in Versions
          /\ clock \in Nat /\ expiry \in Nat /\ changed[entry] \in Nat
      BY DEF CInv, CTypeOK, Stale
    <2>2. entry < row
      BY <2>1, CacheAssumption DEF CInv, EntryEndsInTime, Stale, Versions
    <2> QED BY <2>1, <2>2, CacheAssumption DEF CInv, EntryEndsInTime, Stale
  <1> QED BY <1>1, CacheInvariant, PTL

\* Once every change has had its del, a stale entry was set by a call that the
\* last del raced with.
THEOREM CacheDelTakesHold == CSpec => []StaleOnlyByRace
  BY CacheInvariant, PTL DEF CInv

(***************************************************************************)
(* PubSub: the map and the channel.  What ioredis knows is what Redis does *)
(* as soon as the last reply is in; while replies are under way, Redis     *)
(* stands at the command it executed last.                                 *)
(***************************************************************************)

RedisFollows ==
  /\ executed = 0 /\ known => subscribed
  /\ executed > 0 => subscribed = (commands[executed] = "subscribe")

DueAreListed == \A m \in Sent : due[m] \subseteq list

PSInv == /\ PSTypeOK
         /\ MapMatchesChannel
         /\ RedisFollows
         /\ DueAreListed
         /\ NoMessageMissed

\* Without handlers there is neither subscription nor message.
LEMMA PubSubInit == PSInit => PSInv
  <1> SUFFICES ASSUME PSInit PROVE PSInv
    OBVIOUS
  <1> USE PubSubAssumption DEF PSInit
  <1>a. /\ commands \in Seq({"subscribe", "unsubscribe"}) /\ inbox \in Seq(Sent)
        /\ executed \in 0..Len(commands)
    OBVIOUS
  <1>b. sentCount \in 0..MaxSent /\ due \in [Sent -> SUBSET Callbacks]
    OBVIOUS
  <1>c. known \in BOOLEAN /\ subscribed \in BOOLEAN
    OBVIOUS
  <1>1. PSTypeOK
    BY <1>a, <1>b, <1>c DEF PSTypeOK
  <1>2. MapMatchesChannel
    BY DEF MapMatchesChannel, Intended
  <1>3. executed = 0 /\ known => subscribed
    OBVIOUS
  <1>4. executed > 0 => subscribed = (commands[executed] = "subscribe")
    OBVIOUS
  <1>5. DueAreListed /\ NoMessageMissed
    BY DEF DueAreListed, NoMessageMissed
  <1> QED BY <1>1, <1>2, <1>3, <1>4, <1>5 DEF PSInv, RedisFollows

\* Only the first handler appends a command, and it is the last one then.
LEMMA SubscribeKeeps == ASSUME PSInv, NEW h \in Callbacks, Subscribe(h) PROVE PSInv'
  <1> USE DEF PSInv, Subscribe
  <1>1. PSTypeOK'
    BY DEF PSTypeOK
  <1>2. MapMatchesChannel'
    BY DEF MapMatchesChannel, Intended, PSTypeOK
  <1>3. RedisFollows'
    BY DEF RedisFollows, PSTypeOK
  <1>4. DueAreListed' /\ NoMessageMissed'
    BY DEF DueAreListed, NoMessageMissed
  <1> QED BY <1>1, <1>2, <1>3, <1>4

\* All handlers leave the map, and with them what they are owed; the command
\* that ends the subscription is under way.
LEMMA UnsubscribeKeeps == ASSUME PSInv, Unsubscribe PROVE PSInv'
  <1> USE DEF PSInv, Unsubscribe
  <1>1. PSTypeOK'
    BY DEF PSTypeOK
  <1>2. MapMatchesChannel'
    BY DEF MapMatchesChannel, Intended, PSTypeOK
  <1>3. RedisFollows'
    BY DEF RedisFollows, PSTypeOK
  <1>4. DueAreListed' /\ NoMessageMissed'
    BY DEF DueAreListed, NoMessageMissed
  <1> QED BY <1>1, <1>2, <1>3, <1>4

\* The message leaves the inbox for every handler it is owed to.
LEMMA ReceiveKeeps == ASSUME PSInv, Receive PROVE PSInv'
  <1> USE DEF PSInv, Receive
  <1>1. /\ inbox \in Seq(Sent) /\ inbox # <<>>
        /\ Head(inbox) = inbox[1] /\ Head(inbox) \in Sent
        /\ Tail(inbox) \in Seq(Sent)
        /\ Len(Tail(inbox)) = Len(inbox) - 1
        /\ Len(inbox) \in Nat
        /\ \A k \in 1..Len(Tail(inbox)) : Tail(inbox)[k] = inbox[k + 1]
    BY DEF PSTypeOK
  <1>2. PSTypeOK'
    BY <1>1 DEF PSTypeOK
  <1>3. MapMatchesChannel' /\ RedisFollows'
    BY DEF MapMatchesChannel, Intended, RedisFollows
  <1>4. DueAreListed'
    BY <1>1 DEF DueAreListed, PSTypeOK
  <1>5. NoMessageMissed'
    <2> SUFFICES ASSUME NEW m \in Sent, due'[m] # {}
                 PROVE  \E k \in 1..Len(inbox') : inbox'[k] = m
      BY DEF NoMessageMissed
    <2>1. m # inbox[1] /\ due[m] # {}
      BY <1>1 DEF DueAreListed, PSTypeOK
    <2>2. PICK k \in 1..Len(inbox) : inbox[k] = m
      BY <2>1 DEF NoMessageMissed
    <2>3. k - 1 \in 1..Len(Tail(inbox)) /\ Tail(inbox)[k - 1] = m
      BY <1>1, <2>1, <2>2
    <2> QED BY <2>3
  <1> QED BY <1>2, <1>3, <1>4, <1>5

\* Redis follows the commands in their order.
LEMMA ExecuteKeeps == ASSUME PSInv, Execute PROVE PSInv'
  <1> USE DEF PSInv, Execute
  <1>1. PSTypeOK'
    BY DEF PSTypeOK
  <1>2. MapMatchesChannel' /\ DueAreListed' /\ NoMessageMissed'
    BY DEF MapMatchesChannel, Intended, DueAreListed, NoMessageMissed
  <1>3. RedisFollows'
    BY DEF RedisFollows, PSTypeOK
  <1> QED BY <1>1, <1>2, <1>3

\* The oldest command goes; if it was the only one, it says what is known.
LEMMA RepliedKeeps == ASSUME PSInv, Replied PROVE PSInv'
  <1>a. commands \in Seq({"subscribe", "unsubscribe"})
    BY DEF PSInv, PSTypeOK
  <1>b. /\ executed \in Nat /\ 0 < executed /\ executed <= Len(commands)
        /\ Len(commands) \in Nat
    BY <1>a DEF PSInv, PSTypeOK, Replied
  <1>2. commands # <<>> /\ commands' = Tail(commands)
    BY <1>a, <1>b DEF Replied
  <1>3. /\ commands' \in Seq({"subscribe", "unsubscribe"})
        /\ Len(commands') = Len(commands) - 1
        /\ \A k \in 1..Len(commands') : commands'[k] = commands[k + 1]
        /\ Head(commands) = commands[1]
    BY <1>a, <1>b, <1>2
  <1>4. executed' = executed - 1 /\ executed' \in 0..Len(commands')
    BY <1>a, <1>b, <1>3 DEF Replied
  <1>5. PSTypeOK'
    BY <1>3, <1>4 DEF PSInv, PSTypeOK, Replied
  <1>6. Intended' = Intended
    <2>1. Len(commands) = 1 \/ Len(commands) > 1
      BY <1>b
    <2>2. CASE Len(commands) = 1
      <3>1. commands' = <<>>
        BY <1>3, <2>2
      <3> QED BY <1>2, <1>3, <2>2, <3>1 DEF Intended, Replied
    <2>3. CASE Len(commands) > 1
      <3>1. Len(commands') > 0
        BY <1>a, <1>b, <1>3, <2>3
      <3>2. commands' # <<>>
        BY <3>1
      <3>3. commands'[Len(commands')] = commands[Len(commands)]
        BY <1>a, <1>b, <1>3, <2>3
      <3> QED BY <1>2, <3>2, <3>3 DEF Intended
    <2> QED BY <2>1, <2>2, <2>3
  <1>7. MapMatchesChannel' /\ DueAreListed' /\ NoMessageMissed'
    BY <1>6 DEF PSInv, Replied, MapMatchesChannel, DueAreListed, NoMessageMissed
  <1>8. RedisFollows'
    BY <1>a, <1>b, <1>3, <1>4 DEF PSInv, Replied, RedisFollows
  <1> QED BY <1>5, <1>7, <1>8 DEF PSInv

\* Without a command under way Redis is subscribed if there are handlers.
LEMMA PublishMessageKeeps == ASSUME PSInv, PublishMessage PROVE PSInv'
  <1> USE PubSubAssumption DEF PSInv, PublishMessage
  <1>1. sentCount' \in Sent
    BY DEF PSTypeOK, Sent
  <1>2. /\ inbox' \in Seq(Sent)
        /\ \A k \in 1..Len(inbox) : k \in 1..Len(inbox') /\ inbox'[k] = inbox[k]
        /\ subscribed => /\ Len(inbox') \in 1..Len(inbox')
                         /\ inbox'[Len(inbox')] = sentCount'
    BY <1>1 DEF PSTypeOK
  <1>3. PSTypeOK'
    BY <1>1, <1>2 DEF PSTypeOK, DueAreListed, Sent
  <1>4. MapMatchesChannel' /\ RedisFollows'
    BY DEF MapMatchesChannel, Intended, RedisFollows
  <1>5. DueAreListed'
    BY <1>1 DEF DueAreListed, PSTypeOK
  <1>6. commands = <<>> /\ list # {} => subscribed
    BY DEF MapMatchesChannel, Intended, RedisFollows, PSTypeOK
  <1>7. NoMessageMissed'
    <2> SUFFICES ASSUME NEW m \in Sent, due'[m] # {}
                 PROVE  \E k \in 1..Len(inbox') : inbox'[k] = m
      BY DEF NoMessageMissed
    <2>1. CASE m = sentCount'
      BY <1>1, <1>2, <1>6, <2>1 DEF PSTypeOK
    <2>2. CASE m # sentCount'
      <3>1. due[m] # {}
        BY <1>1, <2>2 DEF PSTypeOK
      <3> QED BY <1>2, <3>1 DEF NoMessageMissed
    <2> QED BY <2>1, <2>2
  <1> QED BY <1>3, <1>4, <1>5, <1>7

\* What was known comes back as a command, before those that had no reply.
LEMMA DropKeeps == ASSUME PSInv, Drop PROVE PSInv'
  <1> USE DEF PSInv, Drop
  <1>1. commands \in Seq({"subscribe", "unsubscribe"}) /\ Len(commands) \in Nat
    BY DEF PSTypeOK
  <1>2. known => /\ commands' \in Seq({"subscribe", "unsubscribe"})
                 /\ Len(commands') = Len(commands) + 1
                 /\ commands'[Len(commands')]
                      = IF commands = <<>> THEN "subscribe"
                                           ELSE commands[Len(commands)]
    BY <1>1
  <1>a. commands' \in Seq({"subscribe", "unsubscribe"})
    BY <1>1, <1>2
  <1>b. executed' \in 0..Len(commands')
    BY <1>a
  <1>c. known' \in BOOLEAN /\ subscribed' \in BOOLEAN
    OBVIOUS
  <1>d. due' \in [Sent -> SUBSET Callbacks]
    OBVIOUS
  <1>e. list' \in SUBSET Callbacks /\ inbox' \in Seq(Sent) /\ drops' \in Nat
        /\ sentCount' \in 0..MaxSent /\ calls' \in Nat
    BY DEF PSTypeOK
  <1>3. PSTypeOK'
    BY <1>a, <1>b, <1>c, <1>d, <1>e DEF PSTypeOK
  <1>4. MapMatchesChannel'
    <2>1. CASE known
      <3>1. commands' # <<>>
        BY <1>1, <1>2, <2>1
      <3> QED BY <1>1, <1>2, <2>1, <3>1 DEF MapMatchesChannel, Intended
    <2>2. CASE ~known
      BY <2>2 DEF MapMatchesChannel, Intended
    <2> QED BY <2>1, <2>2
  <1>5. RedisFollows' /\ DueAreListed' /\ NoMessageMissed'
    BY DEF RedisFollows, DueAreListed, NoMessageMissed
  <1> QED BY <1>3, <1>4, <1>5

\* PSInv holds always.
LEMMA PubSubInvariant == PSSpec => []PSInv
  <1>1. PSInv /\ [PSNext]_psVars => PSInv'
    <2> SUFFICES ASSUME PSInv, [PSNext]_psVars PROVE PSInv'
      OBVIOUS
    <2>1. CASE UNCHANGED psVars
      BY <2>1 DEF psVars, PSInv, PSTypeOK, MapMatchesChannel, Intended,
                  RedisFollows, DueAreListed, NoMessageMissed
    <2>2. CASE PSNext
      BY <2>2, SubscribeKeeps, UnsubscribeKeeps, ReceiveKeeps, ExecuteKeeps,
         RepliedKeeps, PublishMessageKeeps, DropKeeps DEF PSNext
    <2> QED BY <2>1, <2>2
  <1> QED BY PubSubInit, <1>1, PTL DEF PSSpec

\* Once the commands under way are done, the channel is subscribed if and only
\* if the map has handlers for it.
THEOREM PubSubConverges == PSSpec => []MapMatchesChannel
  BY PubSubInvariant, PTL DEF PSInv

\* A message published while every command of the channel is answered reaches
\* each handler, or is on its way, until an unsubscribe or a drop.
THEOREM PubSubDelivers == PSSpec => []NoMessageMissed
  BY PubSubInvariant, PTL DEF PSInv

(***************************************************************************)
(* LockHolder.                                                             *)
(***************************************************************************)

\* The reference is the service of the context opened last while it is live,
\* and nothing afterwards (setLockServiceRef, clearLockServiceRef).
THEOREM HolderIsRight == HSpec => [](HTypeOK /\ RefIsLatest)
  <1>1. HInit => HTypeOK /\ RefIsLatest
    BY HolderAssumption DEF HInit, HTypeOK, RefIsLatest
  <1>2. HTypeOK /\ RefIsLatest /\ [HNext]_hVars => HTypeOK' /\ RefIsLatest'
    <2> SUFFICES ASSUME HTypeOK, RefIsLatest, [HNext]_hVars
                 PROVE  HTypeOK' /\ RefIsLatest'
      OBVIOUS
    <2>1. ASSUME NEW c \in Contexts, OnModuleInit(c) PROVE HTypeOK' /\ RefIsLatest'
      <3>a. opened \in Seq(Contexts) /\ opened' = Append(opened, c)
        BY <2>1 DEF OnModuleInit, HTypeOK
      <3>b. opened' \in Seq(Contexts) /\ Len(opened') = Len(opened) + 1
        BY <3>a
      <3>c. Len(opened) \in Nat
        BY <3>a
      <3>d. opened'[Len(opened')] = c
        BY <3>a, <3>b, <3>c
      <3>1. opened' \in Seq(Contexts) /\ Len(opened') > 0 /\ opened'[Len(opened')] = c
        BY <3>b, <3>c, <3>d
      <3>2. opened' # <<>>
        BY <3>1
      <3>3. HTypeOK'
        BY <2>1, <3>1 DEF OnModuleInit, HTypeOK
      <3>4. RefIsLatest'
        BY <2>1, <3>1, <3>2 DEF OnModuleInit, RefIsLatest
      <3> QED BY <3>3, <3>4
    <2>2. ASSUME NEW c \in Contexts, OnModuleDestroy(c)
          PROVE  HTypeOK' /\ RefIsLatest'
      BY <2>2, HolderAssumption DEF OnModuleDestroy, Clears, HTypeOK, RefIsLatest
    <2>3. CASE CallDecorated
      <3>1. lastCall' \in {"none", "locked", "not bootstrapped", "type error"}
        BY <2>3 DEF CallDecorated, WithLock
      <3> QED BY <2>3, <3>1 DEF CallDecorated, HTypeOK, RefIsLatest
    <2>4. CASE UNCHANGED hVars
      BY <2>4 DEF hVars, HTypeOK, RefIsLatest
    <2> QED BY <2>1, <2>2, <2>3, <2>4 DEF HNext
  <1> QED BY <1>1, <1>2, PTL DEF HSpec
=============================================================================
