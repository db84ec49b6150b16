--------------------------- MODULE ServicesProofs ---------------------------
(***************************************************************************)
(* Proofs about MCServices: the process in which requests are answered     *)
(* beside one of the services implements the specification of each part,   *)
(* so that what is proved of a part holds in it, for every value of the    *)
(* constants.                                                              *)
(***************************************************************************)
EXTENDS MCServices, RequestsProofs, RateLimitProofs, RedisServicesProofs

\* A service moves by its own actions, or not at all.
LEMMA ServiceSteps ==
  ASSUME [ServicesNext]_svars
  PROVE  /\ [RNext]_rvars
         /\ [RLNext]_rlVars
         /\ [CNext]_cVars
         /\ [PSNext]_psVars
         /\ [HNext]_hVars
  <1>1. CASE UNCHANGED svars
    BY <1>1 DEF svars, services
  <1>2. CASE RequestMoves(RNext)
    BY <1>2 DEF RequestMoves, services
  <1>3. CASE RateLimitMoves
    BY <1>3 DEF RateLimitMoves, Served
  <1>4. CASE CacheMoves
    BY <1>4 DEF CacheMoves, Served
  <1>5. CASE PubSubMoves(PSNext)
    BY <1>5 DEF PubSubMoves, Served
  <1>6. CASE HolderMoves
    BY <1>6 DEF HolderMoves, Served
  <1> QED BY <1>1, <1>2, <1>3, <1>4, <1>5, <1>6 DEF ServicesNext

\* The process implements the pipeline of Requests and every service of
\* RedisModule: none of them can do more beside the others than alone.
THEOREM ServicesInside ==
  ServicesSpec => RSpec /\ RLSpec /\ CSpec /\ PSSpec /\ HSpec
  <1>1. ServicesInit => RInit /\ RLInit /\ CInit /\ PSInit /\ HInit
    BY DEF ServicesInit
  <1> QED
    BY <1>1, ServiceSteps, PTL
       DEF ServicesSpec, RSpec, RLSpec, CSpec, PSSpec, HSpec

\* The variables of the pipeline, the rate limiter, the cache, pub/sub and the
\* holder of WithLock keep their types while requests and services take turns.
THEOREM ServicesTypeCorrect == ServicesSpec => []ServicesTypeOK
  <1>1. QTypeOK /\ RLTypeOK /\ CTypeOK /\ PSInv /\ HTypeOK /\ RefIsLatest
          => ServicesTypeOK
    BY DEF PSInv, ServicesTypeOK
  <1> QED
    BY <1>1, ServicesInside, RTypeCorrect, RateTypeCorrect, CacheTypeCorrect,
       PubSubInvariant, HolderIsRight, PTL

\* The promises of the parts hold of the process: the limit and its results,
\* how stale the cache can be, which channels are subscribed, and which lock
\* service WithLock reaches.
THEOREM ServicesKeepPromises ==
  ServicesSpec => [](/\ PagesAddUp /\ AccessIsRight /\ CauseHidden
                     /\ LimitKept /\ ResultsHold /\ RefusalsJustified
                     /\ StalenessBounded /\ StaleOnlyByRace
                     /\ MapMatchesChannel /\ NoMessageMissed
                     /\ RefIsLatest)
  BY ServicesInside, PagesRight, GuardsRight, CausesHidden, RateLimitIsKept,
     RateResultsHold, RefusalsAreJustified, CacheStaleness, CacheDelTakesHold, PubSubConverges,
     PubSubDelivers, HolderIsRight, PTL
=============================================================================
