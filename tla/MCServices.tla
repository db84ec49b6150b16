----------------------------- MODULE MCServices -----------------------------
(***************************************************************************)
(* The parts of a process that need no other part: the pipeline of a       *)
(* request, and the services of RedisModule besides the lock.  They share  *)
(* no table, no key and no channel, so that a behaviour looks at one of    *)
(* them, the focus.  One that looks at a service begins with a health      *)
(* check, which is answered before the service is used; the others do not  *)
(* move.                                                                   *)
(***************************************************************************)
EXTENDS Requests, RateLimit, Cache, PubSub, LockHolder

VARIABLE focus

services == <<rlVars, cVars, psVars, hVars>>
svars    == <<rvars, services, focus>>

HealthCheck ==
  table = {} /\ role = [u \in Users |-> "user"] /\ route = "health" /\ caller = Nobody

\* A request never looks at the session or the role of anybody but its caller.
OthersPlain ==
  /\ sessions \subseteq {caller}
  /\ \A u \in Users \ {caller} : role[u] = "user"

ServicesInit ==
  /\ focus \in {"requests", "rateLimit", "cache", "pubsub", "holder"}
  /\ focus # "requests" => HealthCheck
  /\ RInit /\ OthersPlain
  /\ RLInit /\ CInit /\ PSInit /\ HInit

\* A health check is disturbed by nobody.
RequestMoves(A) ==
  /\ A
  /\ focus # "requests" => UNCHANGED world
  /\ UNCHANGED <<services, focus>>

Served(service) == focus = service /\ at = "answered" /\ UNCHANGED <<rvars, focus>>

RateLimitMoves == Served("rateLimit") /\ RLNext /\ UNCHANGED <<cVars, psVars, hVars>>
CacheMoves == Served("cache") /\ CNext /\ UNCHANGED <<rlVars, psVars, hVars>>
PubSubMoves(A) == Served("pubsub") /\ A /\ UNCHANGED <<rlVars, cVars, hVars>>
HolderMoves == Served("holder") /\ HNext /\ UNCHANGED <<rlVars, cVars, psVars>>

ServicesNext ==
  \/ RequestMoves(RNext)
  \/ RateLimitMoves
  \/ CacheMoves
  \/ PubSubMoves(PSNext)
  \/ HolderMoves

ServicesSpec == ServicesInit /\ [][ServicesNext]_svars

\* The fairness of Requests and of PubSub.
ServicesFairSpec ==
  /\ ServicesSpec
  /\ WF_svars(RequestMoves(Serve))
  /\ WF_svars(PubSubMoves(Execute))
  /\ WF_svars(PubSubMoves(Replied))
  /\ WF_svars(PubSubMoves(Receive))

\* Every variable of the request and of every service has its type.
ServicesTypeOK == QTypeOK /\ RLTypeOK /\ CTypeOK /\ PSTypeOK /\ HTypeOK
=============================================================================
