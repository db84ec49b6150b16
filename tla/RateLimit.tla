----------------------------- MODULE RateLimit -----------------------------
(***************************************************************************)
(* RedisRateLimitService and its script: the sliding window log of one     *)
(* key.  A call reads its process's clock and sends it along; the script   *)
(* judges and cleans the log by that clock, while Redis expires the key by *)
(* its own.  A reply can be lost, and the client then sends the script     *)
(* again, with the arguments of the first time.                            *)
(*                                                                         *)
(* Time is discrete.  A call is identified with the member it adds.        *)
(***************************************************************************)
EXTENDS Integers, FiniteSets, FiniteSetsExt

CONSTANTS
  MaxHits,     \* bound: calls of hit
  Limit,       \* the limit they are called with; 0 refuses every call
  Window,      \* and their window
  MaxAhead,    \* how far a caller's clock can be ahead of the slowest one,
               \* which is taken for Redis's
  MaxLate,     \* how long after its timestamp a script can run
  MaxResends,  \* bound: scripts whose reply is lost
  MaxTime      \* bound: the time at Redis

Hits == 1..MaxHits

ASSUME RateAssumption ==
  /\ MaxHits \in Nat /\ MaxResends \in Nat /\ MaxTime \in Nat
  /\ Limit \in Nat \ {0}
  /\ Window \in Nat \ {0}
  /\ MaxAhead \in Nat /\ MaxLate \in Nat

VARIABLES
  rlTime,     \* the time at Redis
  hits,       \* hits[i]: where the call is, or what it resolved to
  stamp,      \* stamp[i]: Date.now() of its caller, the score of its member
  remaining,  \* remaining[i] and resetAt[i]: the rest of its result
  resetAt,
  log,        \* members of the sorted set
  logExpiry,  \* when the key expires
  latest,     \* history: the last admission and the calls resolved since
  resends     \* replies lost so far

rlVars == <<rlTime, hits, stamp, remaining, resetAt, log, logExpiry, latest,
            resends>>

RLTypeOK ==
  /\ rlTime \in Nat
  /\ hits \in [Hits -> {"new", "sent", "allowed", "refused"}]
  /\ stamp \in [Hits -> Nat]
  /\ remaining \in [Hits -> Nat]
  /\ resetAt \in [Hits -> Nat]
  /\ log \in SUBSET Hits
  /\ logExpiry \in Nat
  /\ latest \in SUBSET Hits
  /\ resends \in Nat
  /\ \A i \in log : hits[i] # "new"
  /\ \A i \in latest : hits[i] \in {"allowed", "refused"}

RLInit ==
  /\ rlTime = 0
  /\ hits = [i \in Hits |-> "new"]
  /\ stamp = [i \in Hits |-> 0]
  /\ remaining = [i \in Hits |-> 0]
  /\ resetAt = [i \in Hits |-> 0]
  /\ log = {}
  /\ logExpiry = 0
  /\ latest = {}
  /\ resends = 0

-----------------------------------------------------------------------------

\* hit, up to its await.  (Calls are numbered in the order they are made.)
Hit(i) ==
  /\ hits[i] = "new"
  /\ \A j \in Hits : j < i => hits[j] # "new"
  /\ hits' = [hits EXCEPT ![i] = "sent"]
  /\ \E now \in rlTime..(rlTime + MaxAhead) : stamp' = [stamp EXCEPT ![i] = now]
  /\ UNCHANGED <<rlTime, remaining, resetAt, log, logExpiry, latest, resends>>

\* Mutant: zremrangebyscore with an exclusive end: a member that is exactly one
\* window old is still counted.
CountedAtEdge(i) == {j \in log : stamp[j] >= stamp[i] - Window}

\* zremrangebyscore leaves the members of the caller's window.
Counted(i) == {j \in log : stamp[j] > stamp[i] - Window}

Admits(i) == Cardinality(Counted(i)) < Limit

LogAfter(i) == IF Admits(i) THEN Counted(i) \union {i} ELSE Counted(i)

\* Mutant: PEXPIRE for half the window.
ExpiryHalved(i) == rlTime + Window \div 2

ExpiryAfter(i) == rlTime + Window

\* Mutant: the oldest member is read before the log is cleaned.
OldestBefore(i) == Min({stamp[j] : j \in log \union {i}})

\* The score of zrange 0 0.  With a limit of one or more the log is not empty.
Oldest(i) == Min({stamp[j] : j \in LogAfter(i)})

\* Mutant: a call that was refused is counted as well.
LeftOfRefused(i) == Limit - (Cardinality(Counted(i)) + 1)

\* limit - count, where count is one more than before if i was admitted, its
\* member being new or not.
Left(i) ==
  LET count == Cardinality(Counted(i)) + (IF Admits(i) THEN 1 ELSE 0)
  IN  IF count < Limit THEN Limit - count ELSE 0

\* The script.
RunScript(i) ==
  /\ hits[i] = "sent"
  /\ log' = LogAfter(i)
  /\ logExpiry' = IF Admits(i) THEN ExpiryAfter(i) ELSE logExpiry

\* The script runs and hit resolves.
Resolves(i) ==
  /\ RunScript(i)
  /\ hits' = [hits EXCEPT ![i] = IF Admits(i) THEN "allowed" ELSE "refused"]
  /\ remaining' = [remaining EXCEPT ![i] = Left(i)]
  /\ resetAt' = [resetAt EXCEPT ![i] = Oldest(i) + Window]
  /\ latest' = IF Admits(i) THEN {i} ELSE latest \union {i}
  /\ UNCHANGED <<rlTime, stamp, resends>>

\* The script runs, its reply is lost, and the client sends it again.
ReplyLost(i) ==
  /\ resends < MaxResends
  /\ RunScript(i)
  /\ resends' = resends + 1
  /\ latest' = IF Admits(i) THEN {} ELSE latest
  /\ UNCHANGED <<rlTime, hits, stamp, remaining, resetAt>>

\* A script that was sent arrives in time; the key expires.
RateTick ==
  /\ rlTime < MaxTime
  /\ \A i \in Hits : hits[i] = "sent" => rlTime < stamp[i] + MaxLate
  /\ rlTime' = rlTime + 1
  /\ log' = IF rlTime' > logExpiry THEN {} ELSE log
  /\ UNCHANGED <<hits, stamp, remaining, resetAt, logExpiry, latest, resends>>

RLNext ==
  \/ \E i \in Hits : Hit(i) \/ Resolves(i) \/ ReplyLost(i)
  \/ RateTick

RLSpec == RLInit /\ [][RLNext]_rlVars

-----------------------------------------------------------------------------
(* Properties.                                                             *)

Drift == MaxAhead + MaxLate

\* The limit is kept over every stretch of Window - Drift on the callers'
\* clocks: a caller that is ahead can clean away members that one behind it
\* should still count, but only those Drift from leaving its window.
LimitKept ==
  \A i \in Hits :
    Cardinality({j \in Hits : /\ hits[j] = "allowed"
                              /\ stamp[i] <= stamp[j]
                              /\ stamp[j] < stamp[i] + Window - Drift}) <= Limit

\* A call is refused only when the limit is used up: as many calls of its window
\* were allowed, but for the admissions whose reply was lost and whose caller,
\* sent again, may not know of them (nor of its own).
RefusalsJustified ==
  \A i \in Hits :
    hits[i] = "refused" =>
      Cardinality({j \in Hits : /\ hits[j] = "allowed"
                               /\ stamp[j] > stamp[i] - Window}) + resends >= Limit

\* What a call was told stays true until the next admission, however late its
\* result is read: remaining more members fit, and from resetAt on ("thời điểm
\* slot sớm nhất rời cửa sổ") a caller finds a free slot; the calls that are
\* refused meanwhile do not put it off.
ResultsHold ==
  \A i \in latest :
    /\ Cardinality(log) + remaining[i] <= Limit
    /\ Cardinality({j \in log : stamp[j] > resetAt[i] - Window}) < Limit
=============================================================================
