-------------------------- MODULE RateLimitProofs --------------------------
(***************************************************************************)
(* Proofs about RateLimit, for every limit, window, drift and number of    *)
(* calls.                                                                  *)
(*                                                                         *)
(* The limit over a stretch of time is not inductive by itself: the script *)
(* counts members, and members are cleaned away by other callers' clocks   *)
(* or expire with the key.  RLInv adds how late that is: a hit that was    *)
(* admitted and has left the log is Window old on a clock that is at most  *)
(* MaxAhead from Redis's, and a script that still runs has a timestamp at  *)
(* most MaxLate old.                                                       *)
(***************************************************************************)
EXTENDS RateLimit, TLAPS, FiniteSetTheorems, WellFoundedInduction

InStretch(t) == {j \in Hits : /\ hits[j] = "allowed"
                              /\ t <= stamp[j]
                              /\ stamp[j] < t + Window - Drift}

LimitAlways == \A t \in Nat : Cardinality(InStretch(t)) <= Limit

\* A script under way is not late, and no timestamp is from the future.
ClocksClose ==
  \A i \in Hits :
    /\ hits[i] = "sent" => rlTime <= stamp[i] + MaxLate
    /\ hits[i] # "new" => stamp[i] <= rlTime + MaxAhead

LogFits == Cardinality(log) <= Limit

\* The key lives as long as its members are needed.
LogLasts ==
  \A j \in log : /\ rlTime <= logExpiry
                 /\ stamp[j] + Window <= logExpiry + MaxAhead

\* A hit that was admitted is in the log until it has left its window.
AdmittedStay ==
  \A j \in Hits :
    hits[j] = "allowed" /\ j \notin log => stamp[j] + Window <= rlTime + MaxAhead

RLInv == /\ RLTypeOK
         /\ ClocksClose
         /\ LogFits
         /\ LogLasts
         /\ AdmittedStay
         /\ LimitAlways
         /\ ResultsHold

-----------------------------------------------------------------------------
(* Sets of hits, and what the script reads.                                *)

\* Sets of calls are finite.
LEMMA HitsFinite ==
  ASSUME NEW S \in SUBSET Hits
  PROVE  IsFiniteSet(S) /\ Cardinality(S) \in Nat
  <1>1. IsFiniteSet(Hits)
    BY FS_Interval, RateAssumption DEF Hits
  <1>2. IsFiniteSet(S)
    BY <1>1, FS_Subset
  <1> QED BY <1>2, FS_CardinalityType

\* A subset of calls is not larger.
LEMMA SmallerSet ==
  ASSUME NEW S \in SUBSET Hits, NEW T \in SUBSET S
  PROVE  Cardinality(T) <= Cardinality(S)
  BY HitsFinite, FS_Subset

\* A non-empty set of numbers has a least one, which is what Min chooses.
LEMMA MinIsMember ==
  ASSUME NEW S \in SUBSET Nat, S # {}
  PROVE  Min(S) \in S
  <1>1. PICK x \in S : \A y \in S : <<y, x>> \notin OpToRel(<, Nat)
    BY NatLessThanWellFounded, WFMin
  <1>2. ASSUME NEW y \in S PROVE x <= y
    <2>1. x \in Nat /\ y \in Nat
      OBVIOUS
    <2>2. ~(y < x)
      BY <1>1, <2>1 DEF OpToRel
    <2> QED BY <2>1, <2>2
  <1> QED BY <1>2 DEF Min

\* The log after a script holds no more than the limit, whoever ran it.
LEMMA LogAfterFits ==
  ASSUME RLTypeOK, LogFits, NEW i \in Hits
  PROVE  /\ LogAfter(i) \in SUBSET Hits
         /\ Counted(i) \in SUBSET log
         /\ Cardinality(Counted(i)) \in Nat
         /\ Cardinality(LogAfter(i)) \in Nat
         /\ Cardinality(LogAfter(i)) <= Limit
         /\ Admits(i) => Cardinality(LogAfter(i)) <= Cardinality(Counted(i)) + 1
  <1>1. Counted(i) \in SUBSET log /\ log \in SUBSET Hits
    BY DEF Counted, RLTypeOK
  <1>2. Counted(i) \in SUBSET Hits
    BY <1>1
  <1>3. LogAfter(i) \in SUBSET Hits
    BY <1>2 DEF LogAfter
  <1>4. IsFiniteSet(Counted(i)) /\ Cardinality(Counted(i)) \in Nat
    BY <1>2, HitsFinite
  <1>5. Cardinality(LogAfter(i)) \in Nat
    BY <1>3, HitsFinite
  <1>6. Cardinality(Counted(i)) <= Limit
    <2>1. Cardinality(Counted(i)) <= Cardinality(log)
      BY <1>1, SmallerSet
    <2>2. Cardinality(log) \in Nat
      BY <1>1, HitsFinite
    <2> QED BY <1>4, <2>1, <2>2, RateAssumption DEF LogFits
  <1>7. CASE Admits(i)
    <2>1. Cardinality(Counted(i) \union {i}) <= Cardinality(Counted(i)) + 1
      <3>1. Cardinality(Counted(i) \union {i})
              = IF i \in Counted(i) THEN Cardinality(Counted(i))
                                    ELSE Cardinality(Counted(i)) + 1
        BY ONLY <1>4, FS_AddElement
      <3> QED BY <1>4, <3>1
    <2>2. Cardinality(Counted(i)) < Limit /\ LogAfter(i) = Counted(i) \union {i}
      BY <1>7 DEF Admits, LogAfter
    <2>3. Cardinality(LogAfter(i)) <= Cardinality(Counted(i)) + 1
      BY <2>1, <2>2
    <2>4. Cardinality(LogAfter(i)) <= Limit
      BY <1>4, <1>5, <2>2, <2>3, RateAssumption
    <2> QED BY <1>1, <1>3, <1>4, <1>5, <2>3, <2>4
  <1>8. CASE ~Admits(i)
    BY <1>1, <1>3, <1>4, <1>5, <1>6, <1>8 DEF LogAfter
  <1> QED BY <1>7, <1>8

\* The oldest member exists: the log is not empty when a call is refused.
LEMMA OldestIsMember ==
  ASSUME RLTypeOK, LogFits, NEW i \in Hits
  PROVE  /\ Oldest(i) \in Nat
         /\ \E j \in LogAfter(i) : stamp[j] = Oldest(i)
  <1>1. LogAfter(i) \in SUBSET Hits
    BY LogAfterFits
  <1>2. LogAfter(i) # {}
    <2>1. CASE Admits(i)
      BY <2>1 DEF LogAfter
    <2>2. CASE ~Admits(i)
      <3>1. Cardinality(Counted(i)) \in Nat /\ Cardinality(Counted(i)) >= Limit
        BY <2>2, LogAfterFits, RateAssumption DEF Admits
      <3>2. Cardinality(Counted(i)) # 0
        BY <3>1, RateAssumption
      <3>3. Counted(i) # {}
        BY <3>2, FS_EmptySet
      <3> QED BY <2>2, <3>3 DEF LogAfter
    <2> QED BY <2>1, <2>2
  <1> DEFINE S == {stamp[j] : j \in LogAfter(i)}
  <1>3. S \in SUBSET Nat /\ S # {}
    BY <1>1, <1>2 DEF RLTypeOK
  <1>4. Min(S) \in S
    BY <1>3, MinIsMember
  <1>5. Oldest(i) = Min(S)
    BY DEF Oldest
  <1> QED BY <1>3, <1>4, <1>5

-----------------------------------------------------------------------------
(* RLInv is inductive.                                                     *)

\* An empty log counts every admission so far.
LEMMA RateInit == RLInit => RLInv
  <1> SUFFICES ASSUME RLInit PROVE RLInv
    OBVIOUS
  <1> USE RateAssumption DEF RLInit
  <1>1. RLTypeOK
    BY DEF RLTypeOK
  <1>2. ClocksClose /\ LogLasts /\ AdmittedStay /\ ResultsHold
    BY DEF ClocksClose, LogLasts, AdmittedStay, ResultsHold
  <1>3. LogFits
    BY FS_EmptySet DEF LogFits
  <1>4. LimitAlways
    <2> SUFFICES ASSUME NEW t \in Nat PROVE Cardinality(InStretch(t)) <= Limit
      BY DEF LimitAlways
    <2>1. InStretch(t) = {}
      BY DEF InStretch
    <2> QED BY <2>1, FS_EmptySet
  <1> QED BY <1>1, <1>2, <1>3, <1>4 DEF RLInv

\* A call that starts has no member yet and no result.
LEMMA HitKeeps == ASSUME RLInv, NEW i \in Hits, Hit(i) PROVE RLInv'
  <1> USE RateAssumption DEF RLInv, Hit
  <1>1. RLTypeOK'
    BY DEF RLTypeOK
  <1>2. ClocksClose'
    BY DEF ClocksClose, RLTypeOK
  <1>3. \A j \in log \union latest : j # i /\ stamp'[j] = stamp[j]
    BY DEF RLTypeOK
  <1>4. LogFits' /\ LogLasts'
    BY <1>3 DEF LogFits, LogLasts, RLTypeOK
  <1>5. AdmittedStay'
    BY DEF AdmittedStay, RLTypeOK
  <1>6. LimitAlways'
    <2> SUFFICES ASSUME NEW t \in Nat PROVE Cardinality(InStretch(t)') <= Limit
      BY DEF LimitAlways
    <2>1. InStretch(t)' = InStretch(t)
      BY DEF InStretch, RLTypeOK
    <2> QED BY <2>1 DEF LimitAlways
  <1>7. ResultsHold'
    <2> SUFFICES ASSUME NEW k \in latest
                 PROVE  /\ Cardinality(log) + remaining[k] <= Limit
                        /\ Cardinality({j \in log : stamp'[j] > resetAt[k] - Window})
                             < Limit
      BY DEF ResultsHold
    <2>1. {j \in log : stamp'[j] > resetAt[k] - Window}
            = {j \in log : stamp[j] > resetAt[k] - Window}
      BY <1>3
    <2> QED BY <2>1 DEF ResultsHold
  <1> QED BY <1>1, <1>2, <1>4, <1>5, <1>6, <1>7

\* What any run of the script leaves intact, whether its reply arrives or not.
LEMMA ScriptKeeps ==
  ASSUME RLInv, NEW i \in Hits, RunScript(i),
         stamp' = stamp, rlTime' = rlTime,
         \A j \in Hits : j # i => hits'[j] = hits[j],
         hits'[i] = "allowed" => Admits(i)
  PROVE  LogFits' /\ LogLasts' /\ AdmittedStay'
  <1> USE RateAssumption
  <1>1. LogFits'
    BY LogAfterFits DEF RLInv, RunScript, LogFits
  <1>2. stamp[i] \in Nat /\ rlTime \in Nat /\ logExpiry \in Nat
        /\ stamp[i] <= rlTime + MaxAhead
    BY DEF RLInv, RLTypeOK, ClocksClose, RunScript
  <1>3. LogLasts'
    <2> SUFFICES ASSUME NEW j \in log'
                 PROVE  rlTime <= logExpiry' /\ stamp[j] + Window <= logExpiry' + MaxAhead
      BY DEF LogLasts
    <2>1. CASE j = i /\ Admits(i)
      BY <1>2, <2>1 DEF RunScript, ExpiryAfter
    <2>2. CASE ~(j = i /\ Admits(i))
      <3>1. j \in log
        BY <2>2 DEF RunScript, LogAfter, Counted
      <3>2. /\ rlTime <= logExpiry /\ stamp[j] + Window <= logExpiry + MaxAhead
            /\ stamp[j] \in Nat /\ stamp[j] <= rlTime + MaxAhead
        BY <3>1 DEF RLInv, LogLasts, RLTypeOK, ClocksClose
      <3>3. logExpiry' = logExpiry \/ logExpiry' = rlTime + Window
        BY DEF RunScript, ExpiryAfter
      <3> QED BY <1>2, <3>2, <3>3
    <2> QED BY <2>1, <2>2
  <1>4. AdmittedStay'
    <2> SUFFICES ASSUME NEW j \in Hits, hits'[j] = "allowed", j \notin log'
                 PROVE  stamp[j] + Window <= rlTime + MaxAhead
      BY DEF AdmittedStay
    <2>1. j # i
      BY DEF RunScript, LogAfter
    <2>2. hits[j] = "allowed" /\ stamp[j] \in Nat
      BY <2>1 DEF RLInv, RLTypeOK
    <2>3. CASE j \notin log
      BY <2>2, <2>3 DEF RLInv, AdmittedStay
    <2>4. CASE j \in log
      <3>1. ~(stamp[j] > stamp[i] - Window)
        BY <2>4 DEF RunScript, LogAfter, Counted
      <3> QED BY <1>2, <2>2, <3>1
    <2> QED BY <2>3, <2>4
  <1> QED BY <1>1, <1>3, <1>4

\* A hit that is admitted shares a stretch only with members it has counted.
LEMMA StretchIsCounted ==
  ASSUME RLInv, NEW i \in Hits, hits[i] = "sent",
         NEW j \in Hits, hits[j] = "allowed",
         stamp[i] < stamp[j] + Window - Drift,
         stamp[j] < stamp[i] + Window - Drift
  PROVE  j \in Counted(i)
  <1>1. /\ stamp[i] \in Nat /\ stamp[j] \in Nat /\ rlTime \in Nat
        /\ rlTime <= stamp[i] + MaxLate
    BY DEF RLInv, RLTypeOK, ClocksClose
  <1>2. MaxAhead \in Nat /\ MaxLate \in Nat /\ Window \in Nat
        /\ Drift = MaxAhead + MaxLate
    BY RateAssumption DEF Drift
  <1>3. j \in log
    <2>1. SUFFICES ASSUME j \notin log PROVE FALSE
      OBVIOUS
    <2>2. stamp[j] + Window <= rlTime + MaxAhead
      BY <2>1 DEF RLInv, AdmittedStay
    <2> QED BY <1>1, <1>2, <2>2
  <1>4. stamp[j] > stamp[i] - Window
    BY <1>1, <1>2
  <1> QED BY <1>3, <1>4 DEF Counted

\* The script runs and its caller reads what it returned.
LEMMA ResolvesKeeps == ASSUME RLInv, NEW i \in Hits, Resolves(i) PROVE RLInv'
  <1> USE RateAssumption
  <1>a. RLTypeOK /\ LogFits /\ RunScript(i) /\ hits[i] = "sent"
    BY DEF RLInv, Resolves, RunScript
  <1>b. /\ log' = LogAfter(i) /\ log' \in SUBSET Hits
        /\ Cardinality(log') \in Nat /\ Cardinality(log') <= Limit
        /\ Cardinality(Counted(i)) \in Nat
        /\ Admits(i) => Cardinality(log') <= Cardinality(Counted(i)) + 1
    BY <1>a, LogAfterFits DEF RunScript
  <1>c. /\ hits' = [hits EXCEPT ![i] = IF Admits(i) THEN "allowed" ELSE "refused"]
        /\ stamp' = stamp /\ rlTime' = rlTime
    BY DEF Resolves
  <1>d. Left(i) \in Nat /\ Oldest(i) \in Nat
    BY <1>a, <1>b, OldestIsMember DEF Left
  <1>e. logExpiry' \in Nat
    BY <1>a DEF RunScript, ExpiryAfter, RLTypeOK
  <1>1. RLTypeOK'
    <2>1. /\ hits' \in [Hits -> {"new", "sent", "allowed", "refused"}]
          /\ remaining' \in [Hits -> Nat]
      BY <1>a, <1>c, <1>d DEF RLTypeOK, Resolves
    <2>2. resetAt' \in [Hits -> Nat]
      BY <1>a, <1>d DEF RLTypeOK, Resolves
    <2>3. \A j \in log' : hits'[j] # "new"
      BY <1>a, <1>b, <1>c DEF RLTypeOK, LogAfter, Counted
    <2>4. latest' \in SUBSET Hits /\ \A j \in latest' : hits'[j] \in {"allowed", "refused"}
      BY <1>a, <1>c DEF RLTypeOK, Resolves
    <2> QED BY <1>a, <1>b, <1>e, <2>1, <2>2, <2>3, <2>4 DEF RLTypeOK, Resolves
  <1>2. ClocksClose'
    BY <1>a, <1>c DEF RLInv, ClocksClose, RLTypeOK
  <1>3. LogFits' /\ LogLasts' /\ AdmittedStay'
    <2>1. \A j \in Hits : j # i => hits'[j] = hits[j]
      BY <1>a, <1>c DEF RLTypeOK
    <2>2. hits'[i] = "allowed" => Admits(i)
      BY <1>a, <1>c DEF RLTypeOK
    <2> QED BY <1>a, <1>c, <2>1, <2>2, ScriptKeeps
  <1>4. LimitAlways'
    <2> SUFFICES ASSUME NEW t \in Nat PROVE Cardinality(InStretch(t)') <= Limit
      BY DEF LimitAlways
    <2>1. InStretch(t) \in SUBSET Hits /\ InStretch(t)' \in SUBSET Hits
      BY DEF InStretch
    <2>2. Cardinality(InStretch(t)) <= Limit
      BY DEF RLInv, LimitAlways
    <2>3. CASE i \notin InStretch(t)'
      <3>1. InStretch(t)' \in SUBSET InStretch(t)
        BY <1>a, <1>c, <2>3 DEF InStretch, RLTypeOK
      <3>2. Cardinality(InStretch(t)') <= Cardinality(InStretch(t))
        BY <2>1, <3>1, SmallerSet
      <3>3. Cardinality(InStretch(t)) \in Nat /\ Cardinality(InStretch(t)') \in Nat
        BY <2>1, HitsFinite
      <3> QED BY <2>2, <3>2, <3>3
    <2>4. CASE i \in InStretch(t)'
      <3>1. Admits(i) /\ t <= stamp[i] /\ stamp[i] < t + Window - Drift
        BY <1>a, <1>c, <2>4 DEF InStretch, RLTypeOK
      <3>2. ASSUME NEW j \in InStretch(t)', j # i PROVE j \in Counted(i)
        <4>1. j \in Hits /\ hits[j] = "allowed" /\ t <= stamp[j]
              /\ stamp[j] < t + Window - Drift
          BY <1>a, <1>c, <3>2 DEF InStretch, RLTypeOK
        <4>2. stamp[i] \in Nat /\ stamp[j] \in Nat /\ Window \in Nat /\ Drift \in Nat
          BY <1>a, <4>1 DEF RLTypeOK, Drift
        <4>3. /\ stamp[i] < stamp[j] + Window - Drift
              /\ stamp[j] < stamp[i] + Window - Drift
          BY <3>1, <4>1, <4>2
        <4> QED BY <1>a, <4>1, <4>3, StretchIsCounted
      <3>3. log' = Counted(i) \union {i}
        BY <1>b, <3>1 DEF LogAfter
      <3>4. InStretch(t)' \in SUBSET log'
        BY <3>2, <3>3
      <3>5. Cardinality(InStretch(t)') <= Cardinality(log')
        BY <1>b, <3>4, SmallerSet
      <3>6. Cardinality(InStretch(t)') \in Nat
        BY <2>1, HitsFinite
      <3> QED BY <1>b, <3>5, <3>6
    <2> QED BY <2>3, <2>4
  <1>5. ResultsHold'
    <2> DEFINE After(k) == {j \in log' : stamp[j] > resetAt'[k] - Window}
    <2> SUFFICES ASSUME NEW k \in latest'
                 PROVE  /\ Cardinality(log') + remaining'[k] <= Limit
                        /\ Cardinality(After(k)) < Limit
      BY <1>c DEF ResultsHold
    <2>1. k \in Hits
      BY <1>1 DEF RLTypeOK
    <2>2. CASE k = i
      <3>1. remaining'[i] = Left(i) /\ resetAt'[i] = Oldest(i) + Window
        BY <1>a DEF Resolves, RLTypeOK
      <3>2. Cardinality(log') + Left(i) <= Limit
        <4>1. CASE Admits(i)
          BY <1>b, <4>1 DEF Left
        <4>2. CASE ~Admits(i)
          <5>1. ~(Cardinality(Counted(i)) < Limit)
            BY <4>2 DEF Admits
          <5>2. Left(i) = 0
            BY <1>b, <4>2, <5>1 DEF Left
          <5> QED BY <1>b, <5>2
        <4> QED BY <4>1, <4>2
      <3>3. PICK j \in log' : stamp[j] = Oldest(i)
        BY <1>a, <1>b, OldestIsMember
      <3>4. resetAt'[i] - Window = Oldest(i)
        BY <1>d, <3>1
      <3>5. After(i) \in SUBSET (log' \ {j})
        BY <1>d, <3>3, <3>4
      <3>6. /\ Cardinality(log' \ {j}) = Cardinality(log') - 1
            /\ log' \ {j} \in SUBSET Hits
        BY <1>b, HitsFinite, FS_RemoveElement
      <3>7. Cardinality(After(i)) <= Cardinality(log') - 1
        BY <3>5, <3>6, SmallerSet
      <3>8. Cardinality(After(i)) \in Nat
        BY <3>5, <3>6, HitsFinite
      <3> QED BY <1>b, <2>2, <3>1, <3>2, <3>7, <3>8
    <2>3. CASE k # i
      <3>1. ~Admits(i) /\ k \in latest
        BY <2>3 DEF Resolves
      <3>2. log' \in SUBSET log
        BY <1>b, <3>1 DEF LogAfter, Counted
      <3>3. remaining'[k] = remaining[k] /\ resetAt'[k] = resetAt[k]
        BY <1>a, <2>1, <2>3 DEF Resolves, RLTypeOK
      <3>4. remaining[k] \in Nat /\ log \in SUBSET Hits
        BY <1>a, <2>1 DEF RLTypeOK
      <3>5. Cardinality(log') <= Cardinality(log) /\ Cardinality(log) \in Nat
        BY <3>2, <3>4, SmallerSet, HitsFinite
      <3>6. Cardinality(log) + remaining[k] <= Limit
        BY <3>1 DEF RLInv, ResultsHold
      <3> DEFINE Before == {j \in log : stamp[j] > resetAt[k] - Window}
      <3>7. After(k) \in SUBSET Before /\ Before \in SUBSET Hits
        BY <3>2, <3>3, <3>4
      <3>8. Cardinality(Before) < Limit
        BY <3>1 DEF RLInv, ResultsHold
      <3> HIDE DEF Before, After
      <3>9. Cardinality(After(k)) <= Cardinality(Before)
            /\ Cardinality(After(k)) \in Nat /\ Cardinality(Before) \in Nat
        BY <3>7, SmallerSet, HitsFinite
      <3>10. Cardinality(log') + remaining'[k] <= Limit
        BY <1>b, <3>3, <3>4, <3>5, <3>6
      <3> QED BY <3>8, <3>9, <3>10
    <2> QED BY <2>2, <2>3
  <1> QED BY <1>1, <1>2, <1>3, <1>4, <1>5 DEF RLInv

\* Nobody learns of this run: the results known so far are of an earlier
\* admission, or still stand.
LEMMA ReplyLostKeeps == ASSUME RLInv, NEW i \in Hits, ReplyLost(i) PROVE RLInv'
  <1> USE RateAssumption
  <1>a. RLTypeOK /\ LogFits /\ RunScript(i) /\ hits[i] = "sent"
    BY DEF RLInv, ReplyLost, RunScript
  <1>b. /\ log' = LogAfter(i) /\ log' \in SUBSET Hits
        /\ Cardinality(log') \in Nat
    BY <1>a, LogAfterFits DEF RunScript
  <1>c. hits' = hits /\ stamp' = stamp /\ rlTime' = rlTime
        /\ remaining' = remaining /\ resetAt' = resetAt
    BY DEF ReplyLost
  <1>1. RLTypeOK'
    <2>1. \A j \in log' : hits'[j] # "new"
      BY <1>a, <1>b, <1>c DEF RLTypeOK, LogAfter, Counted
    <2>2. logExpiry' \in Nat
      BY <1>a DEF RunScript, ExpiryAfter, RLTypeOK
    <2>3. latest' \in SUBSET latest
      BY DEF ReplyLost
    <2> QED BY <1>a, <1>b, <1>c, <2>1, <2>2, <2>3 DEF RLTypeOK, ReplyLost
  <1>2. ClocksClose'
    BY <1>c DEF RLInv, ClocksClose
  <1>3. LogFits' /\ LogLasts' /\ AdmittedStay'
    BY <1>a, <1>c, ScriptKeeps
  <1>4. LimitAlways'
    BY <1>c DEF RLInv, LimitAlways, InStretch
  <1>5. ResultsHold'
    <2> SUFFICES ASSUME NEW k \in latest'
                 PROVE  /\ Cardinality(log') + remaining[k] <= Limit
                        /\ Cardinality({j \in log' : stamp[j] > resetAt[k] - Window})
                             < Limit
      BY <1>c DEF ResultsHold
    <2>1. ~Admits(i) /\ k \in latest
      BY DEF ReplyLost
    <2>2. log' \in SUBSET log
      BY <1>b, <2>1 DEF LogAfter, Counted
    <2>3. remaining[k] \in Nat /\ log \in SUBSET Hits
      BY <1>a, <2>1 DEF RLTypeOK
    <2>4. Cardinality(log') <= Cardinality(log) /\ Cardinality(log) \in Nat
      BY <2>2, <2>3, SmallerSet, HitsFinite
    <2> DEFINE Before == {j \in log : stamp[j] > resetAt[k] - Window}
               After == {j \in log' : stamp[j] > resetAt[k] - Window}
    <2>5. After \in SUBSET Before /\ Before \in SUBSET Hits
      BY <2>2, <2>3
    <2>6. Cardinality(log) + remaining[k] <= Limit /\ Cardinality(Before) < Limit
      BY <2>1 DEF RLInv, ResultsHold
    <2> HIDE DEF Before, After
    <2>7. Cardinality(After) <= Cardinality(Before)
          /\ Cardinality(After) \in Nat /\ Cardinality(Before) \in Nat
      BY <2>5, SmallerSet, HitsFinite
    <2>8. Cardinality(log') + remaining[k] <= Limit
      BY <1>b, <2>3, <2>4, <2>6
    <2>9. Cardinality(After) < Limit
      BY <2>6, <2>7
    <2> QED BY <2>8, <2>9 DEF After
  <1> QED BY <1>1, <1>2, <1>3, <1>4, <1>5 DEF RLInv

\* The key expires only when its members have left every window.
LEMMA RateTickKeeps == ASSUME RLInv, RateTick PROVE RLInv'
  <1> USE RateAssumption
  <1>a. /\ RLTypeOK /\ log \in SUBSET Hits /\ log' \in SUBSET log
        /\ rlTime \in Nat /\ rlTime' = rlTime + 1
        /\ hits' = hits /\ stamp' = stamp /\ logExpiry' = logExpiry
    BY DEF RLInv, RLTypeOK, RateTick
  <1>1. RLTypeOK'
    BY <1>a DEF RLTypeOK, RateTick
  <1>2. ClocksClose'
    <2> SUFFICES ASSUME NEW i \in Hits
                 PROVE  /\ hits[i] = "sent" => rlTime + 1 <= stamp[i] + MaxLate
                        /\ hits[i] # "new" => stamp[i] <= rlTime + 1 + MaxAhead
      BY <1>a DEF ClocksClose
    <2>1. stamp[i] \in Nat
      BY <1>a DEF RLTypeOK
    <2>2. hits[i] = "sent" => rlTime < stamp[i] + MaxLate
      BY DEF RateTick
    <2>3. hits[i] # "new" => stamp[i] <= rlTime + MaxAhead
      BY DEF RLInv, ClocksClose
    <2> QED BY <1>a, <2>1, <2>2, <2>3
  <1>3. LogLasts'
    <2> SUFFICES ASSUME NEW j \in log'
                 PROVE  /\ rlTime + 1 <= logExpiry
                        /\ stamp[j] + Window <= logExpiry + MaxAhead
      BY <1>a DEF LogLasts
    <2>1. ~(rlTime + 1 > logExpiry) /\ j \in log /\ logExpiry \in Nat
      BY <1>a DEF RateTick, RLTypeOK
    <2> QED BY <1>a, <2>1 DEF RLInv, LogLasts
  <1>4. AdmittedStay'
    <2> SUFFICES ASSUME NEW j \in Hits, hits[j] = "allowed", j \notin log'
                 PROVE  stamp[j] + Window <= rlTime + 1 + MaxAhead
      BY <1>a DEF AdmittedStay
    <2>1. stamp[j] \in Nat /\ logExpiry \in Nat
      BY <1>a DEF RLTypeOK
    <2>2. CASE j \in log
      <3>1. rlTime + 1 > logExpiry
        BY <1>a, <2>2 DEF RateTick
      <3>2. stamp[j] + Window <= logExpiry + MaxAhead
        BY <2>2 DEF RLInv, LogLasts
      <3> QED BY <1>a, <2>1, <3>1, <3>2
    <2>3. CASE j \notin log
      <3>1. stamp[j] + Window <= rlTime + MaxAhead
        BY <2>3 DEF RLInv, AdmittedStay
      <3> QED BY <1>a, <2>1, <3>1
    <2> QED BY <2>2, <2>3
  <1>5. LimitAlways'
    BY <1>a DEF RLInv, LimitAlways, InStretch
  <1>b. /\ Cardinality(log') <= Cardinality(log)
        /\ Cardinality(log) \in Nat /\ Cardinality(log') \in Nat
    <2>1. log' \in SUBSET Hits
      BY <1>a
    <2> QED BY <1>a, <2>1, SmallerSet, HitsFinite
  <1>6. LogFits'
    BY <1>b DEF RLInv, LogFits
  <1>7. ResultsHold'
    <2>1. remaining' = remaining /\ resetAt' = resetAt /\ latest' = latest
      BY DEF RateTick
    <2> SUFFICES ASSUME NEW k \in latest
                 PROVE  /\ Cardinality(log') + remaining[k] <= Limit
                        /\ Cardinality({j \in log' : stamp[j] > resetAt[k] - Window})
                             < Limit
      BY <1>a, <2>1 DEF ResultsHold
    <2>2. remaining[k] \in Nat
      BY <1>a DEF RLTypeOK
    <2> DEFINE Before == {j \in log : stamp[j] > resetAt[k] - Window}
               After == {j \in log' : stamp[j] > resetAt[k] - Window}
    <2>3. After \in SUBSET Before /\ Before \in SUBSET Hits
      BY <1>a
    <2>4. Cardinality(log) + remaining[k] <= Limit /\ Cardinality(Before) < Limit
      BY DEF RLInv, ResultsHold
    <2> HIDE DEF Before, After
    <2>5. Cardinality(After) <= Cardinality(Before)
          /\ Cardinality(After) \in Nat /\ Cardinality(Before) \in Nat
      BY <2>3, SmallerSet, HitsFinite
    <2>6. Cardinality(log') + remaining[k] <= Limit
      BY <1>b, <2>2, <2>4
    <2>7. Cardinality(After) < Limit
      BY <2>4, <2>5
    <2> QED BY <2>6, <2>7 DEF After
  <1> QED BY <1>1, <1>2, <1>3, <1>4, <1>5, <1>6, <1>7 DEF RLInv

\* RLInv holds always.
LEMMA RateInvariant == RLSpec => []RLInv
  <1>1. RLInv /\ [RLNext]_rlVars => RLInv'
    <2> SUFFICES ASSUME RLInv, [RLNext]_rlVars PROVE RLInv'
      OBVIOUS
    <2>1. CASE UNCHANGED rlVars
      BY <2>1 DEF rlVars, RLInv, RLTypeOK, ClocksClose, LogFits, LogLasts,
                  AdmittedStay, LimitAlways, InStretch, ResultsHold
    <2>2. CASE RLNext
      BY <2>2, HitKeeps, ResolvesKeeps, ReplyLostKeeps, RateTickKeeps DEF RLNext
    <2> QED BY <2>1, <2>2
  <1> QED BY RateInit, <1>1, PTL DEF RLSpec

-----------------------------------------------------------------------------
(* Refusals.  A member that was not allowed stands in the log only because *)
(* the reply of the script that added it was lost.                         *)

Unknown == {j \in log : hits[j] # "allowed"}

AllowedBefore(i) == {j \in Hits : hits[j] = "allowed" /\ stamp[j] > stamp[i] - Window}

RefusalInv == /\ Cardinality(Unknown) <= resends
              /\ RefusalsJustified

\* The sum of two sets of hits is enough for what they cover.
LEMMA CoverBound ==
  ASSUME NEW S \in SUBSET Hits, NEW T \in SUBSET Hits,
         NEW R \in SUBSET Hits, R \subseteq S \union T
  PROVE  Cardinality(R) <= Cardinality(S) + Cardinality(T)
  <1>1. /\ IsFiniteSet(S) /\ IsFiniteSet(T)
        /\ Cardinality(S) \in Nat /\ Cardinality(T) \in Nat
        /\ Cardinality(S \intersect T) \in Nat
    <2>1. S \intersect T \in SUBSET Hits
      OBVIOUS
    <2> QED BY <2>1, HitsFinite
  <1>2. Cardinality(S \union T) = Cardinality(S) + Cardinality(T) - Cardinality(S \intersect T)
    BY <1>1, FS_Union
  <1>3. Cardinality(R) <= Cardinality(S \union T) /\ Cardinality(R) \in Nat
    <2>1. S \union T \in SUBSET Hits
      OBVIOUS
    <2> QED BY <2>1, SmallerSet, HitsFinite
  <1> QED BY <1>1, <1>2, <1>3

\* Refusals stay justified while calls are allowed, time passes and replies
\* are lost.
LEMMA RefusalsStay ==
  ASSUME RLInv, RefusalInv, NEW i \in Hits, hits[i] = "refused",
         stamp'[i] = stamp[i], resends' \in Nat, resends <= resends',
         \A j \in Hits : hits[j] = "allowed" => hits'[j] = "allowed" /\ stamp'[j] = stamp[j]
  PROVE  Cardinality(AllowedBefore(i)') + resends' >= Limit
  <1>1. /\ AllowedBefore(i) \in SUBSET AllowedBefore(i)'
        /\ AllowedBefore(i)' \in SUBSET Hits
    BY DEF AllowedBefore
  <1>2. Cardinality(AllowedBefore(i)) <= Cardinality(AllowedBefore(i)')
    BY <1>1, SmallerSet
  <1>3. Cardinality(AllowedBefore(i)) \in Nat /\ Cardinality(AllowedBefore(i)') \in Nat
    BY <1>1, HitsFinite
  <1>4. Cardinality(AllowedBefore(i)) + resends >= Limit /\ resends \in Nat
    BY DEF RefusalInv, RefusalsJustified, AllowedBefore, RLInv, RLTypeOK
  <1> QED BY <1>2, <1>3, <1>4, RateAssumption

\* Before the first call nobody was refused.
LEMMA RefusalInit == RLInit => RefusalInv
  <1> SUFFICES ASSUME RLInit PROVE RefusalInv
    OBVIOUS
  <1>1. Unknown = {} /\ resends = 0
    BY DEF RLInit, Unknown
  <1>2. Cardinality(Unknown) = 0
    BY <1>1, FS_EmptySet
  <1> QED BY <1>1, <1>2 DEF RLInit, RefusalInv, RefusalsJustified

\* A script refuses on what it counts, and all of that but Unknown was
\* allowed.
LEMMA RefusalStep ==
  ASSUME RLInv, RefusalInv, RLTypeOK', [RLNext]_rlVars
  PROVE  RefusalInv'
  <1> USE RateAssumption
  <1>0. /\ RLTypeOK /\ LogFits
        /\ Unknown \in SUBSET Hits /\ Unknown' \in SUBSET Hits
        /\ Cardinality(Unknown) \in Nat /\ Cardinality(Unknown') \in Nat
        /\ resends \in Nat /\ resends' \in Nat
        /\ Cardinality(Unknown) <= resends
    <2>1. Unknown \in SUBSET Hits /\ Unknown' \in SUBSET Hits
      BY DEF RLInv, RLTypeOK, Unknown
    <2> QED BY <2>1, HitsFinite DEF RLInv, RLTypeOK, RefusalInv
  <1>1. ASSUME Unknown' \in SUBSET Unknown, resends' = resends
        PROVE  Cardinality(Unknown') <= resends'
    BY <1>0, <1>1, SmallerSet
  <1>2. CASE UNCHANGED rlVars
    BY <1>2 DEF rlVars, RefusalInv, RefusalsJustified, Unknown
  <1>3. ASSUME NEW i \in Hits, Hit(i)
        PROVE  RefusalInv'
    <2>1. /\ hits[i] = "new" /\ hits' = [hits EXCEPT ![i] = "sent"]
          /\ log' = log /\ resends' = resends
          /\ \A j \in Hits : j # i => stamp'[j] = stamp[j]
      BY <1>0, <1>3 DEF Hit, RLTypeOK
    <2>2. Unknown' \in SUBSET Unknown
      BY <1>0, <2>1 DEF Unknown, RLTypeOK
    <2>3. ASSUME NEW k \in Hits, hits'[k] = "refused"
          PROVE  Cardinality(AllowedBefore(k)') + resends' >= Limit
      <3>1. k # i /\ hits[k] = "refused"
        BY <1>0, <2>1, <2>3 DEF RLTypeOK
      <3>2. \A j \in Hits : hits[j] = "allowed" => hits'[j] = "allowed" /\ stamp'[j] = stamp[j]
        BY <1>0, <2>1 DEF RLTypeOK
      <3> QED BY <1>0, <2>1, <3>1, <3>2, RefusalsStay
    <2> QED BY <1>1, <2>1, <2>2, <2>3 DEF RefusalInv, RefusalsJustified, AllowedBefore
  <1>4. ASSUME NEW i \in Hits, Resolves(i)
        PROVE  RefusalInv'
    <2>1. /\ hits[i] = "sent" /\ log' = LogAfter(i)
          /\ hits' = [hits EXCEPT ![i] = IF Admits(i) THEN "allowed" ELSE "refused"]
          /\ resends' = resends /\ stamp' = stamp
      BY <1>4 DEF Resolves, RunScript
    <2>2. Unknown' \in SUBSET Unknown
      BY <1>0, <2>1 DEF Unknown, LogAfter, Counted, RLTypeOK
    <2>3. ASSUME NEW k \in Hits, hits'[k] = "refused"
          PROVE  Cardinality(AllowedBefore(k)') + resends' >= Limit
      <3>1. CASE k # i
        <4>1. hits[k] = "refused"
          BY <1>0, <2>1, <2>3, <3>1 DEF RLTypeOK
        <4>2. \A j \in Hits : hits[j] = "allowed" => hits'[j] = "allowed" /\ stamp'[j] = stamp[j]
          BY <1>0, <2>1 DEF RLTypeOK
        <4> QED BY <1>0, <2>1, <4>1, <4>2, RefusalsStay
      <3>2. CASE k = i
        <4>1. ~Admits(i)
          BY <1>0, <2>1, <2>3, <3>2 DEF RLTypeOK
        <4>2. /\ Cardinality(Counted(i)) \in Nat /\ Counted(i) \in SUBSET log
              /\ Cardinality(Counted(i)) >= Limit
          BY <1>0, <4>1, LogAfterFits DEF Admits
        <4>3. AllowedBefore(i)' \in SUBSET Hits
          BY DEF AllowedBefore
        <4>4. Counted(i) \subseteq AllowedBefore(i)' \union Unknown
          BY <1>0, <2>1 DEF Counted, AllowedBefore, Unknown, RLTypeOK
        <4>5. Counted(i) \in SUBSET Hits
          BY <1>0, <4>2 DEF RLTypeOK
        <4>6. Cardinality(Counted(i)) <= Cardinality(AllowedBefore(i)') + Cardinality(Unknown)
          BY <1>0, <4>3, <4>4, <4>5, CoverBound
        <4>7. Cardinality(AllowedBefore(i)') \in Nat
          BY <4>3, HitsFinite
        <4> QED BY <1>0, <2>1, <3>2, <4>2, <4>6, <4>7
      <3> QED BY <3>1, <3>2
    <2> QED BY <1>1, <2>1, <2>2, <2>3 DEF RefusalInv, RefusalsJustified, AllowedBefore
  <1>5. ASSUME NEW i \in Hits, ReplyLost(i)
        PROVE  RefusalInv'
    <2>1. /\ log' = LogAfter(i) /\ hits' = hits /\ stamp' = stamp
          /\ resends' = resends + 1
      BY <1>5 DEF ReplyLost, RunScript
    <2>2. Unknown' \subseteq Unknown \union {i}
      BY <2>1 DEF Unknown, LogAfter, Counted
    <2>3. Cardinality(Unknown') <= Cardinality(Unknown) + Cardinality({i})
      BY <1>0, <2>2, CoverBound
    <2>4. Cardinality({i}) = 1
      BY FS_Singleton
    <2>5. Cardinality(Unknown') <= resends'
      BY <1>0, <2>1, <2>3, <2>4
    <2>6. ASSUME NEW k \in Hits, hits'[k] = "refused"
          PROVE  Cardinality(AllowedBefore(k)') + resends' >= Limit
      BY <1>0, <2>1, <2>6, RefusalsStay
    <2> QED BY <2>5, <2>6 DEF RefusalInv, RefusalsJustified, AllowedBefore
  <1>6. CASE RateTick
    <2>1. /\ hits' = hits /\ stamp' = stamp /\ resends' = resends
          /\ log' \in SUBSET log
      BY <1>6 DEF RateTick
    <2>2. Unknown' \in SUBSET Unknown
      BY <2>1 DEF Unknown
    <2>3. ASSUME NEW k \in Hits, hits'[k] = "refused"
          PROVE  Cardinality(AllowedBefore(k)') + resends' >= Limit
      BY <1>0, <2>1, <2>3, RefusalsStay
    <2> QED BY <1>1, <2>1, <2>2, <2>3 DEF RefusalInv, RefusalsJustified, AllowedBefore
  <1> QED BY <1>2, <1>3, <1>4, <1>5, <1>6 DEF RLNext

\* Every variable of RateLimit has its type.
THEOREM RateTypeCorrect == RLSpec => []RLTypeOK
  BY RateInvariant, PTL DEF RLInv

\* At most limit calls of hit are allowed in any stretch of Window - Drift on
\* the callers' clocks, with the sorted set cleaned by whoever calls and the
\* key expiring on its own.
THEOREM RateLimitIsKept == RLSpec => []LimitKept
  <1>1. RLInv => LimitKept
    <2> SUFFICES ASSUME RLInv, NEW i \in Hits
                 PROVE  Cardinality(InStretch(stamp[i])) <= Limit
      BY DEF LimitKept, InStretch
    <2> QED BY DEF RLInv, RLTypeOK, LimitAlways
  <1> QED BY <1>1, RateInvariant, PTL

\* Until the next admission a result of hit stays true: remaining is not too
\* large, and a slot is free for whoever comes at resetAt.
THEOREM RateResultsHold == RLSpec => []ResultsHold
  BY RateInvariant, PTL DEF RLInv

\* hit refuses nobody for nothing: behind a refusal stand limit calls of its
\* window that were allowed, less the replies that were lost.
THEOREM RefusalsAreJustified == RLSpec => []RefusalsJustified
  <1>1. RLInv' => RLTypeOK'
    BY DEF RLInv
  <1>2. RefusalInv => RefusalsJustified
    BY DEF RefusalInv
  <1> QED BY <1>1, <1>2, RateInvariant, RefusalInit, RefusalStep, PTL DEF RLSpec
=============================================================================
