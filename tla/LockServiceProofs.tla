------------------------- MODULE LockServiceProofs -------------------------
(***************************************************************************)
(* Proofs about LockService for any number of callers, any TTL, retry      *)
(* options, lateness of timers and number of faults.                       *)
(*                                                                         *)
(* The fencing order, the truthful signal and the kept deadline each rest  *)
(* on what an earlier step left behind: a token that was given out, a      *)
(* reply that is still to be read, a timer that was set.                   *)
(***************************************************************************)
EXTENDS LockService, TLAPS

\* Only a caller in fn, or on its way out, has a watchdog or is the owner.
HoldersInside ==
  \A c \in Clients :
    renewal[c] # "off" \/ owner = c => pc[c] \in {"fn", "stop"}

\* Redis has given out every fencing token that a caller has.
FencesGivenOut == \A c \in Clients : fence[c] <= counter

\* A renewal that found the lock lost will not find it again.
LostIsLost == \A c \in Clients : renewal[c] = "lost" => owner # c

\* A caller that sleeps wakes up before its deadline, apart from lateness.
SleepsToDeadline ==
  \A c \in Clients :
    pc[c] = "sleep" => elapsed[c] + timer[c] <= Wait /\ timer[c] >= -Lag

IInv ==
  /\ TypeOK
  /\ HoldersInside
  /\ FencesGivenOut
  /\ OwnerHasGreatestFence
  /\ LostIsLost
  /\ AbortMeansLost
  /\ SleepsToDeadline

-----------------------------------------------------------------------------
(* The helpers.                                                            *)

\* A minimum is one of the two and at most both.
LEMMA LeastIsLeast ==
  ASSUME NEW i \in Int, NEW j \in Int
  PROVE  /\ Least(i, j) \in {i, j}
         /\ Least(i, j) <= i /\ Least(i, j) <= j
  BY DEF Least

\* The doubled backoff stays between its bounds.
LEMMA BackoffBounded ==
  ASSUME TypeOK, NEW c \in Clients
  PROVE  NextBase(c) \in MinDelay..MaxDelay
  <1>1. base[c] \in MinDelay..MaxDelay
    BY DEF TypeOK
  <1> QED BY <1>1, LockAssumption DEF NextBase, Least, ValidLockArgs

\* The loop sleeps for no longer than what remains of waitMs, or ends.
LEMMA MissedStep ==
  ASSUME TypeOK, SleepsToDeadline, NEW c \in Clients,
         NEW b \in MinDelay..MaxDelay, Missed(c, elapsed[c], b)
  PROVE  /\ pc' \in [Clients -> Places]
         /\ timer' \in [Clients -> Int]
         /\ elapsed' \in [Clients -> Nat]
         /\ base' \in [Clients -> MinDelay..MaxDelay]
         /\ pc'[c] \in {"sleep", "idle"}
         /\ \A d \in Clients \ {c} : pc'[d] = pc[d]
         /\ SleepsToDeadline'
  <1>0. elapsed[c] \in Nat /\ Wait \in Int /\ Lag \in Nat /\ MaxDelay \in Int
    BY LockAssumption DEF TypeOK, ValidLockArgs
  <1>1. CASE elapsed[c] < Wait /\ Sleep(c, elapsed[c], b)
    <2>1. PICK random \in 0..(Least(MaxDelay, b) - 1) :
            timer' = [timer EXCEPT ![c] = Least(random, Wait - elapsed[c])]
      BY <1>1 DEF Sleep
    <2>2. /\ Least(random, Wait - elapsed[c]) \in Int
          /\ Least(random, Wait - elapsed[c]) >= 0
          /\ elapsed[c] + Least(random, Wait - elapsed[c]) <= Wait
      <3>1. Least(MaxDelay, b) \in Int
        BY <1>0, LockAssumption DEF Least, ValidLockArgs
      <3>2. random \in Int /\ random >= 0
        BY <3>1
      <3> QED BY <1>0, <1>1, <3>2 DEF Least
    <2>3. SleepsToDeadline'
      BY <1>0, <1>1, <2>1, <2>2 DEF Sleep, SleepsToDeadline, TypeOK
    <2> QED BY <1>0, <1>1, <2>1, <2>2, <2>3 DEF Sleep, TypeOK, Places
  <1>2. CASE elapsed[c] >= Wait /\ GiveUp(c)
    <2>1. MinDelay \in MinDelay..MaxDelay
      BY LockAssumption DEF ValidLockArgs
    <2> QED BY <1>2, <2>1 DEF GiveUp, TypeOK, Places, SleepsToDeadline
  <1> QED BY <1>1, <1>2 DEF Missed

\* The same of a caller that gives up.
LEMMA GiveUpStep ==
  ASSUME TypeOK, SleepsToDeadline, NEW c \in Clients, GiveUp(c)
  PROVE  /\ pc' \in [Clients -> Places]
         /\ timer' \in [Clients -> Int]
         /\ elapsed' \in [Clients -> Nat]
         /\ base' \in [Clients -> MinDelay..MaxDelay]
         /\ pc'[c] = "idle"
         /\ \A d \in Clients \ {c} : pc'[d] = pc[d]
         /\ SleepsToDeadline'
  <1>1. MinDelay \in MinDelay..MaxDelay
    BY LockAssumption DEF ValidLockArgs
  <1> QED BY <1>1 DEF GiveUp, TypeOK, Places, SleepsToDeadline

-----------------------------------------------------------------------------
(* IInv is inductive.                                                      *)

\* The key is free and nobody calls.
LEMMA InitInductive == Init => IInv
  BY LockAssumption
     DEF Init, IInv, TypeOK, Places, Renewals, HoldersInside, FencesGivenOut,
         OwnerHasGreatestFence, LostIsLost, AbortMeansLost, SleepsToDeadline,
         ValidLockArgs

\* A tick can free the key; a sleeper's timer loses what elapsed gains.
LEMMA TickInductive ==
  ASSUME IInv, Tick
  PROVE  IInv'
  <1> USE DEF IInv, Tick
  <1>1. TypeOK'
    BY LockAssumption DEF TypeOK, ValidLockArgs
  <1>2. SleepsToDeadline'
    BY LockAssumption DEF SleepsToDeadline, TypeOK, HasTimer, ValidLockArgs
  <1>3. owner' \in {owner, "free"} /\ "free" \notin Clients
    BY LockAssumption
  <1>4. (HoldersInside /\ FencesGivenOut /\ OwnerHasGreatestFence
         /\ LostIsLost /\ AbortMeansLost)'
    BY <1>3 DEF HoldersInside, FencesGivenOut, OwnerHasGreatestFence,
           LostIsLost, AbortMeansLost
  <1> QED BY <1>1, <1>2, <1>4 DEF IInv

\* A caller that begins to try holds nothing.
LEMMA CallInductive ==
  ASSUME IInv, NEW c \in Clients, Call(c)
  PROVE  IInv'
  <1> USE DEF IInv, Call, redis
  <1>1. TypeOK'
    BY DEF TypeOK, Places
  <1>2. (HoldersInside /\ FencesGivenOut /\ OwnerHasGreatestFence
         /\ LostIsLost /\ AbortMeansLost /\ SleepsToDeadline)'
    BY DEF TypeOK, HoldersInside, FencesGivenOut, OwnerHasGreatestFence,
           LostIsLost, AbortMeansLost, SleepsToDeadline
  <1> QED BY <1>1, <1>2 DEF IInv

\* The new owner's token is greater than all that were given out before.
LEMMA EnterInductive ==
  ASSUME IInv, NEW c \in Clients, Enter(c), UNCHANGED <<calls, faults>>
  PROVE  IInv'
  <1> USE DEF IInv, Enter, SetLock
  <1>0. /\ c \notin {"free", "orphan"} /\ TTL \in Nat \ {0} /\ Period \in Int
        /\ MinDelay \in MinDelay..MaxDelay
    BY LockAssumption DEF ValidLockArgs, Period
  <1>1. TypeOK'
    BY <1>0 DEF TypeOK, Places, Renewals
  <1>2. HoldersInside'
    BY DEF HoldersInside, TypeOK
  <1>3. FencesGivenOut' /\ OwnerHasGreatestFence'
    BY DEF FencesGivenOut, OwnerHasGreatestFence, TypeOK
  <1>4. LostIsLost' /\ AbortMeansLost'
    BY DEF LostIsLost, AbortMeansLost, TypeOK
  <1>5. SleepsToDeadline'
    BY DEF SleepsToDeadline, TypeOK
  <1> QED BY <1>1, <1>2, <1>3, <1>4, <1>5 DEF IInv

\* tryOnce enters, or it sleeps or gives up and Redis is as before.
LEMMA AcquireInductive ==
  ASSUME IInv, NEW c \in Clients, Acquire(c)
  PROVE  IInv'
  <1>1. CASE Enter(c)
    BY <1>1, EnterInductive DEF Acquire
  <1>2. CASE ~ Enter(c)
    <2> USE DEF IInv, Acquire, redis
    <2>1. /\ Missed(c, elapsed[c], NextBase(c))
          /\ UNCHANGED <<redis, renewal, fence, aborted>>
      BY <1>2
    <2>2. /\ pc' \in [Clients -> Places]
          /\ timer' \in [Clients -> Int]
          /\ elapsed' \in [Clients -> Nat]
          /\ base' \in [Clients -> MinDelay..MaxDelay]
          /\ pc'[c] \in {"sleep", "idle"}
          /\ \A d \in Clients \ {c} : pc'[d] = pc[d]
          /\ SleepsToDeadline'
      BY <2>1, BackoffBounded, MissedStep
    <2>3. TypeOK'
      BY <2>1, <2>2 DEF TypeOK
    <2>4. pc[c] \in {"try", "sleep"}
      BY DEF TryOnce
    <2>5. (HoldersInside /\ FencesGivenOut /\ OwnerHasGreatestFence
           /\ LostIsLost /\ AbortMeansLost)'
      BY <2>1, <2>2, <2>4
         DEF HoldersInside, FencesGivenOut, OwnerHasGreatestFence, LostIsLost,
             AbortMeansLost
    <2> QED BY <2>2, <2>3, <2>5 DEF IInv
  <1> QED BY <1>1, <1>2

\* What Redis may hold afterwards is nobody's.
LEMMA AcquireFailsInductive ==
  ASSUME IInv, NEW c \in Clients, AcquireFails(c)
  PROVE  IInv'
  <1> USE DEF IInv, AcquireFails, redis, Fault
  <1>1. /\ pc' \in [Clients -> Places]
        /\ timer' \in [Clients -> Int]
        /\ elapsed' \in [Clients -> Nat]
        /\ base' \in [Clients -> MinDelay..MaxDelay]
        /\ pc'[c] \in {"sleep", "idle"}
        /\ \A d \in Clients \ {c} : pc'[d] = pc[d]
        /\ SleepsToDeadline'
    BY BackoffBounded, MissedStep, GiveUpStep
  <1>2. "orphan" \notin Clients /\ TTL \in Nat \ {0}
    BY LockAssumption DEF ValidLockArgs
  <1>3. SetLock("orphan") \/ UNCHANGED redis
    OBVIOUS
  <1>4. TypeOK'
    BY <1>1, <1>2, <1>3 DEF TypeOK, SetLock
  <1>5. owner' \in {owner, "orphan"} /\ counter' >= counter
    BY <1>3 DEF SetLock, TypeOK
  <1>6. pc[c] \in {"try", "sleep"}
    BY DEF TryOnce
  <1>7. (HoldersInside /\ OwnerHasGreatestFence /\ LostIsLost /\ AbortMeansLost)'
    BY <1>1, <1>2, <1>5, <1>6
       DEF HoldersInside, OwnerHasGreatestFence, LostIsLost, AbortMeansLost
  <1>8. FencesGivenOut'
    BY <1>5, <1>4 DEF FencesGivenOut, TypeOK
  <1> QED BY <1>1, <1>4, <1>7, <1>8 DEF IInv

\* extend-lock changes the TTL of the caller's own key and nothing else.
LEMMA ExtendLockStep ==
  ASSUME TypeOK, NEW c \in Clients, ExtendLock(c)
  PROVE  /\ UNCHANGED <<owner, counter>>
         /\ ttl' \in 0..TTL
         /\ owner' = "free" <=> ttl' = 0
  BY LockAssumption DEF ExtendLock, TypeOK, ValidLockArgs

\* The reply "lost" is that of a key that is not the caller's.
LEMMA RenewInductive ==
  ASSUME IInv, NEW c \in Clients, Renew(c)
  PROVE  IInv'
  <1> USE DEF IInv, Renew
  <1>1. /\ UNCHANGED <<owner, counter>> /\ ttl' \in 0..TTL
        /\ owner' = "free" <=> ttl' = 0
    BY ExtendLockStep
  <1>2. TypeOK'
    BY <1>1 DEF TypeOK, Renewals
  <1>3. (HoldersInside /\ FencesGivenOut /\ OwnerHasGreatestFence
         /\ LostIsLost /\ AbortMeansLost /\ SleepsToDeadline)'
    BY <1>1 DEF HoldersInside, FencesGivenOut, OwnerHasGreatestFence,
           LostIsLost, AbortMeansLost, SleepsToDeadline, TypeOK
  <1> QED BY <1>2, <1>3 DEF IInv

\* An error says nothing about the key.
LEMMA RenewFailsInductive ==
  ASSUME IInv, NEW c \in Clients, RenewFails(c)
  PROVE  IInv'
  <1> USE DEF IInv, RenewFails, redis, Fault
  <1>1. /\ UNCHANGED <<owner, counter>> /\ ttl' \in 0..TTL
        /\ owner' = "free" <=> ttl' = 0
    BY ExtendLockStep DEF TypeOK
  <1>2. TypeOK'
    BY <1>1 DEF TypeOK, Renewals
  <1>3. (HoldersInside /\ FencesGivenOut /\ OwnerHasGreatestFence
         /\ LostIsLost /\ AbortMeansLost /\ SleepsToDeadline)'
    BY <1>1 DEF HoldersInside, FencesGivenOut, OwnerHasGreatestFence,
           LostIsLost, AbortMeansLost, SleepsToDeadline, TypeOK
  <1> QED BY <1>2, <1>3 DEF IInv

\* The signal aborts on the reply "lost" only.
LEMMA RenewedInductive ==
  ASSUME IInv, NEW c \in Clients, Renewed(c)
  PROVE  IInv'
  <1> USE DEF IInv, Renewed, redis
  <1>1. TypeOK'
    BY LockAssumption DEF TypeOK, Renewals, Period, ValidLockArgs
  <1>2. AbortMeansLost'
    BY DEF AbortMeansLost, LostIsLost, TypeOK
  <1>3. (HoldersInside /\ FencesGivenOut /\ OwnerHasGreatestFence
         /\ LostIsLost /\ SleepsToDeadline)'
    BY DEF HoldersInside, FencesGivenOut, OwnerHasGreatestFence, LostIsLost,
           SleepsToDeadline, TypeOK
  <1> QED BY <1>1, <1>2, <1>3 DEF IInv

\* As a renewal, but nothing is left to be read.
LEMMA ExtendInductive ==
  ASSUME IInv, NEW c \in Clients, Extend(c)
  PROVE  IInv'
  <1> USE DEF IInv, Extend
  <1>1. /\ UNCHANGED <<owner, counter>> /\ ttl' \in 0..TTL
        /\ owner' = "free" <=> ttl' = 0
    BY ExtendLockStep
  <1>2. TypeOK'
    BY <1>1 DEF TypeOK
  <1>3. (HoldersInside /\ FencesGivenOut /\ OwnerHasGreatestFence
         /\ LostIsLost /\ AbortMeansLost /\ SleepsToDeadline)'
    BY <1>1 DEF HoldersInside, FencesGivenOut, OwnerHasGreatestFence,
           LostIsLost, AbortMeansLost, SleepsToDeadline
  <1> QED BY <1>2, <1>3 DEF IInv

\* The caller still owns its lock while it waits for a renewal's reply.
LEMMA FnEndsInductive ==
  ASSUME IInv, NEW c \in Clients, FnEnds(c)
  PROVE  IInv'
  <1> USE DEF IInv, FnEnds, redis
  <1>1. TypeOK'
    BY DEF TypeOK, Places, Renewals
  <1>2. (HoldersInside /\ FencesGivenOut /\ OwnerHasGreatestFence
         /\ LostIsLost /\ AbortMeansLost /\ SleepsToDeadline)'
    BY DEF HoldersInside, FencesGivenOut, OwnerHasGreatestFence,
           LostIsLost, AbortMeansLost, SleepsToDeadline, TypeOK
  <1> QED BY <1>1, <1>2 DEF IInv

\* A caller that left owns nothing: its key is free, another's, or nobody's.
LEMMA LeaveInductive ==
  ASSUME IInv, NEW c \in Clients, Leave(c),
         renewal' = [renewal EXCEPT ![c] = "off"],
         timer' = [timer EXCEPT ![c] = timer'[c]], timer'[c] \in Int,
         elapsed' \in [Clients -> Nat],
         base' \in [Clients -> MinDelay..MaxDelay],
         \A d \in Clients \ {c} : elapsed'[d] = elapsed[d],
         owner' # c, owner' \in {owner, "free", "orphan"},
         ttl' \in 0..TTL, owner' = "free" <=> ttl' = 0,
         UNCHANGED <<counter, calls>>, faults' \in Nat
  PROVE  IInv'
  <1> USE DEF IInv, Leave
  <1>1. TypeOK'
    BY DEF TypeOK, Places, Renewals
  <1>2. "free" \notin Clients /\ "orphan" \notin Clients
    BY LockAssumption
  <1>3. HoldersInside'
    BY <1>2 DEF HoldersInside, TypeOK
  <1>4. FencesGivenOut'
    BY DEF FencesGivenOut, TypeOK
  <1>5. OwnerHasGreatestFence'
    BY <1>2 DEF OwnerHasGreatestFence, TypeOK
  <1>6. LostIsLost' /\ AbortMeansLost'
    BY <1>2 DEF LostIsLost, AbortMeansLost, TypeOK
  <1>7. SleepsToDeadline'
    BY DEF SleepsToDeadline, TypeOK
  <1> QED BY <1>1, <1>3, <1>4, <1>5, <1>6, <1>7 DEF IInv

\* release-lock deletes the caller's own key and no other.
LEMMA ReleaseLockStep ==
  ASSUME TypeOK, NEW c \in Clients, ReleaseLock(c)
  PROVE  /\ owner' # c /\ owner' \in {owner, "free"}
         /\ ttl' \in 0..TTL
         /\ owner' = "free" <=> ttl' = 0
         /\ UNCHANGED counter
  BY LockAssumption DEF ReleaseLock, TypeOK, ValidLockArgs

\* The caller leaves and its key is deleted.
LEMMA ReleaseInductive ==
  ASSUME IInv, NEW c \in Clients, Release(c)
  PROVE  IInv'
  <1> USE DEF Release
  <1>1. TypeOK
    BY DEF IInv
  <1>2. /\ renewal' = [renewal EXCEPT ![c] = "off"]
        /\ timer' = [timer EXCEPT ![c] = timer'[c]] /\ timer'[c] \in Int
        /\ elapsed' \in [Clients -> Nat]
        /\ base' \in [Clients -> MinDelay..MaxDelay]
        /\ \A d \in Clients \ {c} : elapsed'[d] = elapsed[d]
        /\ UNCHANGED calls /\ faults' \in Nat
    BY <1>1 DEF TypeOK
  <1> QED BY <1>1, <1>2, ReleaseLockStep, LeaveInductive

\* The caller leaves and its key is deleted or stays as nobody's.
LEMMA ReleaseFailsInductive ==
  ASSUME IInv, NEW c \in Clients, ReleaseFails(c)
  PROVE  IInv'
  <1> USE DEF ReleaseFails, Fault
  <1>1. TypeOK
    BY DEF IInv
  <1>2. /\ renewal' = [renewal EXCEPT ![c] = "off"]
        /\ timer' = [timer EXCEPT ![c] = timer'[c]] /\ timer'[c] \in Int
        /\ elapsed' \in [Clients -> Nat]
        /\ base' \in [Clients -> MinDelay..MaxDelay]
        /\ \A d \in Clients \ {c} : elapsed'[d] = elapsed[d]
        /\ UNCHANGED calls /\ faults' \in Nat
    BY <1>1 DEF TypeOK
  <1>3. CASE ReleaseLock(c)
    BY <1>1, <1>2, <1>3, ReleaseLockStep, LeaveInductive
  <1>4. CASE /\ owner' = (IF owner = c THEN "orphan" ELSE owner)
             /\ UNCHANGED <<ttl, counter>>
    <2>1. /\ owner' # c /\ owner' \in {owner, "free", "orphan"}
          /\ ttl' \in 0..TTL
          /\ owner' = "free" <=> ttl' = 0
      BY <1>1, <1>4, LockAssumption DEF TypeOK
    <2> QED BY <1>2, <1>4, <2>1, LeaveInductive
  <1> QED BY <1>3, <1>4

\* The key of a caller that died is nobody's.
LEMMA CrashInductive ==
  ASSUME IInv, NEW c \in Clients, Crash(c)
  PROVE  IInv'
  <1> USE DEF Crash, Fault
  <1>1. TypeOK
    BY DEF IInv
  <1>2. /\ timer' = [timer EXCEPT ![c] = timer'[c]] /\ timer'[c] \in Int
        /\ elapsed' \in [Clients -> Nat]
        /\ base' \in [Clients -> MinDelay..MaxDelay]
        /\ \A d \in Clients \ {c} : elapsed'[d] = elapsed[d]
        /\ faults' \in Nat
    BY <1>1, LockAssumption DEF TypeOK, ValidLockArgs
  <1>3. /\ owner' # c /\ owner' \in {owner, "free", "orphan"}
        /\ ttl' \in 0..TTL
        /\ owner' = "free" <=> ttl' = 0
    BY <1>1, LockAssumption DEF TypeOK
  <1> QED BY <1>2, <1>3, LeaveInductive

\* IInv holds always.
THEOREM Inductive == Spec => []IInv
  <1>1. IInv /\ [Next]_vars => IInv'
    <2> SUFFICES ASSUME IInv, [Next]_vars PROVE IInv'
      OBVIOUS
    <2>1. CASE Tick
      BY <2>1, TickInductive
    <2>2. CASE \E c \in Clients : ClientStep(c) \/ ClientFault(c)
      <3> PICK c \in Clients : ClientStep(c) \/ ClientFault(c)
        BY <2>2
      <3>1. CASE Acquire(c) \/ Renew(c) \/ Renewed(c) \/ Release(c)
        BY <3>1, AcquireInductive, RenewInductive, RenewedInductive,
           ReleaseInductive
      <3>2. CASE Call(c) \/ Extend(c) \/ FnEnds(c)
        BY <3>2, CallInductive, ExtendInductive, FnEndsInductive
      <3>3. CASE AcquireFails(c) \/ RenewFails(c) \/ ReleaseFails(c) \/ Crash(c)
        BY <3>3, AcquireFailsInductive, RenewFailsInductive,
           ReleaseFailsInductive, CrashInductive
      <3> QED BY <3>1, <3>2, <3>3 DEF ClientStep, ClientFault, Progress
    <2>3. CASE UNCHANGED vars
      BY <2>3
         DEF vars, IInv, TypeOK, HoldersInside, FencesGivenOut,
             OwnerHasGreatestFence, LostIsLost, AbortMeansLost, SleepsToDeadline
    <2> QED BY <2>1, <2>2, <2>3 DEF Next
  <1> QED BY <1>1, InitInductive, PTL DEF Spec

-----------------------------------------------------------------------------
(* What follows from it.                                                   *)

\* Every variable keeps its type; the key has a TTL exactly while it exists.
THEOREM TypeCorrect == Spec => []TypeOK
  <1>1. IInv => TypeOK
    BY DEF IInv
  <1> QED BY <1>1, Inductive, PTL

\* However late timers are and whatever fails: of all callers that believe they
\* hold the lock, the one that does has the greatest fencing token.
THEOREM FencingOrders == Spec => []OwnerHasGreatestFence
  <1>1. IInv => OwnerHasGreatestFence
    BY DEF IInv
  <1> QED BY <1>1, Inductive, PTL

\* A caller whose signal aborted does not hold the lock.
THEOREM SignalIsTruthful == Spec => []AbortMeansLost
  <1>1. IInv => AbortMeansLost
    BY DEF IInv
  <1> QED BY <1>1, Inductive, PTL

\* A retry loop that sleeps has spent no more than waitMs, plus one lateness.
THEOREM DeadlineKept == Spec => []WaitKept
  <1>1. IInv => WaitKept
    <2> SUFFICES ASSUME IInv, NEW c \in Clients, pc[c] = "sleep"
                 PROVE  elapsed[c] <= Wait + Lag
      BY DEF WaitKept
    <2>1. elapsed[c] + timer[c] <= Wait /\ timer[c] >= -Lag
      BY DEF IInv, SleepsToDeadline
    <2> QED BY <2>1, LockAssumption DEF IInv, TypeOK, ValidLockArgs
  <1> QED BY <1>1, Inductive, PTL
-----------------------------------------------------------------------------
(* Exclusion while timers are late by less than a quarter of Period.       *)

\* How much longer than its timer the lock of a renewing caller lives.  A
\* renewal that failed costs one Period and the lateness of its reply; the
\* next one is still sent in time.
Lease(c) ==
  /\ owner = c
  /\ timer[c] >= -Lag
  /\ \/ /\ renewal[c] = "ok"
        /\ timer[c] <= 0
        /\ ttl - timer[c] >= 3 * Period
     \/ /\ renewal[c] = "error"
        /\ timer[c] <= 0
        /\ faults >= 1
        /\ ttl - timer[c] >= 2 * Period - 2 * Lag
     \/ /\ renewal[c] = "armed"
        /\ timer[c] <= Period
        /\ \/ ttl - timer[c] >= 2 * Period - Lag
           \/ faults >= 1 /\ ttl - timer[c] >= Period - 3 * Lag

LeaseKept == \A c \in AutoRenew : pc[c] = "fn" => Lease(c)

\* The numbers: TTL is three periods, a period more than four times Lag.
LEMMA Margins ==
  ASSUME 4 * Lag < Period
  PROVE  /\ Period \in Nat \ {0}
         /\ Lag \in Nat
         /\ TTL = 3 * Period
         /\ AutoRenew \subseteq Clients
         /\ "free" \notin Clients /\ "orphan" \notin Clients
  BY LockAssumption DEF Period, ValidLockArgs

\* A lease is as good after a step that takes from the key's life no more than
\* from the timer.
LEMMA LeaseStays ==
  ASSUME IInv, NEW c \in AutoRenew, c \in Clients, Lag \in Nat, Period \in Nat,
         Lease(c), UNCHANGED owner, renewal'[c] = renewal[c],
         timer'[c] \in -Lag..timer[c],
         ttl' \in Int, ttl' - timer'[c] >= ttl - timer[c],
         faults' \in Nat, faults' >= faults
  PROVE  Lease(c)'
  <1>1. ttl \in Int /\ timer[c] \in Int /\ faults \in Nat
    BY DEF IInv, TypeOK
  <1> QED BY <1>1 DEF Lease

\* No lock that is renewed runs out: with its timer less late than it may be,
\* it has a tick to live after this one.
LEMMA TickKeepsLease ==
  ASSUME 4 * Lag < Period, IInv, LeaseKept, Tick
  PROVE  LeaseKept'
  <1> SUFFICES ASSUME NEW c \in AutoRenew, pc'[c] = "fn"
               PROVE  Lease(c)'
    BY DEF LeaseKept
  <1>1. /\ Lease(c) /\ c \in Clients /\ ttl \in Int /\ timer[c] \in Int
        /\ faults \in Nat
    BY Margins DEF LeaseKept, Tick, IInv, TypeOK
  <1>2. HasTimer(c)
    BY <1>1 DEF HasTimer, Lease
  <1>3. timer[c] > -Lag /\ timer'[c] = timer[c] - 1
    BY <1>1, <1>2 DEF Tick, IInv, TypeOK
  <1>4. ttl > 1
    BY <1>1, <1>3, Margins DEF Lease
  <1>5. UNCHANGED <<owner, renewal, faults>> /\ ttl' = ttl - 1
    BY <1>1, <1>4 DEF Tick
  <1> QED BY <1>1, <1>3, <1>5, LeaseStays, Margins

\* A step of d outside fn that changes no key but d's own.
LEMMA OthersKeepLease ==
  ASSUME 4 * Lag < Period, IInv, LeaseKept, NEW d \in Clients,
         pc'[d] # "fn", ttl' \in Int, faults' \in Nat, faults' >= faults,
         \A c \in Clients \ {d} :
           /\ pc'[c] = pc[c] /\ timer'[c] = timer[c]
           /\ renewal'[c] = renewal[c]
           /\ owner = c => UNCHANGED <<owner, ttl>>
  PROVE  LeaseKept'
  <1> SUFFICES ASSUME NEW c \in AutoRenew, pc'[c] = "fn"
               PROVE  Lease(c)'
    BY DEF LeaseKept
  <1>1. c \in Clients \ {d} /\ Lease(c)
    BY Margins DEF LeaseKept
  <1>2. owner = c /\ timer[c] >= -Lag /\ timer[c] \in Int
    BY <1>1 DEF Lease, IInv, TypeOK
  <1> QED BY <1>1, <1>2, LeaseStays, Margins

\* A renewing caller enters with the whole TTL before it; nobody else can.
LEMMA AcquireKeepsLease ==
  ASSUME 4 * Lag < Period, IInv, LeaseKept, NEW d \in Clients,
         Acquire(d) \/ AcquireFails(d)
  PROVE  LeaseKept'
  <1>1. CASE Enter(d) /\ UNCHANGED faults
    BY <1>1, Margins DEF LeaseKept, Lease, Enter, SetLock, IInv, TypeOK
  <1>2. CASE ~ (Enter(d) /\ UNCHANGED faults)
    <2>1. Missed(d, elapsed[d], NextBase(d)) \/ GiveUp(d)
      BY <1>2 DEF Acquire, AcquireFails
    <2>2. /\ pc'[d] # "fn"
          /\ \A c \in Clients \ {d} : pc'[c] = pc[c] /\ timer'[c] = timer[c]
      BY <2>1 DEF Missed, Sleep, GiveUp, IInv, TypeOK
    <2>3. /\ UNCHANGED renewal
          /\ SetLock("orphan") \/ UNCHANGED <<owner, ttl>>
      BY <1>2 DEF Acquire, AcquireFails, redis
    <2>4. IInv'
      BY AcquireInductive, AcquireFailsInductive
    <2>5. faults' \in Nat /\ faults' >= faults
      BY <2>4 DEF Acquire, AcquireFails, Fault, IInv, TypeOK
    <2>6. /\ ttl' \in Int
          /\ \A c \in Clients : owner = c => UNCHANGED <<owner, ttl>>
      BY <2>3, <2>4, Margins DEF SetLock, IInv, TypeOK
    <2> QED BY <2>2, <2>3, <2>5, <2>6, OthersKeepLease
  <1> QED BY <1>1, <1>2

\* A renewal gives the key its whole TTL; one that fails, and only one can,
\* leaves it what it had.
LEMMA RenewKeepsLease ==
  ASSUME 4 * Lag < Period, MaxFaults <= 1, IInv, LeaseKept, NEW d \in Clients,
         Renew(d) \/ RenewFails(d) \/ Renewed(d) \/ Extend(d)
  PROVE  LeaseKept'
  <1> SUFFICES ASSUME NEW c \in AutoRenew, pc'[c] = "fn"
               PROVE  Lease(c)'
    BY DEF LeaseKept
  <1>0. /\ Lease(c) /\ c \in Clients /\ ttl \in Int /\ timer[c] \in Int
        /\ faults \in Nat
    BY Margins DEF LeaseKept, Renew, RenewFails, Renewed, Extend, IInv, TypeOK
  <1>1. CASE Extend(d)
    BY <1>0, <1>1, Margins DEF Extend, ExtendLock, Lease
  <1>2. CASE c # d /\ ~ Extend(d)
    <2>1. UNCHANGED <<owner, ttl>>
      BY <1>0, <1>2 DEF Renew, RenewFails, Renewed, ExtendLock, redis, Lease
    <2>2. timer'[c] = timer[c] /\ renewal'[c] = renewal[c]
      BY <1>0, <1>2 DEF Renew, RenewFails, Renewed, IInv, TypeOK
    <2>3. faults' \in Nat /\ faults' >= faults
      BY <1>0, <1>2 DEF Renew, RenewFails, Renewed, Fault
    <2>4. timer'[c] \in -Lag..timer[c]
      BY <1>0, <2>2, Margins DEF Lease
    <2> QED BY <1>0, <2>1, <2>2, <2>3, <2>4, LeaseStays, Margins
  <1>3. CASE c = d /\ Renew(d)
    BY <1>0, <1>3, Margins DEF Renew, ExtendLock, Lease, IInv, TypeOK
  <1>4. CASE c = d /\ RenewFails(d)
    BY <1>0, <1>4, Margins, LockAssumption
       DEF RenewFails, ExtendLock, Fault, redis, Lease, IInv, TypeOK
  <1>5. CASE c = d /\ Renewed(d)
    BY <1>0, <1>5, Margins DEF Renewed, redis, Lease, IInv, TypeOK
  <1> QED BY <1>1, <1>2, <1>3, <1>4, <1>5

\* Leaving touches no other caller's lock.
LEMMA LeaveKeepsLease ==
  ASSUME 4 * Lag < Period, IInv, LeaseKept, NEW d \in Clients,
         Call(d) \/ FnEnds(d) \/ Release(d) \/ ReleaseFails(d) \/ Crash(d)
  PROVE  LeaseKept'
  <1>1. /\ pc'[d] # "fn"
        /\ \A c \in Clients \ {d} :
             /\ pc'[c] = pc[c] /\ timer'[c] = timer[c]
             /\ renewal'[c] = renewal[c]
    BY DEF Call, FnEnds, Release, ReleaseFails, Crash, Leave, IInv, TypeOK
  <1>2. /\ ttl' \in Int
        /\ \A c \in Clients \ {d} : owner = c => UNCHANGED <<owner, ttl>>
    BY Margins
       DEF Call, FnEnds, Release, ReleaseFails, Crash, ReleaseLock, redis,
           IInv, TypeOK
  <1>3. faults' \in Nat /\ faults' >= faults
    BY DEF Call, FnEnds, Release, ReleaseFails, Crash, Fault, IInv, TypeOK
  <1> QED BY <1>1, <1>2, <1>3, OthersKeepLease

\* With prompt timers and one fault at most, callers that renew exclude each
\* other, however long fn takes and however many they are.
THEOREM RenewalExcludes ==
  ASSUME 4 * Lag < Period, MaxFaults <= 1
  PROVE  Spec => []ExclusiveWhileRenewed
  <1>1. Init => LeaseKept
    BY LockAssumption DEF Init, LeaseKept
  <1>2. IInv /\ LeaseKept /\ [Next]_vars => LeaseKept'
    <2> SUFFICES ASSUME IInv, LeaseKept, [Next]_vars PROVE LeaseKept'
      OBVIOUS
    <2>1. CASE UNCHANGED vars
      BY <2>1 DEF vars, LeaseKept, Lease
    <2>2. CASE Next
      BY <2>2, TickKeepsLease, AcquireKeepsLease, RenewKeepsLease,
         LeaveKeepsLease
         DEF Next, ClientStep, ClientFault, Progress
    <2> QED BY <2>1, <2>2
  <1>3. LeaseKept => ExclusiveWhileRenewed
    BY DEF LeaseKept, Lease, ExclusiveWhileRenewed
  <1> QED BY <1>1, <1>2, <1>3, Inductive, PTL DEF Spec

-----------------------------------------------------------------------------
(* The watchdog never gives up by itself.                                  *)

\* The safety half of LostLockIsNoticed: while fn runs and the signal has not
\* aborted, there is a renewal on its way or a timer for the next one, due
\* within a period, however many renewals were rejected or late before.
WatchdogWatches ==
  \A c \in AutoRenew :
    pc[c] = "fn" /\ ~aborted[c] =>
      /\ renewal[c] # "off"
      /\ timer[c] \in -Lag..(IF renewal[c] = "armed" THEN Period ELSE 0)

\* A period is a number of ticks.
LEMMA PeriodIsNat == Period \in Nat /\ Lag \in Nat /\ AutoRenew \subseteq Clients
  BY LockAssumption DEF Period, ValidLockArgs

\* A caller's step leaves the watchdogs of all others as they are.
LEMMA OthersWatch ==
  ASSUME TypeOK, NEW d \in Clients, ClientStep(d) \/ ClientFault(d)
  PROVE  \A c \in Clients \ {d} :
           /\ pc'[c] = pc[c] /\ timer'[c] = timer[c]
           /\ renewal'[c] = renewal[c] /\ aborted'[c] = aborted[c]
  <1>1. CASE Acquire(d) \/ AcquireFails(d)
    BY <1>1
       DEF TypeOK, Acquire, AcquireFails, Enter, Missed, Sleep, GiveUp
  <1>2. CASE \/ Call(d) \/ Extend(d) \/ FnEnds(d) \/ Renew(d) \/ Renewed(d)
             \/ Release(d) \/ RenewFails(d) \/ ReleaseFails(d) \/ Crash(d)
    BY <1>2
       DEF TypeOK, Call, Extend, FnEnds, Renew, Renewed, Release, RenewFails,
           ReleaseFails, Crash, Leave
  <1> QED BY <1>1, <1>2 DEF ClientStep, ClientFault, Progress

\* Nor does a caller's own step leave fn unwatched.
LEMMA WatchStep ==
  ASSUME IInv, WatchdogWatches, [Next]_vars
  PROVE  WatchdogWatches'
  <1> USE PeriodIsNat
  <1>1. CASE UNCHANGED vars
    BY <1>1 DEF vars, WatchdogWatches
  <1>2. CASE Tick
    BY <1>2 DEF Tick, HasTimer, WatchdogWatches, IInv, TypeOK
  <1>3. ASSUME NEW d \in Clients, ClientStep(d) \/ ClientFault(d)
        PROVE  WatchdogWatches'
    <2> SUFFICES ASSUME d \in AutoRenew, pc'[d] = "fn", ~aborted'[d]
                 PROVE  /\ renewal'[d] # "off"
                        /\ timer'[d] \in -Lag..(IF renewal'[d] = "armed"
                                                THEN Period ELSE 0)
      BY <1>3, OthersWatch DEF WatchdogWatches, IInv
    <2>1. CASE Acquire(d) \/ AcquireFails(d)
      BY <2>1
         DEF IInv, TypeOK, Acquire, AcquireFails, TryOnce, Enter, Missed, Sleep,
             GiveUp
    <2>2. CASE Renew(d) \/ RenewFails(d)
      BY <2>2 DEF IInv, TypeOK, Renew, RenewFails
    <2>3. CASE Renewed(d)
      <3>1. renewal[d] # "lost" /\ pc[d] = "fn"
        BY <2>3 DEF IInv, TypeOK, Renewed
      <3>2. renewal'[d] = "armed" /\ timer'[d] = Period
        BY <2>3, <3>1 DEF IInv, TypeOK, Renewed
      <3> QED BY <3>2
    <2>4. CASE Extend(d)
      BY <2>4 DEF WatchdogWatches, Extend
    <2>5. CASE \/ Call(d) \/ FnEnds(d) \/ Release(d) \/ ReleaseFails(d)
               \/ Crash(d)
      BY <2>5
         DEF IInv, TypeOK, Call, FnEnds, Release, ReleaseFails, Crash, Leave
    <2> QED
      BY <1>3, <2>1, <2>2, <2>3, <2>4, <2>5 DEF ClientStep, ClientFault, Progress
  <1> QED BY <1>1, <1>2, <1>3 DEF Next

\* No fn with autoRenew runs unwatched, so that a lost lock is found by the next
\* renewal that Redis answers; that one comes is the liveness left to TLC.
THEOREM NeverUnwatched == Spec => []WatchdogWatches
  <1>1. Init => WatchdogWatches
    BY PeriodIsNat DEF Init, WatchdogWatches
  <1> QED BY <1>1, WatchStep, Inductive, PTL DEF Spec
=============================================================================
