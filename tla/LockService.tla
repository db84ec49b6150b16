---------------------------- MODULE LockService ----------------------------
(***************************************************************************)
(* RedisLockService for one key: acquire with its retry loop, withLock, the*)
(* watchdog that renews a lock, the fencing counter, and the Lua scripts,  *)
(* which Redis runs atomically.                                            *)
(*                                                                         *)
(* Time is discrete.  A timer that is due, and the reply to a renewal, may *)
(* be late by up to Lag ticks (a busy event loop, a slow network); the TTL *)
(* of the key is kept by Redis and is never late.  Faults are a process    *)
(* that dies and a Redis command that rejects, with or without having run. *)
(***************************************************************************)
EXTENDS Integers

CONSTANTS
  Clients,    \* callers of withLock, each in a process of its own
  AutoRenew,  \* those that pass autoRenew
  TTL,        \* ttlMs
  Wait,       \* retry.waitMs; 0 stands for no retry option too
  MinDelay,   \* retry.minDelayMs
  MaxDelay,   \* retry.maxDelayMs
  Lag,        \* bound: how late a timer or a renewal's reply can be
  MaxCalls,   \* bound: calls of withLock in one behaviour
  MaxFaults   \* bound: faults in one behaviour

\* validateLockArgs.
ValidLockArgs ==
  /\ TTL \in Nat \ {0}
  /\ Wait \in Nat
  /\ MinDelay \in Nat \ {0}
  /\ MaxDelay \in Nat /\ MaxDelay >= MinDelay

\* Period is a whole number of ticks.
ASSUME LockAssumption ==
  /\ ValidLockArgs
  /\ AutoRenew \subseteq Clients
  /\ {"free", "orphan"} \intersect Clients = {}
  /\ TTL % 3 = 0
  /\ Lag \in Nat
  /\ MaxCalls \in Nat
  /\ MaxFaults \in Nat

Period == TTL \div 3

VARIABLES
  \* Redis
  owner,    \* whose token lock:<key> holds; "orphan": nobody's any more
  ttl,      \* ticks until Redis expires the key
  counter,  \* lock:fence:<key>
  \* the callers
  pc,       \* pc[c]: where withLock stands; fn runs at "fn"
  timer,    \* timer[c]: ticks until c's timer (or reply) is due, late if < 0
  elapsed,  \* elapsed[c]: ticks since the retry loop started
  base,     \* base[c]: the backoff of the retry loop
  renewal,  \* renewal[c]: the watchdog of c, and what Redis replied to it
  fence,    \* fence[c]: the fencing token c was given
  aborted,  \* aborted[c]: lock.signal
  \* bounds
  calls,    \* calls so far
  faults    \* faults so far

redis == <<owner, ttl, counter>>
vars  == <<owner, ttl, counter, pc, timer, elapsed, base, renewal, fence,
           aborted, calls, faults>>

Places   == {"idle", "try", "sleep", "fn", "stop"}
Renewals == {"off", "armed", "ok", "lost", "error"}

TypeOK ==
  /\ owner \in Clients \union {"free", "orphan"}
  /\ ttl \in 0..TTL
  /\ owner = "free" <=> ttl = 0
  /\ counter \in Nat
  /\ pc \in [Clients -> Places]
  /\ timer \in [Clients -> Int]
  /\ elapsed \in [Clients -> Nat]
  /\ base \in [Clients -> MinDelay..MaxDelay]
  /\ renewal \in [Clients -> Renewals]
  /\ fence \in [Clients -> Nat]
  /\ aborted \in [Clients -> BOOLEAN]
  /\ calls \in Nat
  /\ faults \in Nat

Init ==
  /\ owner = "free"
  /\ ttl = 0
  /\ counter = 0
  /\ pc = [c \in Clients |-> "idle"]
  /\ timer = [c \in Clients |-> 0]
  /\ elapsed = [c \in Clients |-> 0]
  /\ base = [c \in Clients |-> MinDelay]
  /\ renewal = [c \in Clients |-> "off"]
  /\ fence = [c \in Clients |-> 0]
  /\ aborted = [c \in Clients |-> FALSE]
  /\ calls = 0
  /\ faults = 0

-----------------------------------------------------------------------------
(* The Lua scripts.  token is a caller, whose current token it stands for. *)

\* Mutant: the fencing counter is not incremented.
SetLockUnfenced(token) ==
  /\ owner = "free"
  /\ owner' = token
  /\ ttl' = TTL
  /\ UNCHANGED counter

\* acquire-lock, where the key is free: SET NX PX and INCR.
SetLock(token) ==
  /\ owner = "free"
  /\ owner' = token
  /\ ttl' = TTL
  /\ counter' = counter + 1

\* extend-lock.  It renews the token's own lock only.
ExtendLock(token) ==
  /\ ttl' = IF owner = token THEN TTL ELSE ttl
  /\ UNCHANGED <<owner, counter>>

\* Mutant: the key is overwritten, not deleted.
ReleaseLockKeepsKey(token) ==
  /\ owner' = IF owner = token THEN "free" ELSE owner
  /\ UNCHANGED <<ttl, counter>>

\* release-lock.
ReleaseLock(token) ==
  /\ IF owner = token
     THEN owner' = "free" /\ ttl' = 0
     ELSE UNCHANGED <<owner, ttl>>
  /\ UNCHANGED counter

-----------------------------------------------------------------------------
(* Time.                                                                   *)

HasTimer(c) == pc[c] = "sleep" \/ renewal[c] # "off"

Tick ==
  /\ \A c \in Clients : HasTimer(c) => timer[c] > -Lag
  /\ ttl > 0 \/ \E c \in Clients : HasTimer(c)
  /\ ttl' = IF ttl > 0 THEN ttl - 1 ELSE 0
  /\ owner' = IF ttl <= 1 THEN "free" ELSE owner
  /\ timer' = [c \in Clients |-> IF HasTimer(c) THEN timer[c] - 1 ELSE timer[c]]
  /\ elapsed' = [c \in Clients |-> IF pc[c] = "sleep" THEN elapsed[c] + 1
                                   ELSE elapsed[c]]
  /\ UNCHANGED <<counter, pc, base, renewal, fence, aborted, calls, faults>>

-----------------------------------------------------------------------------
(* acquire.                                                                *)

Fault == faults < MaxFaults /\ faults' = faults + 1

Call(c) ==
  /\ pc[c] = "idle"
  /\ calls < MaxCalls
  /\ calls' = calls + 1
  /\ pc' = [pc EXCEPT ![c] = "try"]
  /\ UNCHANGED <<redis, timer, elapsed, base, renewal, fence, aborted, faults>>

\* A lock was acquired: buildLock starts the watchdog and fn is called.
Enter(c) ==
  /\ SetLock(c)
  /\ fence' = [fence EXCEPT ![c] = counter']
  /\ pc' = [pc EXCEPT ![c] = "fn"]
  /\ renewal' = [renewal EXCEPT ![c] = IF c \in AutoRenew THEN "armed" ELSE "off"]
  /\ timer' = [timer EXCEPT ![c] = IF c \in AutoRenew THEN Period ELSE 0]
  /\ aborted' = [aborted EXCEPT ![c] = FALSE]
  /\ elapsed' = [elapsed EXCEPT ![c] = 0]
  /\ base' = [base EXCEPT ![c] = MinDelay]

Least(i, j) == IF i < j THEN i ELSE j

\* Mutant: the delay is not capped by the time that remains.
SleepUncapped(c, spent, b) ==
  /\ \E random \in 0..(Least(MaxDelay, b) - 1) :
       timer' = [timer EXCEPT ![c] = random]
  /\ pc' = [pc EXCEPT ![c] = "sleep"]
  /\ elapsed' = [elapsed EXCEPT ![c] = spent]
  /\ base' = [base EXCEPT ![c] = b]

\* The retry loop goes to sleep, having spent so much of waitMs.
Sleep(c, spent, b) ==
  /\ \E random \in 0..(Least(MaxDelay, b) - 1) :
       timer' = [timer EXCEPT ![c] = Least(random, Wait - spent)]
  /\ pc' = [pc EXCEPT ![c] = "sleep"]
  /\ elapsed' = [elapsed EXCEPT ![c] = spent]
  /\ base' = [base EXCEPT ![c] = b]

\* acquire resolves to null (or rejects): withLock throws or returns.
GiveUp(c) ==
  /\ pc' = [pc EXCEPT ![c] = "idle"]
  /\ timer' = [timer EXCEPT ![c] = 0]
  /\ elapsed' = [elapsed EXCEPT ![c] = 0]
  /\ base' = [base EXCEPT ![c] = MinDelay]

\* Mutant: the deadline is computed anew for each sleep.
MissedAnew(c, spent, b) ==
  \/ Wait > 0 /\ Sleep(c, 0, b)
  \/ Wait = 0 /\ GiveUp(c)

\* tryOnce found the key taken, after so much of waitMs and with backoff b
\* next: on with the loop, or out of it.
Missed(c, spent, b) ==
  \/ spent < Wait /\ Sleep(c, spent, b)
  \/ spent >= Wait /\ GiveUp(c)

\* tryOnce, the first time and after each sleep; the backoff doubles.
TryOnce(c) ==
  \/ pc[c] = "try"
  \/ pc[c] = "sleep" /\ timer[c] <= 0

NextBase(c) == IF pc[c] = "try" THEN MinDelay ELSE Least(2 * base[c], MaxDelay)

Acquire(c) ==
  /\ TryOnce(c)
  /\ \/ Enter(c)
     \/ /\ owner # "free"
        /\ Missed(c, elapsed[c], NextBase(c))
        /\ UNCHANGED <<redis, renewal, fence, aborted>>
  /\ UNCHANGED <<calls, faults>>

\* The command rejects; or its reply is lost, the client sends it again and
\* reads nil.  Redis may hold a token that nobody knows.
AcquireFails(c) ==
  /\ TryOnce(c)
  /\ Fault
  /\ \/ GiveUp(c) /\ (SetLock("orphan") \/ UNCHANGED redis)
     \/ Missed(c, elapsed[c], NextBase(c)) /\ SetLock("orphan")
  /\ UNCHANGED <<renewal, fence, aborted, calls>>

-----------------------------------------------------------------------------
(* The watchdog.  It is armed, or its extend is on the way with its reply  *)
(* still to be read: "ok", "lost" or "error".                              *)

Renew(c) ==
  /\ renewal[c] = "armed"
  /\ timer[c] <= 0
  /\ ExtendLock(c)
  /\ renewal' = [renewal EXCEPT ![c] = IF owner = c THEN "ok" ELSE "lost"]
  /\ timer' = [timer EXCEPT ![c] = 0]
  /\ UNCHANGED <<pc, elapsed, base, fence, aborted, calls, faults>>

\* extend rejects; Redis has run it or not.
RenewFails(c) ==
  /\ renewal[c] = "armed"
  /\ timer[c] <= 0
  /\ Fault
  /\ ExtendLock(c) \/ UNCHANGED redis
  /\ renewal' = [renewal EXCEPT ![c] = "error"]
  /\ timer' = [timer EXCEPT ![c] = 0]
  /\ UNCHANGED <<pc, elapsed, base, fence, aborted, calls>>

\* Mutants: a renewal that rejects ends the watchdog, or aborts the signal.
RenewedUntilError(c) ==
  /\ renewal[c] \in {"ok", "lost", "error"}
  /\ aborted' = [aborted EXCEPT ![c] = @ \/ renewal[c] = "lost"]
  /\ renewal' = [renewal EXCEPT ![c] =
                   IF @ = "ok" /\ pc[c] = "fn" THEN "armed" ELSE "off"]
  /\ timer' = [timer EXCEPT ![c] =
                 IF renewal[c] = "ok" /\ pc[c] = "fn" THEN Period ELSE 0]
  /\ UNCHANGED <<redis, pc, elapsed, base, fence, calls, faults>>

RenewedOrAborted(c) ==
  /\ renewal[c] \in {"ok", "lost", "error"}
  /\ aborted' = [aborted EXCEPT ![c] = @ \/ renewal[c] # "ok"]
  /\ renewal' = [renewal EXCEPT ![c] = "off"]
  /\ timer' = [timer EXCEPT ![c] = 0]
  /\ UNCHANGED <<redis, pc, elapsed, base, fence, calls, faults>>

\* The reply is read: a lost lock aborts the signal and ends the watchdog, an
\* error is logged; the next renewal is scheduled unless it was stopped.
Renewed(c) ==
  /\ renewal[c] \in {"ok", "lost", "error"}
  /\ aborted' = [aborted EXCEPT ![c] = @ \/ renewal[c] = "lost"]
  /\ renewal' = [renewal EXCEPT ![c] =
                   IF @ # "lost" /\ pc[c] = "fn" THEN "armed" ELSE "off"]
  /\ timer' = [timer EXCEPT ![c] =
                 IF renewal[c] # "lost" /\ pc[c] = "fn" THEN Period ELSE 0]
  /\ UNCHANGED <<redis, pc, elapsed, base, fence, calls, faults>>

-----------------------------------------------------------------------------
(* fn, and release in the finally block.                                   *)

\* lock.extend, called by fn.
Extend(c) ==
  /\ pc[c] = "fn"
  /\ ExtendLock(c)
  /\ UNCHANGED <<pc, timer, elapsed, base, renewal, fence, aborted, calls, faults>>

\* fn settles.  watchdog.stop clears an armed timer; it waits for a renewal
\* that is on its way.
FnEnds(c) ==
  /\ pc[c] = "fn"
  /\ pc' = [pc EXCEPT ![c] = "stop"]
  /\ renewal' = [renewal EXCEPT ![c] = IF @ = "armed" THEN "off" ELSE @]
  /\ timer' = [timer EXCEPT ![c] = IF renewal[c] = "armed" THEN 0 ELSE @]
  /\ UNCHANGED <<redis, elapsed, base, fence, aborted, calls, faults>>

Leave(c) ==
  /\ pc' = [pc EXCEPT ![c] = "idle"]
  /\ fence' = [fence EXCEPT ![c] = 0]
  /\ aborted' = [aborted EXCEPT ![c] = FALSE]

Release(c) ==
  /\ pc[c] = "stop"
  /\ renewal[c] = "off"
  /\ ReleaseLock(c)
  /\ Leave(c)
  /\ UNCHANGED <<timer, elapsed, base, renewal, calls, faults>>

\* release rejects, and withLock with it, whatever fn returned.
ReleaseFails(c) ==
  /\ pc[c] = "stop"
  /\ renewal[c] = "off"
  /\ Fault
  /\ \/ ReleaseLock(c)
     \/ owner' = (IF owner = c THEN "orphan" ELSE owner) /\ UNCHANGED <<ttl, counter>>
  /\ Leave(c)
  /\ UNCHANGED <<timer, elapsed, base, renewal, calls>>

Crash(c) ==
  /\ pc[c] # "idle"
  /\ Fault
  /\ owner' = IF owner = c THEN "orphan" ELSE owner
  /\ Leave(c)
  /\ renewal' = [renewal EXCEPT ![c] = "off"]
  /\ timer' = [timer EXCEPT ![c] = 0]
  /\ elapsed' = [elapsed EXCEPT ![c] = 0]
  /\ base' = [base EXCEPT ![c] = MinDelay]
  /\ UNCHANGED <<ttl, counter, calls>>

Progress(c) == Acquire(c) \/ Renew(c) \/ Renewed(c) \/ Release(c)

ClientStep(c) == Call(c) \/ Extend(c) \/ FnEnds(c) \/ Progress(c)

ClientFault(c) ==
  AcquireFails(c) \/ RenewFails(c) \/ ReleaseFails(c) \/ Crash(c)

Next == Tick \/ \E c \in Clients : ClientStep(c) \/ ClientFault(c)

Spec == Init /\ [][Next]_vars

\* Time passes, due timers fire and replies are read.  fn need not end.
FairSpec ==
  Spec /\ WF_vars(Tick) /\ \A c \in Clients : WF_vars(Progress(c))

-----------------------------------------------------------------------------
(* Properties.                                                             *)

\* While timers and replies are late by less than a quarter of Period, the
\* watchdog keeps a lock through a renewal that fails: no two callers run fn
\* at once, however long fn takes.  (The margin is what period = ttlMs / 3
\* buys: the second renewal still comes before the TTL ends.)
ExclusiveWhileRenewed ==
  \A c, d \in AutoRenew : pc[c] = "fn" /\ pc[d] = "fn" => c = d

\* When exclusion is lost the fencing token tells who came last: the caller
\* whose token is in Redis has a greater one than every other caller that
\* still believes it holds the lock.
OwnerHasGreatestFence ==
  \A c, d \in Clients :
    c # d /\ owner = c /\ pc[d] \in {"fn", "stop"} => fence[d] < fence[c]

\* lock.signal raises no false alarm: an aborted caller's lock is gone, even
\* if the reply was read late or a renewal rejected before.
AbortMeansLost == \A c \in Clients : aborted[c] => owner # c

\* The retry loop keeps its deadline: apart from a late timer, its sleeps take
\* no longer than waitMs together.
WaitKept == \A c \in Clients : pc[c] = "sleep" => elapsed[c] <= Wait + Lag

\* A caller with autoRenew that lost its lock is told so, if fn still runs.
LostLockIsNoticed ==
  \A c \in AutoRenew :
    pc[c] = "fn" /\ owner # c ~> aborted[c] \/ pc[c] # "fn"

\* acquire with retry comes back, even when each random delay is zero.
AcquireEnds == \A c \in Clients : pc[c] = "sleep" ~> pc[c] # "sleep"
=============================================================================
