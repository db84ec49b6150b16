----------------------------- MODULE LockHolder -----------------------------
(***************************************************************************)
(* with-lock.decorator.ts: the module-level reference to the LockService,  *)
(* which RedisModule sets and clears as application contexts of one        *)
(* process come and go, and the methods decorated with @WithLock.          *)
(***************************************************************************)
EXTENDS Integers, Sequences

CONSTANTS
  Contexts,  \* application contexts; each has its own LockService
  Nil,       \* no LockService
  MaxOpens   \* bound: contexts opened

ASSUME HolderAssumption == Nil \notin Contexts /\ MaxOpens \in Nat

VARIABLES
  lockServiceRef,  \* the reference; a service goes by its context's name
  live,            \* contexts between onModuleInit and onModuleDestroy
  opened,          \* history: contexts in the order of their onModuleInit
  lastCall         \* what became of the latest call of a decorated method

hVars == <<lockServiceRef, live, opened, lastCall>>

HTypeOK ==
  /\ lockServiceRef \in Contexts \union {Nil}
  /\ live \in SUBSET Contexts
  /\ opened \in Seq(Contexts)
  /\ lastCall \in {"none", "locked", "not bootstrapped", "type error"}

HInit ==
  /\ lockServiceRef = Nil
  /\ live = {}
  /\ opened = <<>>
  /\ lastCall = "none"

\* onModuleInit, which overwrites the reference of another context.  A context
\* is created anew each time.
OnModuleInit(c) ==
  /\ Len(opened) < MaxOpens
  /\ c \notin live
  /\ lockServiceRef' = c
  /\ live' = live \union {c}
  /\ opened' = Append(opened, c)
  /\ UNCHANGED lastCall

\* Mutant: any context that goes clears the reference.
ClearsAny(c) == lockServiceRef' = Nil

\* clearLockServiceRef
Clears(c) == lockServiceRef' = IF lockServiceRef = c THEN Nil ELSE lockServiceRef

\* onModuleDestroy clears the reference before it closes the connection.
OnModuleDestroy(c) ==
  /\ c \in live
  /\ Clears(c)
  /\ live' = live \ {c}
  /\ UNCHANGED <<opened, lastCall>>

\* withLock, which calls this.acquire; the lock is free.
WithLock(this) == IF this = Nil THEN "type error" ELSE "locked"

\* The wrapper: const withLock = getLockServiceRef().withLock, and then
\* withLock(...) without the service it belongs to.
CallDecorated ==
  /\ lastCall' = IF lockServiceRef = Nil THEN "not bootstrapped"
                                         ELSE WithLock(Nil)
  /\ UNCHANGED <<lockServiceRef, live, opened>>

HNext ==
  \/ \E c \in Contexts : OnModuleInit(c) \/ OnModuleDestroy(c)
  \/ CallDecorated

HSpec == HInit /\ [][HNext]_hVars

-----------------------------------------------------------------------------
(* Properties.                                                             *)

\* The reference is the service of the context opened last, while that one is
\* live, and nothing afterwards: neither the shutdown of an older context takes
\* it away, nor is it ever left to a service whose connection is closed.
RefIsLatest ==
  LET latestOpened == IF opened = <<>> THEN Nil ELSE opened[Len(opened)]
  IN  lockServiceRef = IF latestOpened \in live THEN latestOpened ELSE Nil

\* A decorated method runs under its lock when RedisModule is loaded and the
\* lock is free ("getLockServiceRef().withLock(key, …)").
DecoratedMethodRuns == lastCall # "type error"
=============================================================================
