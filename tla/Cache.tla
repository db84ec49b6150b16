------------------------------- MODULE Cache -------------------------------
(***************************************************************************)
(* RedisCacheService on one key: get, set, del and getOrSet, used as       *)
(* cache-aside.  What is cached is a row of some other store, which        *)
(* changes; whoever changes it deletes the key afterwards.                 *)
(*                                                                         *)
(* getOrSet goes from GET to the factory to SET, and anything may come     *)
(* between.  get and a getOrSet that hits change nothing: they return what *)
(* the entry holds.  Time is discrete.                                     *)
(***************************************************************************)
EXTENDS Integers, FiniteSets

CONSTANTS
  Fills,      \* calls of getOrSet or set that can be in progress at once
  MaxWrites,  \* bound: changes of the row
  TTL,        \* the longest TTL that a caller passes
  MaxFill,    \* the longest time from reading the row to Redis's SET
  MaxClock    \* bound: the time

\* Contents the row has had, in order.
Versions == 0..MaxWrites

NoEntry == -1

ASSUME CacheAssumption ==
  /\ MaxWrites \in Nat /\ TTL \in Nat \ {0} /\ MaxFill \in Nat /\ MaxClock \in Nat

VARIABLES
  clock,     \* the time
  row,       \* the version the row holds
  changed,   \* changed[v]: when version v was replaced
  owedDels,  \* changes of the row whose del has not come yet
  entry,     \* the version in the cache, or NoEntry
  expiry,    \* when the entry expires
  fill,      \* fill[f]: where the call is
  value,     \* value[f]: the version it has read
  readAt,    \* readAt[f]: when
  raced,     \* history: calls that had read the row before the latest del
  tainted    \* history: the entry was set by one of them

cVars == <<clock, row, changed, owedDels, entry, expiry, fill, value, readAt,
           raced, tainted>>

CTypeOK ==
  /\ clock \in Nat
  /\ row \in Versions
  /\ changed \in [Versions -> Nat]
  /\ owedDels \in Nat
  /\ entry \in Versions \union {NoEntry}
  /\ expiry \in Nat
  /\ fill \in [Fills -> {"idle", "factory", "store"}]
  /\ value \in [Fills -> Versions]
  /\ readAt \in [Fills -> Nat]
  /\ raced \in SUBSET Fills
  /\ tainted \in BOOLEAN

CInit ==
  /\ clock = 0
  /\ row = 0
  /\ changed = [v \in Versions |-> 0]
  /\ owedDels = 0
  /\ entry = NoEntry
  /\ expiry = 0
  /\ fill = [f \in Fills |-> "idle"]
  /\ value = [f \in Fills |-> 0]
  /\ readAt = [f \in Fills |-> 0]
  /\ raced = {}
  /\ tainted = FALSE

-----------------------------------------------------------------------------
(* The store behind the cache, and who changes it.                         *)

Write ==
  /\ row < MaxWrites
  /\ row' = row + 1
  /\ changed' = [changed EXCEPT ![row] = clock]
  /\ owedDels' = owedDels + 1
  /\ UNCHANGED <<clock, entry, expiry, fill, value, readAt, raced, tainted>>

\* Mutant: the key without its "cache:" prefix.
DelOtherKey ==
  /\ owedDels > 0
  /\ owedDels' = owedDels - 1
  /\ raced' = {f \in Fills : fill[f] = "store"}
  /\ UNCHANGED <<clock, row, changed, entry, expiry, fill, value, readAt, tainted>>

\* cache.del, by a process that has changed the row.
Del ==
  /\ owedDels > 0
  /\ owedDels' = owedDels - 1
  /\ entry' = NoEntry
  /\ tainted' = FALSE
  /\ raced' = {f \in Fills : fill[f] = "store"}
  /\ UNCHANGED <<clock, row, changed, expiry, fill, value, readAt>>

-----------------------------------------------------------------------------
(* RedisCacheService.                                                      *)

\* getOrSet reads nil.  A cached null is the text 'null', and so a hit.
Misses(f) ==
  /\ fill[f] = "idle"
  /\ entry = NoEntry
  /\ fill' = [fill EXCEPT ![f] = "factory"]
  /\ UNCHANGED <<clock, row, changed, owedDels, entry, expiry, value, readAt,
                 raced, tainted>>

\* The factory reads the row; or a caller does that means to set the key.
ReadsRow(f) ==
  /\ fill[f] \in {"idle", "factory"}
  /\ fill' = [fill EXCEPT ![f] = "store"]
  /\ value' = [value EXCEPT ![f] = row]
  /\ readAt' = [readAt EXCEPT ![f] = clock]
  /\ UNCHANGED <<clock, row, changed, owedDels, entry, expiry, raced, tainted>>

\* Mutant: SET without EX keeps the entry until the next del.
StoreForGood(f) ==
  /\ entry' = value[f]
  /\ expiry' = clock + MaxClock

\* SET key value EX ttl.
Store(f) ==
  /\ entry' = value[f]
  /\ \E ttl \in 1..TTL : expiry' = clock + ttl

Returns(f) ==
  /\ fill' = [fill EXCEPT ![f] = "idle"]
  /\ value' = [value EXCEPT ![f] = 0]
  /\ readAt' = [readAt EXCEPT ![f] = 0]
  /\ raced' = raced \ {f}

\* The SET of set and of getOrSet.  (One that takes effect and then rejects
\* does the same.)
Sets(f) ==
  /\ fill[f] = "store"
  /\ Store(f)
  /\ tainted' = (f \in raced)
  /\ Returns(f)
  /\ UNCHANGED <<clock, row, changed, owedDels>>

\* The factory or the SET rejects, and with it the call.
Rejects(f) ==
  /\ fill[f] # "idle"
  /\ Returns(f)
  /\ UNCHANGED <<clock, row, changed, owedDels, entry, expiry, tainted>>

\* A SET arrives in time; the entry expires.
CacheTick ==
  /\ clock < MaxClock
  /\ \A f \in Fills : fill[f] = "store" => clock < readAt[f] + MaxFill
  /\ clock' = clock + 1
  /\ IF clock' > expiry THEN entry' = NoEntry /\ tainted' = FALSE
                        ELSE UNCHANGED <<entry, tainted>>
  /\ UNCHANGED <<row, changed, owedDels, expiry, fill, value, readAt, raced>>

CNext ==
  \/ Write
  \/ Del
  \/ \E f \in Fills : Misses(f) \/ ReadsRow(f) \/ Sets(f) \/ Rejects(f)
  \/ CacheTick

CSpec == CInit /\ [][CNext]_cVars

-----------------------------------------------------------------------------
(* Properties.                                                             *)

Stale == entry # NoEntry /\ entry # row

\* What a reader is given was true not long ago, even if no del ever comes and
\* several fills overtake each other: a version stays cached no longer than
\* the TTL and one fill after it was replaced.
StalenessBounded == Stale => clock <= changed[entry] + MaxFill + TTL

\* del takes hold: once every change has had its del, a stale entry can only
\* come from a call that had read the row before the last del and set the key
\* after it, the race that getOrSet leaves open.
StaleOnlyByRace == Stale /\ owedDels = 0 => tainted
=============================================================================
