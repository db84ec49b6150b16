# A TLA+ model of the NestJS/Fastify boilerplate

## 1. The system

Two kinds of process are built from one code base: the API (`src/main.ts`) and
the worker (`src/main.worker.ts`).  They share a PostgreSQL database, a Redis
server and a RabbitMQ broker, and every one of them may run several times.

```
 sign-up hook --> OutboxEvent table --> relay --> events exchange --> work queue
 (API)            (PostgreSQL)         (worker)       ^                   |
                                                      | TTL               v
                                                retry tiers <-- MessageConsumer.handle
                                                                 |        |     |
                                                              DLQ <--     |   BullMQ mail job
                                                                   marker, lock (Redis)
```

| component | state | operations | talks to |
|---|---|---|---|
| outbox (`core/outbox`) | table rows: status, attempts, availableAt; per relay: timer, stopped | enqueue, claimPending, markPublished, markFailed, drainOnce, shutdown | PostgreSQL, publisher |
| transactions (`core/prisma`) | AsyncLocalStorage of the transaction client | runInTransaction | PostgreSQL |
| publisher (`core/messaging/event-publisher`) | none | publish, confirmed | RabbitMQ |
| topology (`core/messaging/topology`) | exchanges, work queues, retry tiers, DLQs, unrouted queue | declared at boot | RabbitMQ |
| consumer (`core/messaging/consume`) | done marker and processing lock in Redis; x-attempt header | handle | RabbitMQ, cache, locks |
| lock service (`core/redis/services/lock`) | key with token and TTL, fencing counter; per lock: watchdog timer, renewal in flight, signal | acquire, withLock, extend, release | Redis |
| WithLock (`core/redis/decorators`) | module-level service reference | set, clear, wrapper | lock service |
| cache, rate limit, pub/sub (`core/redis/services`) | cache keys; sorted set per key; handler map and subscription | get, set, del, getOrSet; hit; publish, subscribe, unsubscribe | Redis |
| mail jobs (`modules/mail`) | BullMQ jobs by jobId | enqueue, process | Redis |
| auth (`core/auth`) | users, sessions (better-auth) | sign-up hooks | outbox, mail jobs |
| guards, filter, interceptor (`common`) | none between requests | one decision or mapping per request | auth |
| users, notifications (`modules`) | none | queries; publish and log | PostgreSQL, publisher |
| configuration, health, bootstrap | none after boot | parse, probe, wire | all |

What is hard here is failure between two awaits, with a second process acting
meanwhile.  A relay publishes inside a transaction that can be closed under it;
a consumer has to ack, publish a copy, set a marker and free a lock, and each of
the four can fail after the others were done; a lock is a lease, and its holder
learns too late that it lost it.  `PROJECT.json` lists each such hazard with its
line and the properties that watch it.

## 2. Modules

| module | what it is |
|---|---|
| `EventDelivery` | abstract: an event is recorded, received by the broker at least once, then settled as delivered, or settled as dead; settled is final |
| `Subscription` | abstract: a delivery that was published is owed to its subscriber until it was run or set aside; nothing is run or set aside that was not published |
| `Outbox` | the table, the repository and one relay per worker process |
| `Consumer` | `MessageConsumer.handle`, its queues, its marker and lock |
| `LockService` | `RedisLockService` for one key, with its scripts and watchdog |
| `WelcomeMail` | from sign-up to the welcome mail: the sign-up hook, `EventDelivery` for the outbox, `Consumer` in full, the BullMQ mail job |
| `Requests` | one HTTP request: guards, pipe, handler, serializer, envelope or error filter, and the health check |
| `RateLimit` | `RedisRateLimitService` and its script on one key |
| `Cache` | `RedisCacheService` on one key, used as cache-aside |
| `PubSub` | `RedisPubSubService` on one channel, its subscriber connection, Redis |
| `LockHolder` | the reference that `@WithLock` uses, over several application contexts |
| `OutboxProofs`, `ConsumerProofs`, `LockServiceProofs`, `WelcomeProofs`, `RequestsProofs`, `RateLimitProofs`, `RedisServicesProofs` | theorems about them; the last one holds those of `Cache`, `PubSub` and `LockHolder` |
| `ServicesProofs` | theorems about `MCServices`, the process made of `Requests` and the four services |
| `MCOutbox`, `MCConsumer`, `MCLockService`, `MCWelcomeMail`, `MCServices` | instances for TLC; `MCServices` holds `Requests` and the four services |

Each module names the source's functions in its actions.  Definitions called
*mutants* are plausible bugs (a dropped guard, an off-by-one, an error that is
swallowed).  No specification uses them: a property is worth keeping only if one
of them, put in the place of the correct definition, violates it.

### Outbox

`status`, `attempts` and `due` are the committed rows.  A relay's marks live in
`ok` and `bad` until `Commit` applies them in one step, because they are updates
inside an interactive transaction; `TxCloses` is the transaction's 30 s timeout,
a lost connection or a failed statement, and undoes them while the callback runs
on, and learns of it only at its next statement (`DrainThrows`).  Locks are
derived: a row is locked by the open transaction that claimed it.  `publish` is
two steps, the broker's receipt and the confirm, so that a confirm can be lost
between them.  Poison rows are those whose payload does not match its contract.
`availableAt` is abstracted to `due`; rows are numbered by `createdAt`.

### Consumer

One step of `handle` per await.  `pc` names the await: `check` (marker),
`acquire`, `run` (the handler function), `mark`, `retry` and `dlq` (publishing a
copy), `release`, `settle` (the library acks or nacks).  Every Redis command and
every publish may reject, with or without having taken effect.  A nack, a closed
channel or a dead worker returns the copy to its queue, or dead-letters it at
`x-delivery-limit`.  A lock whose holder is gone has the token `orphan`.  The
lock is the one-attempt use of `LockService` with fencing off, without renewal.
Queues are counts of copies and so unordered.

To its subscribers all this amounts to `Subscription`, whose state is derived:
a delivery is a message and a subscriber, `Sent` when it was published, `Owed`
while a copy of it is in a queue, in a retry tier or with a handler, `Done` when
a handler ran it with success, `Aside` when it is in the DLQ.

That a requeue (`Nack(true)`) counts towards `x-delivery-limit` is how the
messaging design (section 3.3, point 5) uses it; it is the broker's behaviour and
an assumption of this model.  Two of the results below depend on it: the liveness
property, which needs requeues to end, and the finding about orphan locks.

### LockService

Discrete time.  Redis's TTL is exact; a timer that is due, and a renewal's
reply, may be late by up to `Lag` ticks.  `Tick` waits for no fn, so fn may take
for ever.  `owner` is whose token the key holds; scripts are single steps.  A
renewal is sent (`Renew`) and read later (`Renewed`), and `FnEnds` models
`watchdog.stop`, which waits for the one in flight.

### WelcomeMail

The composition.  It extends `Consumer`, whose steps it takes with the handler
function replaced by the call of `mail.enqueue`, and it uses the outbox through
what `Outbox` is proved to implement, an instance of `EventDelivery`.  `SignUp`
commits the user row, `HookEnqueues` the outbox row: better-auth's
`create.after` hook runs after the first commit, so `HookFails` may come between
the two.  `RelayPublishes` is at once a receipt of the abstract outbox and a
`Publish` of the consumer.  A BullMQ job goes from `none` to `waiting`, `active`,
`sent` (processed, not yet completed) and back to `none`, because of
`removeOnComplete`; adding a job whose id exists changes nothing; a worker that
dies under a job (`Stalls`) puts it back to `waiting`, or among the failed ones
after `maxStalledCount`.  `MaxMishaps` bounds the faults of the API and of
BullMQ's workers; a rejected `mail.enqueue` counts as a failed run of the
consumer, which the retry tiers bound.

### Requests

Requests share no state inside a process, so one request is enough; what other
clients do meanwhile (sign up, in and out, be removed, get a role) is done to the
users, sessions and roles in PostgreSQL between any two of its awaits.  `at` is
its place in the order that `app.module.ts` gives: `Authenticate`
(BetterAuthGuard), `Authorize` (RolesGuard), `Validate` (the pipe), the handler,
`Reply` (the serializer first, then the envelope).  `Throw` is
`HttpExceptionFilter.catch`. `findAll` sends its two queries at once, so `FindAll`
and `Count` come in either order.  The page query has no `orderBy`: its page is
any set of rows of the right size.  `moved`, `ever` and `always` record, for the
properties, whether the table changed between the two queries and whether the
caller was entitled to the route at some or at every moment.  No route uses
`@Roles` today; the repository's README tells how to, so `AdminOnly` is a constant
and the run has one such route.  The texts of messages are abstracted to where
they come from: the exception's own, a fixed one, a translated one.  Guards,
filter and interceptor let RabbitMQ contexts pass untouched; that branch is left
out.

### RateLimit

A call of `hit` is named by the member it adds to the sorted set.  `Hit` reads the
caller's clock, which may be up to `MaxAhead` ahead of the slowest one; the script
runs up to `MaxLate` after that, in one step, and judges by the timestamp it was
sent: `Counted` is what `zremrangebyscore` leaves, `Admits` the comparison with the
limit, `LogAfter`, `ExpiryAfter`, `Left` and `Oldest` what it writes and returns.
`RateTick` is Redis's own clock, by which `PEXPIRE` ends the key.  `ReplyLost` is a
script that ran and is sent again by ioredis: it finds its own member, counts it as
if it were another's, and may be refused by it.  `log` is a set because members are
unique; their scores are `stamp`.

### Cache

What is cached is a row that changes; the process that changes it owes a `Del`.
`getOrSet` is three steps, as its awaits are: `Misses`, `ReadsRow` (the factory)
and `Sets`.  A caller of `set` reads the row and sets.  Any of them may reject.
Versions of the row are numbers, so that an entry is stale when its version is not
the row's. `raced` and `tainted` record which calls had read the row before the
latest `Del`.

### PubSub

`list` is the map's list for the channel.  Commands of the subscriber connection
stand in `commands` until they are answered, in the order they were sent; the
first `executed` of them have taken effect in Redis.  `subscribe` sends one only
for the first handler, and the call of a second one resolves at once.  `Drop`
loses replies and messages on their way; ioredis then subscribes again to what it
takes to be subscribed (`known`) and sends again what has no reply.  `due`
records, for the properties, who is owed a message.  In the code of ioredis a
command is refused only by an ACL or after a quit, since `maxRetriesPerRequest` is
null; so no command is refused here.

### LockHolder

`lockServiceRef` over the `onModuleInit` and `onModuleDestroy` of several
contexts, and the wrapper that `@WithLock` puts around a method.  `WithLock(this)`
is the first line of `RedisLockService.withLock`, which needs its receiver; what
follows is `LockService`.

### MCServices

A request and the four services share no variable, no table and no key, so a
product of their behaviours would say nothing that each alone does not.  A
behaviour looks at one of them, `focus`; one that looks at a service starts with a
health check, which is answered before the service is used.  The users that are
not the caller start without a session and with the plain role (`OthersPlain`),
because a request looks at nobody else's.

## 3. Runs

| run | instance | shows |
|---|---|---|
| `outbox` | 2 relays, 3 rows (row 2 poison), batch 2, 2 attempts, 1 fault | no lost event, exact attempts, exclusive claims, duplicates only through faults, settled is final, implements `EventDelivery`, every event settles unless all relays are stopped |
| `consumer_safety` | 1 message published twice, 2 handlers, 2 retries, limit 2, 2 faults | one run at a time, attempts are failures, implements `Subscription` |
| `consumer_live` | 3 messages (one invalid, one without id), 1 retry, limit 1, 1 fault, TTLs that run out early | every message settles; only the owner releases; nothing lost |
| `consumer_duplicate` | 2 copies, no fault | **violation**: the handler runs although the marker is set |
| `consumer_orphan` | 1 copy, 1 fault | **violation**: one crash and the message is dead-lettered |
| `consumer_fanout` | 2 subscribers, no fault | **violation**: the second subscriber never runs |
| `lock_renew` | TTL 15, period 5, lag 1, 3 calls, 1 fault | exclusion while renewed; waitMs is kept |
| `lock_lossy` | TTL 3, lag 3, 3 calls, 1 fault | fencing orders callers; the signal is truthful and arrives; acquire ends |
| `welcome_live` | 1 user, 2 handlers, 1 retry, limit 1, 1 fault of the consumer and 2 elsewhere | somebody has the event at every moment; a recorded event ends in a mail or with an operator; what was acked BullMQ has; no mail without a user |
| `welcome_again` | 1 delivery, no fault but a lost reply to `mail.enqueue` | **violation**: a repeated enqueue adds a second job |
| `services` | requests: 3 users, one an ADMIN_USER_ID and one with a row that does not serialize; pages up to 3, limit up to 2, 2 changes during the request, production. Rate limit: 4 calls against 2 per window of 4, clocks 1 apart, scripts 1 late, 1 lost reply. Cache: 2 calls, 2 changes, TTL 2, fills of 1. Pub/sub: 2 handlers, 5 calls, 3 messages, 2 drops. Holder: 3 contexts, 4 starts | pages add up; access is right; causes are hidden; every request is answered; the limit is kept, results stay true and nobody is refused below it; staleness is bounded and comes from the race only; map and channel agree, no message is missed, handlers get their channel; the reference is the latest context's |
| `with_lock` | one context, one call, the lock free | **violation**: a decorated method fails |

`CHECK_DEADLOCK FALSE` everywhere: producers, calls and publishes are bounded, so
a behaviour ends when they are used up, a stopped relay stays stopped, and an
answered request is over.

*Bounds.*  `MaxFaults`, `MaxPublishes`, `MaxCalls` and `MaxRows` bound what the
environment does, `Lag` how late a timer may be.  Three rows with a batch of two
give a batch with a good and a poison row while a third waits; one fault allows
the second relay to steal a batch whose first publisher still runs, and what more
of them can do to safety is covered by the proofs, for any number.  For the
consumer two handlers suffice to race for one lock, two publishes give a
duplicate, two retries exercise an inner and the last tier.  In `lock_renew` the
instance has `4 * Lag < Period`: a renewal that fails is sent at most `Period +
Lag` after the last one, read `Lag` later, and followed by one `Period + Lag`
later; with `TTL = 3 * Period` the second comes in time.  With one fault fewer
than two renewals in a row can fail; two failing in a row do lose the lock, which
is what `lock_lossy` looks at.  In `welcome_live` two mishaps are enough to stall
a job once too often (`MaxStalls = 1`), or to fail the hook and stall a job.  One
user is enough, since every action there is about one user; what several messages
do to each other in the consumer is `consumer_live`'s question.  For requests, a
limit of 2 stands for the 100 of the code: with three users there are full,
partial and empty pages and a limit that is refused, and two changes can take a
caller's entitlement away and give it back.  Four calls against a limit of two are
enough to fill the window, be refused, see a member leave and be cleaned away too
early by a clock that is ahead; a stretch of one tick more than `LimitKept` names
is violated at these bounds.  Two fills and two changes let an old fill overtake a
newer one and its `del`; the clock goes past TTL and fill together. Five calls
reach subscribe, unsubscribe, subscribe with the first command still unanswered,
and a connection that drops twice on the way.  Symmetry is used by
`consumer_safety` only, over the handlers, which no property of it and no constant
tells apart.

*Fairness.*  The relay's timer re-arms itself and the event loop runs promises
that settled: weak fairness of a relay's steps and of a handler's steps; the
broker and Redis expire what has a TTL.  Nothing is assumed of producers, of
faults, of restarts, or of a handler function or fn succeeding.  In the lock model
fn may run for ever; time, due timers and replies are fair. A handler whose
function never settles would hold its slot; `consumer_live` assumes it settles, as
the comment on the processing lock's TTL demands. `welcome_live` assumes in
addition that the hook goes on once its user is inserted (it may still fail), that
the relay publishes what is owed before it settles it, which `outbox` shows, and
that BullMQ's worker takes and completes jobs.  Nobody has to sign up.  In
`services`, of a request: the database answers or rejects and timers fire; Redis
need not answer a ping, and no query has to reject.  Of the subscriber connection:
`retryStrategy` makes it again for ever, so what is sent is executed, answered and
delivered in the end, unless the connection drops first.  Nobody has to subscribe,
publish or drop.  The rate limiter, the cache and the holder need none.

## 4. Findings

1. `consume.ts:60`: the marker is not checked again under the lock, so two copies
   that overlap both run (`consumer_duplicate`).
2. `consume.ts:76`: while a dead worker's lock lives on, requeues at full speed
   burn the delivery limit (`consumer_orphan`).
3. `consume.ts:57`: marker and lock are per message, not per subscriber; adding a
   second subscriber to an event silences one of them (`consumer_fanout`).
4. `mail.producer.ts:20`: with `removeOnComplete` a completed job's id is free again,
   so a repeated enqueue of the same messageId is not dropped and the mail is sent
   twice (`welcome_again`).
5. `with-lock.decorator.ts:49`: the wrapper calls `withLock` without its receiver, so
   that `this.acquire` throws a TypeError in every decorated method (`with_lock`).  The
   unit test passes because its `withLock` is a mock; nothing is decorated yet.

Noted while reading, not runs: the comment at `env.schema.ts:112-114` says that
a message for a missing tier ends in the alternate exchange, but only the events
exchange has one (`topology.ts:18-20`): the retry exchange would drop it.
`messaging.contracts.ts:4` wants `userId` to be a UUID, while `auth-options.ts`
configures no id generator; if better-auth's default ids are not UUIDs, every
`user.registered` row is a poison row.  That depends on a library that is not in
the repository, so it is not modelled.  A factory of `getOrSet` that resolves to
`undefined` leaves an empty string in Redis (`cache.service.ts:43`), which
`JSON.parse` refuses until it expires; section 5.1 of the Redis design says that
`undefined` is not cached.  Nothing calls `getOrSet` yet.

## 5. Proofs

`OutboxProofs` proves, for any number of relays and rows, any batch size, any
number of attempts and faults, under `OutboxAssumption` only:
`TypeCorrect`, `NoEventLost`, `ExclusiveClaims`, `AttemptsCounted`, `Finality`,
`Implementation` and `DuplicatesPaid`.

`PublishedReachedBroker` is not inductive: `Commit` turns rows PUBLISHED on the
strength of `ok`, written earlier.  `IInv` adds what links the two:

- `RelayOK`: a relay's place, its transaction and its sets agree; in particular
  a closed transaction has no marks;
- `OneOpenClaim` and `ClaimsPending`: rows in an open transaction are PENDING
  and in no other open one.  This is what `FOR UPDATE SKIP LOCKED` gives, and
  why a commit never touches a settled row;
- `MarkedReachedBroker`: a row in `ok`, and the current row once its publish has
  been confirmed, has reached the broker.  It holds on a closed transaction too.

One lemma per action shows that it preserves `IInv`; `Inductive` combines them.
`Finality` and `Implementation` use `IInv` for each step: only `Commit` and
`Enqueue` change a status, and under `IInv` a commit is `Settle(ok, bad rows that
are out of attempts)` of the abstract specification, a receipt is `Receive`, and
everything else stutters.

`DuplicatesPaid` needs accounting that `IInv` does not have, because a closed
transaction costs its duplicate later, when another relay publishes the row again
or the old loop goes on.  `CopiesPaid` counts for each row its copies and the
relays on a closed transaction that may still publish it (`Unpaid`, paid for in
advance by the fault that closed it): together they are at most the faults, plus
one if the row is settled or about to be by an open transaction (`Covered`).

`ConsumerProofs` proves, for any messages, handlers, tiers, retries, delivery
limit and faults, under `ConsumerAssumption`: `TypeCorrect`, `AttemptsTrue`,
`NothingLost` for an event with one subscriber (`OneSubscriber`; finding 3 shows
that it fails with two), and `OneAtATime` if a lock outlives its handler (`"lock"
\notin Expires`; the comment on the lock's TTL asks for it), and `OwnersRelease`
without that assumption: whoever removes a lock's key holds its token.
`CopiesArePublished`, `SubscriptionKept` and `DlqForCause` are about its queues.

`NoMessageLost` is not inductive: a delivery about to be acked counts as a copy at
the broker, and the ack removes it.  Its `IInv` adds:

- `PlaceOK`: what a handler's place tells, e.g. that at `mark` its subscriber has
  handled the message, and at `retry` there is a tier left;
- `MarkerMeansHandled`: a done marker was set by a subscriber that handled the
  message, so an ack on the marker loses nothing;
- `LockHeld`: from acquire to release the lock has the handler's token;
- `Kept`: every published message is handled, parked, in a queue, or in the hands
  of a handler that will *not* ack it as it stands.

One lemma per action again, over lemmas about queues (`AddGrows`, `RetryKeeps`,
`DlqKeeps`, `GoesBack`), which say of each way a copy moves that its message stays
somewhere.

`SubscriptionKept` assumes `OneSubscriber` and proves that `Consumer` implements
`Subscription`, from `IInv` and from `CopiesPublished`, that every copy anywhere
stems from a publish (lemma `CopiesStep`, one case per way a copy moves), without
which a run or a DLQ entry could come from nowhere.  That a copy which disappears
was done or set aside is `NoMessageLost` in the next state.  With two subscribers
it fails for the reason of finding 3.

`DlqForCause` proves the action property `ParkedForCause` for any number of
subscribers: a message enters a DLQ only if it is invalid or has no id, if more
than `MaxRetries` of its runs failed, or if a copy of it was returned
`DeliveryLimit` times.  It needs `RejectOK`, that a handler on its way to the DLQ
without a run has a malformed message, and `AttemptsTrue` for the others.  No run
checks `ParkedForCause`.

`LockServiceProofs` proves, for any callers, TTL, retry options, lateness and
faults, under `LockAssumption`: `TypeCorrect`, `FencingOrders`, `SignalIsTruthful`
and `DeadlineKept`.  What earlier steps left behind makes them inductive: every
token a caller has was given out (`FencesGivenOut`), a reply "lost" that is still
to be read stays true (`LostIsLost`), and a sleeper's `elapsed + timer` never
exceeds `waitMs` (`SleepsToDeadline`).  `RenewalExcludes` assumes
`4 * Lag < Period` and `MaxFaults <= 1` and proves `ExclusiveWhileRenewed`: its
invariant `Lease` bounds how much longer the key lives than the watchdog's timer
runs, `2 * Period - Lag` after a renewal, `Period - 3 * Lag` after one that
failed.  The factor 4 is exact for this argument: one late timer and one late
reply for each of two renewals.

`NeverUnwatched` proves the safety half of `LostLockIsNoticed`, for any lateness
and number of faults: while fn runs and its signal has not aborted, the watchdog has
a renewal on its way or a timer due within a period, so that rejected renewals
never end it (`WatchdogWatches`, which no run checks by itself).  That the renewal
then comes, and is answered, is the liveness left to TLC.

`WelcomeProofs` proves, for any users, handlers and faults, under
`ConsumerAssumption` and `WelcomeAssumption`: `ConsumerInside` and `OutboxInside`,
that every behaviour of the composition is one of `Consumer` and one of
`EventDelivery`.  Hence `EventNotLost` and `SubscriptionInside`, which are
`NothingLost` and `SubscriptionKept` carried over, with no new invariant.  `HandledIsMailed` is about the composition itself: its
invariant `WInv` adds to `HandledHasJob` that a job in `sent` has a mail
(`JobsOK`), so that removing the completed job leaves the mail behind.

`UsersFirst` is about the way there: `OInv` follows an event from the user's row
through the outbox, every queue and every handler (`CopiesPublished`) to the job and the mail (`InOrder`), each of which exists only if the
one before it did.

`SomebodyHasIt` puts the parts together: with one subscriber, a recorded sign-up is
at every moment with the outbox, the broker, an operator or BullMQ, or its mail is
out.  No part says so alone, because each hands the event over and forgets it.
`HandedOver` is the first joint: what the outbox counts as received was published
to the consumer's queues.  `NoMessageLost` is the second, from the publish to a
handler that succeeds or to the DLQ, and `HandledHasJob` the third.

`RequestsProofs` proves, for any users, roles, limits, routes for admins and
changes, in production or not, under `RequestAssumption` and `NobodyAssumption`:
`RTypeCorrect`, `PagesRight`, `GuardsRight` and `CausesHidden`, that is, all
safety the run checks of a request. The properties speak of the answer and the invariant `RInv`
of what led to it: a request past a guard has what the guard left (`PlaceOK`),
`items` and `total` fit the table that was read, if it has not changed in between
(`ReadsOK`), and a request past the guards had its entitlement at some moment,
while one that a guard is about to refuse did not have it all the time
(`GuardOK`).  `RoundedUp` is the fact about `Math.ceil` that `PagesRight` rests
on.

`RateLimitProofs` proves, for any limit, window, clock difference, lateness and
number of lost replies, under `RateAssumption`: `RateTypeCorrect`,
`RateLimitIsKept`, `RateResultsHold` and `RefusalsAreJustified`.  `LimitKept` speaks of all calls ever
admitted, the script counts those still in the log.  The invariant `RLInv` links
them: a call that was admitted and has left the log is a window old on a clock
that is at most `MaxAhead` from Redis's (`AdmittedStay`), the key lives as long as
its members are needed (`LogLasts`), and a script that still runs has a timestamp
at most `MaxLate` old (`ClocksClose`).  `RefusalsJustified` is the other side: what the
script counts against a caller was allowed to somebody.  Its `RefusalInv` says that
the members of the log which no caller was told of (`Unknown`) are at most the
replies that were lost.

`RedisServicesProofs` proves, for all constants: for the cache `CacheTypeCorrect`,
`CacheStaleness` and `CacheDelTakesHold`, from an invariant that bounds how long a
call holds what it read (`FillsAreYoung`), when an entry ends (`EntryEndsInTime`)
and who holds a stale value once every change had its `del` (`FillsAreRaced`); for
pub/sub `PubSubConverges` and `PubSubDelivers`, whose invariant says that Redis
stands at the command it executed last (`RedisFollows`) and that only handlers in
the map are owed a message (`DueAreListed`); for the holder `HolderIsRight`.

`ServicesProofs` carries all this to the process: `ServicesInside` shows that a
behaviour of `MCServices` is one of `Requests` and of each service, so that
`ServicesTypeCorrect` and `ServicesKeepPromises`, the promises of all parts at once,
follow without a new invariant.

Only model-checked: all liveness (`EveryEventSettles`, `EveryMessageSettles`,
`LostLockIsNoticed`, `AcquireEnds`, `WelcomeArrives`, `EveryRequestAnswered`,
`HandlersServed`), because fairness and ENABLED are out of the prover's reach.
No module declares a RECURSIVE operator.  Nothing about recursive
data is claimed: the prover cannot instantiate the induction theorems it would
need.

## 6. Not modelled

- The unrouted exchange and its queue: `UnroutedConsumer` logs and acks, and
  `publish` accepts only the routing keys of `EventContracts`, each of which has a
  binding today (`SUBSCRIPTIONS`), so nothing reaches it.
- Notifications: the controller publishes without the outbox, as its comment
  says, and its consumer is `MessageConsumer.handle` with a function that logs, which
  `Consumer` covers.
- Mail jobs without an id (verification mail, `POST /mail/test`): they are enqueued once
  and BullMQ's retries are those of the welcome mail's job; nothing deduplicates them.
- A cache factory that returns `undefined` (section 4), a SUBSCRIBE that Redis refuses,
  and a handler of pub/sub that throws: the listener then stops the loop over
  the handlers, an error of the process.
- The order of rows between two page requests: `findMany` has no `orderBy`, and
  `Requests` has one request.
- The routing of `PrismaService.db` by AsyncLocalStorage, beyond its effect that marks
  are part of the relay's transaction.
- Logging, OpenAPI decorators, DTOs, i18n (declarations and formatting), the payload of
  the health check (reads only), Bull Board's basic auth (one comparison), better-auth's
  own tables and sessions, BullMQ's and RabbitMQ's internals beyond what the code
  relies on.

Simplifications inside what is modelled:

- `LockService.Enter` sets the key and starts fn and watchdog in one step.  A late reply to
  `acquireLock` counts as lateness of the first renewal's timer: both together are
  at most `Lag`.
- `PubSub` keeps the handlers of a channel as a set, so a function that subscribes twice
  (`pubsub.service.ts:37` pushes it twice, and the listener calls it twice) is one.
- `RateLimit` has a limit of at least one.  With a limit of zero the script refuses every
  call and its log is always empty, so that `oldest` is the caller's own time and the
  `resetAt` of the result names a moment at which no slot becomes free;
  `ResultsHold` speaks of the other limits only.
- `AttemptsAreFailures` counts the failed runs of a message, not of one copy of it: what
  a duplicate failed is not told from what the original did.
- The runs of `Requests` have `Production = TRUE`, the mode in which causes are hidden;
  `CausesHidden` is proved for both.

What would extend this next: a second request in `Requests`, to speak of the order
of pages, and `MessagingHealth` with the life of the broker's connection.
