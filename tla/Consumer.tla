------------------------------ MODULE Consumer ------------------------------
(***************************************************************************)
(* MessageConsumer.handle with the RabbitMQ topology it runs on and the    *)
(* two Redis keys it uses: the processing lock and the done marker of a    *)
(* messageId.                                                              *)
(*                                                                         *)
(* One event type is modelled, with the subscribers that listen to it.     *)
(* The events exchange gives each subscriber's work queue a copy; a failed *)
(* run puts a copy into a retry tier, from where it returns to the events  *)
(* exchange when its TTL runs out; a copy that is given up goes to the DLX *)
(* exchange, which routes it to the DLQ of every subscriber of the event.  *)
(*                                                                         *)
(* A step of handle goes from one await to the next.  Faults are a worker  *)
(* that dies, a channel that closes under a running handler, and a Redis   *)
(* command or a publish that rejects, with or without having taken effect. *)
(***************************************************************************)
EXTENDS Integers

CONSTANTS
  Subs,           \* subscribers of the event
  Msgs,           \* messages, one per messageId
  Invalid,        \* messages whose payload does not match the contract
  NoId,           \* messages published without a messageId
  Handlers,       \* deliveries that can be in progress at once, all workers
  NoCopy,         \* what an idle handler holds
  MaxRetries,     \* RABBITMQ_MAX_RETRIES
  Tiers,          \* number of RABBITMQ_RETRY_DELAYS_MS, hence of retry queues
  DeliveryLimit,  \* RABBITMQ_QUORUM_DELIVERY_LIMIT
  Expires,        \* TTLs that can run out early: "lock" under a live handler,
                  \* "marker" before the last duplicate has come
  MaxPublishes,   \* bound: times the relay publishes one message
  MaxFaults       \* bound: faults in one behaviour

\* A copy of a message in a work queue, in a retry tier or with a handler;
\* attempt is its x-attempt header, returned its unsuccessful deliveries.
Copies == [msg : Msgs, sub : Subs,
           attempt : 0..MaxRetries, returned : 0..DeliveryLimit]

\* superRefine of envSchema: every retry has a tier.
TiersSuffice == Tiers >= MaxRetries

ASSUME ConsumerAssumption ==
  /\ Invalid \subseteq Msgs
  /\ NoId \subseteq Msgs
  /\ NoCopy \notin Copies
  /\ {"free", "orphan"} \intersect Handlers = {}
  /\ MaxRetries \in Nat
  /\ Tiers \in Nat /\ TiersSuffice
  /\ DeliveryLimit \in Nat \ {0}
  /\ Expires \subseteq {"lock", "marker"}
  /\ MaxPublishes \in Nat
  /\ MaxFaults \in Nat

VARIABLES
  \* RabbitMQ
  ready,      \* ready[d]: how many copies d stand in d.sub's work queue
  retry,      \* retry[d]: how many copies d stand in a retry tier of d.sub
  parked,     \* parked[s]: messages in the DLQ of s
  published,  \* published[m]: times m was published to the events exchange
  \* Redis
  lock,       \* lock[m]: the handler whose token the lock of m holds; an
              \* "orphan" token belongs to no handler any more
  marker,     \* marker[m]: the done marker of m is set
  \* the handlers
  pc,         \* pc[h]: the await at which handle stands
  copy,       \* copy[h]: the copy delivered to h
  attached,   \* attached[h]: the delivery is still unacked on its channel
  verdict,    \* verdict[h]: what handle resolves to; a rejection is "nack"
  \* history
  handled,    \* handled[s]: messages a handler of s ran with success
  failed,     \* failed[m]: runs of m that failed, counted up to MaxRetries + 1
  faults      \* faults so far

queues  == <<ready, retry, parked, published>>
redis   == <<lock, marker>>
worker  == <<pc, copy, attached, verdict>>
history == <<handled, failed, faults>>
vars    == <<ready, retry, parked, published, lock, marker,
             pc, copy, attached, verdict, handled, failed, faults>>

Places == {"idle", "check", "reject", "acquire", "run", "mark", "retry", "dlq",
           "release", "settle"}

TypeOK ==
  /\ ready \in [Copies -> Nat]
  /\ retry \in [Copies -> Nat]
  /\ parked \in [Subs -> SUBSET Msgs]
  /\ published \in [Msgs -> Nat]
  /\ lock \in [Msgs -> Handlers \union {"free", "orphan"}]
  /\ marker \in [Msgs -> BOOLEAN]
  /\ pc \in [Handlers -> Places]
  /\ copy \in [Handlers -> Copies \union {NoCopy}]
  /\ \A h \in Handlers : pc[h] = "idle" <=> copy[h] = NoCopy
  /\ attached \in [Handlers -> BOOLEAN]
  /\ verdict \in [Handlers -> {"ack", "nack"}]
  /\ handled \in [Subs -> SUBSET Msgs]
  /\ failed \in [Msgs -> 0..(MaxRetries + 1)]
  /\ faults \in Nat

Init ==
  /\ ready = [d \in Copies |-> 0]
  /\ retry = [d \in Copies |-> 0]
  /\ parked = [s \in Subs |-> {}]
  /\ published = [m \in Msgs |-> 0]
  /\ lock = [m \in Msgs |-> "free"]
  /\ marker = [m \in Msgs |-> FALSE]
  /\ pc = [h \in Handlers |-> "idle"]
  /\ copy = [h \in Handlers |-> NoCopy]
  /\ attached = [h \in Handlers |-> FALSE]
  /\ verdict = [h \in Handlers |-> "ack"]
  /\ handled = [s \in Subs |-> {}]
  /\ failed = [m \in Msgs |-> 0]
  /\ faults = 0

-----------------------------------------------------------------------------
(* The broker.                                                             *)

\* What the events exchange makes of a message: a new copy per subscriber.
Fresh(m, a) ==
  {[msg |-> m, sub |-> s, attempt |-> a, returned |-> 0] : s \in Subs}

Add(queue, S) == [d \in Copies |-> IF d \in S THEN queue[d] + 1 ELSE queue[d]]

\* The DLX exchange routes by event name, to the DLQ of every subscriber.
Park(m) == parked' = [s \in Subs |-> parked[s] \union {m}]

\* A delivery of d ends without an ack: d goes back to its work queue, or, at
\* x-delivery-limit, to the DLX exchange.
Return(d) ==
  IF d.returned = DeliveryLimit
  THEN Park(d.msg) /\ UNCHANGED ready
  ELSE /\ ready' = Add(ready, {[d EXCEPT !.returned = @ + 1]})
       /\ UNCHANGED parked

Publish(m) ==
  /\ published[m] < MaxPublishes
  /\ published' = [published EXCEPT ![m] = @ + 1]
  /\ ready' = Add(ready, Fresh(m, 0))
  /\ UNCHANGED <<retry, parked, redis, worker, history>>

\* The TTL of a retry tier runs out.
RetryExpires(d) ==
  /\ retry[d] > 0
  /\ retry' = [retry EXCEPT ![d] = @ - 1]
  /\ ready' = Add(ready, Fresh(d.msg, d.attempt))
  /\ UNCHANGED <<parked, published, redis, worker, history>>

-----------------------------------------------------------------------------
(* MessageConsumer.handle.                                                 *)

Msg(h) == copy[h].msg

Fault == faults < MaxFaults /\ faults' = faults + 1

Goto(h, place) == pc' = [pc EXCEPT ![h] = place]

\* handle is about to resolve (after the finally block, if it is inside try).
Resolve(h, place, v) ==
  /\ Goto(h, place)
  /\ verdict' = [verdict EXCEPT ![h] = v]

Deliver(h) ==
  /\ pc[h] = "idle"
  /\ \E d \in Copies :
       /\ ready[d] > 0
       /\ ready' = [ready EXCEPT ![d] = @ - 1]
       /\ copy' = [copy EXCEPT ![h] = d]
       /\ Goto(h, IF d.msg \in NoId THEN "reject" ELSE "check")
  /\ attached' = [attached EXCEPT ![h] = TRUE]
  /\ UNCHANGED <<retry, parked, published, redis, verdict, history>>

\* cache.get(doneKey), then, without an await, the contract's parse.
Check(h) ==
  /\ pc[h] = "check"
  /\ \/ marker[Msg(h)] /\ Resolve(h, "settle", "ack")
     \/ /\ ~marker[Msg(h)]
        /\ Goto(h, IF Msg(h) \in Invalid THEN "reject" ELSE "acquire")
        /\ UNCHANGED verdict
  /\ UNCHANGED <<queues, redis, copy, attached, history>>

CheckFails(h) ==
  /\ pc[h] = "check"
  /\ Fault
  /\ Resolve(h, "settle", "nack")
  /\ UNCHANGED <<queues, redis, copy, attached, handled, failed>>

\* Mutants: SET without NX; a delivery that finds the lock taken is acked.
AcquireWithoutNX(h) ==
  /\ pc[h] = "acquire"
  /\ lock' = [lock EXCEPT ![Msg(h)] = h]
  /\ Goto(h, "run")
  /\ UNCHANGED <<queues, marker, copy, attached, verdict, history>>

AcquireOrDrop(h) ==
  /\ pc[h] = "acquire"
  /\ IF lock[Msg(h)] = "free"
     THEN /\ lock' = [lock EXCEPT ![Msg(h)] = h]
          /\ Goto(h, "run")
          /\ UNCHANGED verdict
     ELSE Resolve(h, "settle", "ack") /\ UNCHANGED lock
  /\ UNCHANGED <<queues, marker, copy, attached, history>>

\* locks.acquire, which tries once.
Acquire(h) ==
  /\ pc[h] = "acquire"
  /\ \/ /\ lock[Msg(h)] = "free"
        /\ lock' = [lock EXCEPT ![Msg(h)] = h]
        /\ Goto(h, "run")
        /\ UNCHANGED verdict
     \/ /\ lock[Msg(h)] # "free"
        /\ Resolve(h, "settle", "nack")
        /\ UNCHANGED lock
  /\ UNCHANGED <<queues, marker, copy, attached, history>>

\* The command rejects, or its reply is lost and the client sends it again and
\* reads nil: Redis may hold a token that nobody knows.
AcquireFails(h) ==
  /\ pc[h] = "acquire"
  /\ Fault
  /\ \/ UNCHANGED lock
     \/ /\ lock[Msg(h)] = "free"
        /\ lock' = [lock EXCEPT ![Msg(h)] = "orphan"]
  /\ Resolve(h, "settle", "nack")
  /\ UNCHANGED <<queues, marker, copy, attached, handled, failed>>

RunSucceeds(h) ==
  /\ pc[h] = "run"
  /\ handled' = [handled EXCEPT ![copy[h].sub] = @ \union {Msg(h)}]
  /\ Goto(h, "mark")
  /\ UNCHANGED <<queues, redis, copy, attached, verdict, failed, faults>>

\* Mutant: one attempt too few.
CatchErrorEarly(h) ==
  /\ Goto(h, IF copy[h].attempt + 1 < MaxRetries THEN "retry" ELSE "dlq")
  /\ failed' = [failed EXCEPT ![Msg(h)] = IF @ > MaxRetries THEN @ ELSE @ + 1]

\* The catch block, up to its await.
CatchError(h) ==
  /\ Goto(h, IF copy[h].attempt < MaxRetries THEN "retry" ELSE "dlq")
  /\ failed' = [failed EXCEPT ![Msg(h)] = IF @ > MaxRetries THEN @ ELSE @ + 1]

RunFails(h) ==
  /\ pc[h] = "run"
  /\ CatchError(h)
  /\ UNCHANGED <<queues, redis, copy, attached, verdict, handled, faults>>

Mark(h) ==
  /\ pc[h] = "mark"
  /\ marker' = [marker EXCEPT ![Msg(h)] = TRUE]
  /\ Resolve(h, "release", "ack")
  /\ UNCHANGED <<queues, lock, copy, attached, history>>

\* cache.set rejects, inside the try block.
MarkFails(h) ==
  /\ pc[h] = "mark"
  /\ Fault
  /\ \E set \in BOOLEAN :
       marker' = [marker EXCEPT ![Msg(h)] = @ \/ set]
  /\ CatchError(h)
  /\ UNCHANGED <<queues, lock, copy, attached, verdict, handled>>

\* Mutant: x-attempt is copied, not incremented.
SendRetryUncounted(h) ==
  /\ pc[h] = "retry"
  /\ retry' = Add(retry, {[copy[h] EXCEPT !.returned = 0]})
  /\ UNCHANGED parked

\* The broker takes the message of toRetryOrRequeue; without a queue for its
\* tier the retry exchange drops it.
SendRetry(h) ==
  LET d    == [copy[h] EXCEPT !.attempt = @ + 1, !.returned = 0]
      last == IF MaxRetries = 0 THEN 0 ELSE MaxRetries - 1
      tier == IF copy[h].attempt < last THEN copy[h].attempt ELSE last
  IN  /\ pc[h] = "retry"
      /\ retry' = IF tier < Tiers THEN Add(retry, {d}) ELSE retry
      /\ UNCHANGED parked

\* The broker takes the message of toDlqOrRequeue.
SendDlq(h) ==
  /\ pc[h] \in {"reject", "dlq"}
  /\ Park(Msg(h))
  /\ UNCHANGED retry

\* Only the handlers that entered the try block go through its finally.
AfterSend(h) == IF pc[h] = "reject" THEN "settle" ELSE "release"

Send(h) ==
  /\ SendRetry(h) \/ SendDlq(h)
  /\ Resolve(h, AfterSend(h), "ack")
  /\ UNCHANGED <<ready, published, redis, copy, attached, history>>

\* Mutant: the original is acked although its copy was not published.
SendFailsAcked(h) ==
  /\ pc[h] \in {"reject", "retry", "dlq"}
  /\ Fault
  /\ SendRetry(h) \/ SendDlq(h) \/ UNCHANGED <<retry, parked>>
  /\ Resolve(h, AfterSend(h), "ack")
  /\ UNCHANGED <<ready, published, redis, copy, attached, handled, failed>>

SendFails(h) ==
  /\ pc[h] \in {"reject", "retry", "dlq"}
  /\ Fault
  /\ SendRetry(h) \/ SendDlq(h) \/ UNCHANGED <<retry, parked>>
  /\ Resolve(h, AfterSend(h), "nack")
  /\ UNCHANGED <<ready, published, redis, copy, attached, handled, failed>>

\* Mutant: DEL without comparing the token.
ReleaseAnyToken(h) ==
  /\ pc[h] = "release"
  /\ lock' = [lock EXCEPT ![Msg(h)] = "free"]
  /\ Goto(h, "settle")
  /\ UNCHANGED <<queues, marker, copy, attached, verdict, history>>

\* lock.release: the Lua script deletes the key only if it holds h's token.
Release(h) ==
  /\ pc[h] = "release"
  /\ lock' = IF lock[Msg(h)] = h THEN [lock EXCEPT ![Msg(h)] = "free"] ELSE lock
  /\ Goto(h, "settle")
  /\ UNCHANGED <<queues, marker, copy, attached, verdict, history>>

\* A rejection in the finally block replaces what the try block returned.
ReleaseFails(h) ==
  /\ pc[h] = "release"
  /\ Fault
  /\ \E left \in {"free", "orphan"} :
       lock' = IF lock[Msg(h)] = h THEN [lock EXCEPT ![Msg(h)] = left] ELSE lock
  /\ Resolve(h, "settle", "nack")
  /\ UNCHANGED <<queues, marker, copy, attached, handled, failed>>

\* The library acks or nacks the delivery, if its channel is still there.
Settle(h) ==
  /\ pc[h] = "settle"
  /\ IF attached[h] /\ verdict[h] = "nack"
     THEN Return(copy[h])
     ELSE UNCHANGED <<ready, parked>>
  /\ Resolve(h, "idle", "ack")
  /\ copy' = [copy EXCEPT ![h] = NoCopy]
  /\ attached' = [attached EXCEPT ![h] = FALSE]
  /\ UNCHANGED <<retry, published, redis, history>>

-----------------------------------------------------------------------------
(* The environment.                                                        *)

\* The channel closes; the handler does not notice and goes on.
ChannelCloses(h) ==
  /\ attached[h]
  /\ Fault
  /\ attached' = [attached EXCEPT ![h] = FALSE]
  /\ Return(copy[h])
  /\ UNCHANGED <<retry, published, redis, pc, copy, verdict, handled, failed>>

\* The worker process dies.  (One that had several deliveries in progress is
\* a succession of these steps.)
Crash(h) ==
  /\ pc[h] # "idle"
  /\ Fault
  /\ IF attached[h] THEN Return(copy[h]) ELSE UNCHANGED <<ready, parked>>
  /\ lock' = [m \in Msgs |-> IF lock[m] = h THEN "orphan" ELSE lock[m]]
  /\ Resolve(h, "idle", "ack")
  /\ copy' = [copy EXCEPT ![h] = NoCopy]
  /\ attached' = [attached EXCEPT ![h] = FALSE]
  /\ UNCHANGED <<retry, published, marker, handled, failed>>

\* The TTL of a lock whose handler is gone.
OrphanExpires(m) ==
  /\ lock[m] = "orphan"
  /\ lock' = [lock EXCEPT ![m] = "free"]
  /\ UNCHANGED <<queues, marker, worker, history>>

\* The TTL of a lock under a handler that takes longer than it should.
LockExpires(m) ==
  /\ "lock" \in Expires
  /\ lock[m] \in Handlers
  /\ lock' = [lock EXCEPT ![m] = "free"]
  /\ UNCHANGED <<queues, marker, worker, history>>

MarkerExpires(m) ==
  /\ "marker" \in Expires
  /\ marker[m]
  /\ marker' = [marker EXCEPT ![m] = FALSE]
  /\ UNCHANGED <<queues, lock, worker, history>>

HandlerStep(h) ==
  \/ Deliver(h)
  \/ Check(h)
  \/ Acquire(h)
  \/ RunSucceeds(h)
  \/ RunFails(h)
  \/ Mark(h)
  \/ Send(h)
  \/ Release(h)
  \/ Settle(h)

HandlerFault(h) ==
  \/ CheckFails(h)
  \/ AcquireFails(h)
  \/ MarkFails(h)
  \/ SendFails(h)
  \/ ReleaseFails(h)
  \/ ChannelCloses(h)
  \/ Crash(h)

Next ==
  \/ \E m \in Msgs : \/ Publish(m)
                     \/ OrphanExpires(m)
                     \/ LockExpires(m)
                     \/ MarkerExpires(m)
  \/ \E d \in Copies : RetryExpires(d)
  \/ \E h \in Handlers : HandlerStep(h) \/ HandlerFault(h)

Spec == Init /\ [][Next]_vars

\* The broker delivers while a handler is idle, handlers run to their next
\* await and the awaits settle, the broker and Redis expire what has a TTL.
\* Nothing is assumed of the relay or of faults.
Fairness ==
  /\ \A h \in Handlers : WF_vars(HandlerStep(h))
  /\ \A d \in Copies : WF_vars(RetryExpires(d))
  /\ \A m \in Msgs : WF_vars(OrphanExpires(m))

FairSpec == Spec /\ Fairness

-----------------------------------------------------------------------------
(* Properties.                                                             *)

\* The broker holds a copy of m for s, in a queue or unacked.
InBroker(m, s) ==
  \/ \E d \in Copies : /\ d.msg = m
                       /\ d.sub = s
                       /\ ready[d] > 0 \/ retry[d] > 0
  \/ \E h \in Handlers : /\ attached[h]
                         /\ copy[h].msg = m
                         /\ copy[h].sub = s

\* No message is lost: whatever fails between the steps of handle, a published
\* message was run with success by each subscriber, or stands in its DLQ, or
\* still has a copy at the broker (the ack comes after the retry or DLQ copy).
NoMessageLost ==
  \A m \in Msgs, s \in Subs :
    published[m] > 0 => \/ m \in handled[s]
                        \/ m \in parked[s]
                        \/ InBroker(m, s)

\* The processing lock: while no lock expires under its handler, no two
\* handlers are between acquire and release for the same messageId, even when
\* one of them lost its channel and its message was delivered again.
OneRunAtATime ==
  \A g, h \in Handlers :
    /\ g # h
    /\ {pc[g], pc[h]} \subseteq {"run", "mark", "retry", "dlq", "release"}
    => Msg(g) # Msg(h)

\* x-attempt tells the truth: a copy on its attempt-th retry descends from that
\* many failed runs of its message, and a handler gives a message up only
\* after MaxRetries + 1 of them, in whatever order duplicates, returns and
\* retries were delivered.
AttemptsAreFailures ==
  /\ \A d \in Copies : ready[d] + retry[d] > 0 => d.attempt <= failed[d.msg]
  /\ \A h \in Handlers :
       /\ pc[h] # "idle" => copy[h].attempt <= failed[Msg(h)]
       /\ pc[h] = "dlq" => failed[Msg(h)] > MaxRetries

\* The token guards release: a lock that is some handler's is freed by that
\* handler's own release or by its TTL, and by no handler that outlived its
\* own lock on the same message.
OnlyOwnerReleases ==
  [][\A m \in Msgs, h \in Handlers :
       lock[m] = h /\ lock'[m] # h => pc[h] = "release" \/ UNCHANGED pc
                                      \/ pc'[h] = "idle"]_vars

\* The marker makes duplicates harmless: a message whose marker is set is not
\* run again ("Lần nhận lại thấy marker -> ack-skip").
DuplicatesSkipped ==
  [][\A h \in Handlers :
       pc[h] = "acquire" /\ pc'[h] = "run" => ~marker[Msg(h)]]_vars

\* x-delivery-limit stops crash loops ("backstop crash-loop"): a sound message
\* is parked only after all its retries failed, or after more deliveries than
\* the limit were cut short by a fault.
LimitStopsCrashLoops ==
  \A s \in Subs : \A m \in parked[s] \ (Invalid \union NoId) :
    failed[m] > MaxRetries \/ faults > DeliveryLimit

\* The consumer and its queues implement the promise made to subscribers: a
\* delivery leaves the broker only when it was run with success or set aside,
\* and no copy comes from nowhere.
Deliveries == Msgs \X Subs

Sent  == {e \in Deliveries : published[e[1]] > 0}
Owed  == {e \in Deliveries : InBroker(e[1], e[2])}
Done  == {e \in Deliveries : e[1] \in handled[e[2]]}
Aside == {e \in Deliveries : e[1] \in parked[e[2]]}

Subscriber == INSTANCE Subscription WITH
                sent <- Sent, owed <- Owed, done <- Done, aside <- Aside

ImplementsSubscription == Subscriber!SubSpec

\* A published message is eventually run with success or parked for every
\* subscriber: neither an orphan lock nor a loop of returns holds it up.
EveryMessageSettles ==
  \A m \in Msgs, s \in Subs :
    published[m] > 0 ~> m \in handled[s] \union parked[s]
=============================================================================
