--------------------------- MODULE ConsumerProofs ---------------------------
(***************************************************************************)
(* Proofs about Consumer for any number of messages, handlers, retries,    *)
(* tiers, publishes and faults, and any delivery limit.                    *)
(*                                                                         *)
(* NoMessageLost is not inductive: an attached delivery that is about to   *)
(* be acked still counts as a copy at the broker, and the ack removes it.  *)
(* Kept counts only the deliveries that are not about to be acked.  It     *)
(* needs the marker to mean that the message was handled by the subscriber *)
(* that reads it, hence OneSubscriber; with two subscribers NoMessageLost  *)
(* does not hold.                                                          *)
(***************************************************************************)
EXTENDS Consumer, TLAPS

OneSubscriber == \A s, t \in Subs : s = t

\* What a handler's place tells of its copy, and of the runs of its message.
PlaceOK ==
  \A h \in Handlers :
    /\ attached[h] => pc[h] # "idle"
    /\ pc[h] = "mark" => Msg(h) \in handled[copy[h].sub]
    /\ pc[h] = "retry" => /\ copy[h].attempt < MaxRetries
                          /\ copy[h].attempt < failed[Msg(h)]

MarkerMeansHandled ==
  \A m \in Msgs : marker[m] => \E s \in Subs : m \in handled[s]

\* A handler between acquire and release has its token in the lock.
InSection(h) == pc[h] \in {"run", "mark", "retry", "dlq", "release"}

LockHeld ==
  "lock" \notin Expires
    => \A h \in Handlers : InSection(h) => lock[Msg(h)] = h

\* A delivery that will not be acked as it stands.
Live(h) ==
  /\ pc[h] # "idle"
  /\ attached[h]
  /\ ~(pc[h] \in {"release", "settle"} /\ verdict[h] = "ack")

Stands(m, s) ==
  \E d \in Copies : d.msg = m /\ d.sub = s /\ (ready[d] > 0 \/ retry[d] > 0)

Carried(m, s) ==
  \E h \in Handlers : Live(h) /\ copy[h].msg = m /\ copy[h].sub = s

Safe(m, s) ==
  \/ m \in handled[s]
  \/ m \in parked[s]
  \/ Stands(m, s)
  \/ Carried(m, s)

Kept ==
  OneSubscriber
    => \A m \in Msgs, s \in Subs : published[m] > 0 => Safe(m, s)

IInv ==
  /\ TypeOK
  /\ PlaceOK
  /\ AttemptsAreFailures
  /\ MarkerMeansHandled
  /\ LockHeld
  /\ Kept

-----------------------------------------------------------------------------
(* Copies and queues.                                                      *)

\* The fields of the copy that a busy handler holds.
LEMMA HeldCopy ==
  ASSUME TypeOK, NEW h \in Handlers, pc[h] # "idle"
  PROVE  /\ copy[h] \in Copies
         /\ copy[h].msg \in Msgs
         /\ copy[h].sub \in Subs
         /\ copy[h].attempt \in 0..MaxRetries
         /\ copy[h].returned \in 0..DeliveryLimit
  BY DEF TypeOK, Copies

\* The fields of a copy.
LEMMA CopyFields ==
  ASSUME NEW d \in Copies
  PROVE  /\ d.msg \in Msgs
         /\ d.sub \in Subs
         /\ d.attempt \in 0..MaxRetries
         /\ d.returned \in 0..DeliveryLimit
  BY DEF Copies

\* The events exchange makes one copy for each subscriber.
LEMMA FreshCopies ==
  ASSUME NEW m \in Msgs, NEW a \in 0..MaxRetries
  PROVE  /\ \A d \in Fresh(m, a) : d.msg = m /\ d.attempt = a
         /\ \A s \in Subs : \E d \in Copies :
              d \in Fresh(m, a) /\ d.msg = m /\ d.sub = s
  <1> DEFINE f(s) == [msg |-> m, sub |-> s, attempt |-> a, returned |-> 0]
  <1>1. Fresh(m, a) = {f(s) : s \in Subs}
    BY DEF Fresh
  <1>2. \A s \in Subs : f(s) \in Copies
    BY ConsumerAssumption DEF Copies
  <1>3. \A s : f(s).msg = m /\ f(s).sub = s /\ f(s).attempt = a
    OBVIOUS
  <1> HIDE DEF f
  <1> QED BY <1>1, <1>2, <1>3

\* A queue that takes copies grows by them and by nothing else.
LEMMA AddGrows ==
  ASSUME NEW queue \in [Copies -> Nat], NEW S
  PROVE  /\ Add(queue, S) \in [Copies -> Nat]
         /\ \A d \in Copies : /\ Add(queue, S)[d] >= queue[d]
                              /\ d \in S => Add(queue, S)[d] > 0
                              /\ d \notin S => Add(queue, S)[d] = queue[d]
  BY DEF Add

\* A returned copy stands in its work queue or its message in the DLQs.
LEMMA ReturnKeeps ==
  ASSUME TypeOK, NEW d \in Copies, Return(d)
  PROVE  /\ ready' \in [Copies -> Nat]
         /\ parked' \in [Subs -> SUBSET Msgs]
         /\ \A c \in Copies : ready'[c] >= ready[c]
         /\ \A s \in Subs : parked[s] \subseteq parked'[s]
         /\ \/ d.msg \in parked'[d.sub]
            \/ \E c \in Copies : /\ c.msg = d.msg
                                 /\ c.sub = d.sub
                                 /\ ready'[c] > 0
         /\ \A c \in Copies : ready'[c] > 0
              => \/ ready[c] > 0
                 \/ c.msg = d.msg /\ c.sub = d.sub /\ c.attempt = d.attempt
  <1> DEFINE r == [d EXCEPT !.returned = @ + 1]
  <1>1. CASE d.returned = DeliveryLimit
    BY <1>1, CopyFields DEF Return, Park, TypeOK
  <1>2. CASE d.returned # DeliveryLimit
    <2>1. /\ r \in Copies
          /\ r.msg = d.msg
          /\ r.sub = d.sub
          /\ r.attempt = d.attempt
      BY <1>2, ConsumerAssumption DEF Copies
    <2>2. ready' = Add(ready, {r}) /\ parked' = parked
      BY <1>2 DEF Return
    <2> HIDE DEF r
    <2> QED BY <2>1, <2>2, AddGrows DEF TypeOK
  <1> QED BY <1>1, <1>2

\* A copy with one attempt more is a copy.
LEMMA RetriedCopy ==
  ASSUME NEW d \in Copies, d.attempt < MaxRetries,
         NEW r, r = [d EXCEPT !.attempt = @ + 1, !.returned = 0]
  PROVE  /\ r \in Copies
         /\ r.msg = d.msg
         /\ r.sub = d.sub
         /\ r.attempt = d.attempt + 1
  <1>1. d = [msg |-> d.msg, sub |-> d.sub,
             attempt |-> d.attempt, returned |-> d.returned]
    BY DEF Copies
  <1>2. r = [msg |-> d.msg, sub |-> d.sub,
             attempt |-> d.attempt + 1, returned |-> 0]
    BY <1>1
  <1> QED BY <1>2, CopyFields, ConsumerAssumption DEF Copies

\* The retry copy has a tier to go to, and counts one attempt more.
LEMMA RetryKeeps ==
  ASSUME TypeOK, PlaceOK, NEW h \in Handlers, SendRetry(h)
  PROVE  /\ pc[h] = "retry"
         /\ parked' = parked
         /\ retry' \in [Copies -> Nat]
         /\ \A c \in Copies : retry'[c] >= retry[c]
         /\ \E c \in Copies : /\ c.msg = copy[h].msg
                              /\ c.sub = copy[h].sub
                              /\ retry'[c] > 0
         /\ \A c \in Copies : retry'[c] > 0
              => \/ retry[c] > 0
                 \/ /\ c.msg = copy[h].msg /\ c.sub = copy[h].sub
                    /\ c.attempt = copy[h].attempt + 1
  <1> DEFINE r == [copy[h] EXCEPT !.attempt = @ + 1, !.returned = 0]
  <1>1. pc[h] = "retry" /\ parked' = parked
    BY DEF SendRetry
  <1>2. /\ copy[h] \in Copies
        /\ copy[h].attempt \in Nat
        /\ copy[h].attempt < MaxRetries
    BY <1>1, HeldCopy DEF PlaceOK
  <1>3. /\ r \in Copies
        /\ r.msg = copy[h].msg
        /\ r.sub = copy[h].sub
        /\ r.attempt = copy[h].attempt + 1
    BY <1>2, RetriedCopy
  <1>4. retry' = Add(retry, {r})
    BY <1>2, ConsumerAssumption DEF SendRetry, TiersSuffice
  <1> HIDE DEF r
  <1> QED BY <1>1, <1>3, <1>4, AddGrows DEF TypeOK

\* The DLX exchange puts the message into the DLQ of its own subscriber too.
LEMMA DlqKeeps ==
  ASSUME TypeOK, NEW h \in Handlers, SendDlq(h)
  PROVE  /\ pc[h] \in {"reject", "dlq"}
         /\ retry' = retry
         /\ parked' \in [Subs -> SUBSET Msgs]
         /\ \A s \in Subs : parked[s] \subseteq parked'[s]
         /\ copy[h].msg \in parked'[copy[h].sub]
  <1>1. pc[h] # "idle"
    BY DEF SendDlq
  <1> QED BY <1>1, HeldCopy DEF SendDlq, Park, Msg, TypeOK

\* What the broker took is a copy of the message, with an attempt that counts.
LEMMA SendKeeps ==
  ASSUME TypeOK, PlaceOK, AttemptsAreFailures, NEW h \in Handlers,
         SendRetry(h) \/ SendDlq(h)
  PROVE  /\ pc[h] \in {"reject", "retry", "dlq"}
         /\ retry' \in [Copies -> Nat]
         /\ parked' \in [Subs -> SUBSET Msgs]
         /\ \A c \in Copies : retry'[c] >= retry[c]
         /\ \A s \in Subs : parked[s] \subseteq parked'[s]
         /\ \/ copy[h].msg \in parked'[copy[h].sub]
            \/ \E c \in Copies : /\ c.msg = copy[h].msg
                                 /\ c.sub = copy[h].sub
                                 /\ retry'[c] > 0
         /\ \A c \in Copies : retry'[c] > 0
              => retry[c] > 0 \/ c.attempt <= failed[c.msg]
  <1>1. CASE SendRetry(h)
    <2>1. pc[h] = "retry"
      BY <1>1 DEF SendRetry
    <2>2. /\ copy[h].msg \in Msgs
          /\ copy[h].attempt \in Nat
          /\ copy[h].attempt < failed[copy[h].msg]
      BY <2>1, HeldCopy DEF PlaceOK, Msg
    <2>3. \A c \in Copies :
            c.msg = copy[h].msg /\ c.attempt = copy[h].attempt + 1
              => c.attempt <= failed[c.msg]
      BY <2>2 DEF TypeOK
    <2> QED BY <1>1, <2>3, RetryKeeps DEF TypeOK
  <1>2. CASE SendDlq(h)
    BY <1>2, DlqKeeps DEF TypeOK
  <1> QED BY <1>1, <1>2

\* Whether or not a busy handler's copy is returned, its queue holds copies
\* with attempts that count.
LEMMA GoesBack ==
  ASSUME TypeOK, AttemptsAreFailures, NEW h \in Handlers, pc[h] # "idle",
         Return(copy[h]) \/ UNCHANGED <<ready, parked>>
  PROVE  /\ ready' \in [Copies -> Nat]
         /\ parked' \in [Subs -> SUBSET Msgs]
         /\ \A c \in Copies : ready'[c] >= ready[c]
         /\ \A s \in Subs : parked[s] \subseteq parked'[s]
         /\ \A c \in Copies : ready'[c] > 0
              => ready[c] > 0 \/ c.attempt <= failed[c.msg]
  <1>1. CASE Return(copy[h])
    <2>1. copy[h] \in Copies /\ copy[h].attempt <= failed[copy[h].msg]
      BY HeldCopy DEF AttemptsAreFailures, Msg
    <2> QED BY <1>1, <2>1, ReturnKeeps
  <1>2. CASE UNCHANGED <<ready, parked>>
    BY <1>2 DEF TypeOK
  <1> QED BY <1>1, <1>2

\* Kept is preserved by a step after which whatever stood in a queue, and
\* whatever a live delivery carried, is safe.
LEMMA KeptStep ==
  ASSUME Kept,
         \A m \in Msgs : published'[m] > 0 => published[m] > 0,
         \A s \in Subs : handled[s] \subseteq handled'[s],
         \A s \in Subs : parked[s] \subseteq parked'[s],
         OneSubscriber
           => \A d \in Copies :
                ready[d] > 0 \/ retry[d] > 0 => Safe(d.msg, d.sub)',
         OneSubscriber
           => \A h \in Handlers : Live(h)
                => \A m \in Msgs, s \in Subs :
                     copy[h].msg = m /\ copy[h].sub = s => Safe(m, s)'
  PROVE  Kept'
  <1> SUFFICES ASSUME OneSubscriber,
                      NEW m \in Msgs, NEW s \in Subs, published'[m] > 0
               PROVE  Safe(m, s)'
    BY DEF Kept, OneSubscriber
  <1>1. Safe(m, s)
    BY DEF Kept
  <1>2. CASE m \in handled[s] \/ m \in parked[s]
    BY <1>2 DEF Safe
  <1>3. CASE Stands(m, s)
    BY <1>3 DEF Stands
  <1>4. CASE Carried(m, s)
    BY <1>4 DEF Carried
  <1> QED BY <1>1, <1>2, <1>3, <1>4 DEF Safe

-----------------------------------------------------------------------------
(* Every step preserves IInv.                                              *)

\* Empty queues and idle handlers.
LEMMA InitInductive == Init => IInv
  BY ConsumerAssumption
     DEF Init, IInv, TypeOK, Places, PlaceOK, AttemptsAreFailures,
         MarkerMeansHandled, LockHeld, InSection, Kept

\* A copy for each subscriber stands in its work queue.
LEMMA PublishInductive ==
  ASSUME IInv, NEW m \in Msgs, Publish(m)
  PROVE  IInv'
  <1> USE DEF IInv, Publish, redis, worker, history, Msg
  <1>1. TypeOK'
    <2>1. ready' \in [Copies -> Nat]
      BY AddGrows DEF TypeOK
    <2> QED BY <2>1, ConsumerAssumption DEF TypeOK, Places
  <1>2. PlaceOK'
    BY DEF TypeOK, PlaceOK
  <1>3. AttemptsAreFailures'
    <2>1. \A d \in Copies :
            ready'[d] + retry'[d] > 0 => d.attempt <= failed'[d.msg]
      <3>1. \A d \in Copies : d \in Fresh(m, 0) => d.attempt = 0
        BY FreshCopies, ConsumerAssumption
      <3> QED BY <3>1, AddGrows, CopyFields DEF TypeOK, AttemptsAreFailures
    <2>2. \A g \in Handlers :
            pc'[g] # "idle" => copy'[g].attempt <= failed'[copy'[g].msg]
      BY HeldCopy DEF TypeOK, AttemptsAreFailures
    <2>3. \A g \in Handlers :
            pc'[g] = "dlq" => failed'[copy'[g].msg] > MaxRetries
      BY HeldCopy DEF TypeOK, AttemptsAreFailures
    <2> QED BY <2>1, <2>2, <2>3 DEF AttemptsAreFailures
  <1>4. MarkerMeansHandled'
    BY DEF TypeOK, MarkerMeansHandled
  <1>5. LockHeld'
    BY ConsumerAssumption DEF TypeOK, LockHeld, InSection
  <1>6. Kept'
    <2> SUFFICES ASSUME OneSubscriber, NEW q \in Msgs, NEW s \in Subs,
                        published'[q] > 0
                 PROVE  Safe(q, s)'
      BY DEF Kept, OneSubscriber
    <2>1. CASE q = m
      <3>1. PICK d \in Copies : d \in Fresh(m, 0) /\ d.msg = m /\ d.sub = s
        BY FreshCopies, ConsumerAssumption
      <3>2. ready'[d] > 0
        BY <3>1, AddGrows DEF TypeOK
      <3> QED BY <2>1, <3>1, <3>2 DEF Safe, Stands
    <2>2. CASE q # m
      <3>1. Safe(q, s)
        BY <2>2 DEF Kept, TypeOK
      <3>2. \A d \in Copies : ready[d] > 0 => ready'[d] > 0
        BY AddGrows DEF TypeOK
      <3> QED BY <3>1, <3>2 DEF Safe, Stands, Carried, Live
    <2> QED BY <2>1, <2>2
  <1> QED BY <1>1, <1>2, <1>3, <1>4, <1>5, <1>6

\* The copy that leaves its tier comes back to its subscriber.
LEMMA RetryExpiresInductive ==
  ASSUME IInv, NEW d \in Copies, RetryExpires(d)
  PROVE  IInv'
  <1> USE DEF IInv, RetryExpires, redis, worker, history, Msg
  <1>1. TypeOK'
    <2>1. ready' \in [Copies -> Nat]
      BY AddGrows DEF TypeOK
    <2>2. retry' \in [Copies -> Nat]
      BY DEF TypeOK
    <2> QED BY <2>1, <2>2, ConsumerAssumption DEF TypeOK, Places
  <1>2. PlaceOK'
    BY DEF TypeOK, PlaceOK
  <1>3. AttemptsAreFailures'
    <2>1. \A c \in Copies :
            ready'[c] + retry'[c] > 0 => c.attempt <= failed'[c.msg]
      <3>1. d.attempt <= failed[d.msg]
        BY DEF AttemptsAreFailures, TypeOK
      <3>2. \A c \in Copies : c \in Fresh(d.msg, d.attempt)
                             => c.msg = d.msg /\ c.attempt = d.attempt
        BY FreshCopies, CopyFields
      <3>3. \A c \in Copies :
              ready'[c] > 0 => ready[c] > 0 \/ c \in Fresh(d.msg, d.attempt)
        BY AddGrows DEF TypeOK
      <3>4. \A c \in Copies : /\ ready[c] \in Nat /\ ready'[c] \in Nat
                              /\ retry[c] \in Nat /\ retry'[c] \in Nat
                              /\ retry'[c] <= retry[c]
        BY <1>1 DEF TypeOK
      <3> QED BY <3>1, <3>2, <3>3, <3>4 DEF AttemptsAreFailures
    <2>2. \A g \in Handlers :
            pc'[g] # "idle" => copy'[g].attempt <= failed'[copy'[g].msg]
      BY HeldCopy DEF TypeOK, AttemptsAreFailures
    <2>3. \A g \in Handlers :
            pc'[g] = "dlq" => failed'[copy'[g].msg] > MaxRetries
      BY HeldCopy DEF TypeOK, AttemptsAreFailures
    <2> QED BY <2>1, <2>2, <2>3 DEF AttemptsAreFailures
  <1>4. MarkerMeansHandled'
    BY DEF TypeOK, MarkerMeansHandled
  <1>5. LockHeld'
    BY ConsumerAssumption DEF TypeOK, LockHeld, InSection
  <1>6. Kept'
    <2>1. PICK c \in Copies : /\ c \in Fresh(d.msg, d.attempt)
                             /\ c.msg = d.msg
                             /\ c.sub = d.sub
      BY FreshCopies, CopyFields
    <2>2. ready'[c] > 0
      BY <2>1, AddGrows DEF TypeOK
    <2>3. \A b \in Copies : /\ ready[b] > 0 => ready'[b] > 0
                            /\ b # d => retry'[b] = retry[b]
      BY AddGrows DEF TypeOK
    <2>4. ASSUME NEW b \in Copies, ready[b] > 0 \/ retry[b] > 0
          PROVE  Safe(b.msg, b.sub)'
      BY <2>1, <2>2, <2>3, <2>4 DEF Safe, Stands
    <2>5. ASSUME NEW g \in Handlers, Live(g),
                 NEW m \in Msgs, NEW s \in Subs,
                 copy[g].msg = m, copy[g].sub = s
          PROVE  Safe(m, s)'
      BY <2>5 DEF Safe, Carried, Live
    <2> QED BY <2>4, <2>5, KeptStep
  <1> QED BY <1>1, <1>2, <1>3, <1>4, <1>5, <1>6

\* The copy that leaves its queue is carried by a live delivery.
LEMMA DeliverInductive ==
  ASSUME IInv, NEW h \in Handlers, Deliver(h)
  PROVE  IInv'
  <1> USE DEF IInv, Deliver, Goto, redis, history, Msg
  <1>1. TypeOK'
    BY ConsumerAssumption DEF TypeOK, Places
  <1>2. PlaceOK'
    BY DEF TypeOK, PlaceOK
  <1>3. AttemptsAreFailures'
    BY DEF TypeOK, AttemptsAreFailures
  <1>4. MarkerMeansHandled'
    BY DEF TypeOK, MarkerMeansHandled
  <1>5. LockHeld'
    BY ConsumerAssumption DEF TypeOK, LockHeld, InSection
  <1>6. Kept'
    BY KeptStep, CopyFields, HeldCopy DEF TypeOK, Safe, Stands, Carried, Live
  <1> QED BY <1>1, <1>2, <1>3, <1>4, <1>5, <1>6

\* A delivery is skipped only if its message was handled.
LEMMA CheckInductive ==
  ASSUME IInv, NEW h \in Handlers, Check(h)
  PROVE  IInv'
  <1> USE DEF IInv, Check, Goto, Resolve, queues, redis, history, Msg
  <1>1. TypeOK'
    BY ConsumerAssumption DEF TypeOK, Places
  <1>2. PlaceOK'
    BY DEF TypeOK, PlaceOK
  <1>3. AttemptsAreFailures'
    BY DEF TypeOK, AttemptsAreFailures
  <1>4. MarkerMeansHandled'
    BY DEF TypeOK, MarkerMeansHandled
  <1>5. LockHeld'
    BY ConsumerAssumption DEF TypeOK, LockHeld, InSection
  <1>6. Kept'
    <2>1. ASSUME OneSubscriber, NEW d \in Copies, ready[d] > 0 \/ retry[d] > 0
          PROVE  Safe(d.msg, d.sub)'
      BY <2>1, CopyFields DEF Safe, Stands, TypeOK
    <2>2. ASSUME OneSubscriber, NEW g \in Handlers, Live(g),
                 NEW m \in Msgs, NEW s \in Subs,
                 copy[g].msg = m, copy[g].sub = s
          PROVE  Safe(m, s)'
      <3>1. CASE g = h
        <4>1. CASE marker[m]
          <5>1. m \in handled[s]
            BY <2>2, <3>1, <4>1 DEF MarkerMeansHandled, OneSubscriber
          <5> QED BY <5>1 DEF Safe
        <4>2. CASE ~marker[m]
          BY <2>2, <3>1, <4>2 DEF Safe, Carried, Live, TypeOK
        <4> QED BY <4>1, <4>2
      <3>2. CASE g # h
        BY <2>2, <3>2 DEF Safe, Carried, Live, TypeOK
      <3> QED BY <3>1, <3>2
    <2> QED BY <2>1, <2>2, KeptStep DEF TypeOK
  <1> QED BY <1>1, <1>2, <1>3, <1>4, <1>5, <1>6

\* The delivery stays live.
LEMMA CheckFailsInductive ==
  ASSUME IInv, NEW h \in Handlers, CheckFails(h)
  PROVE  IInv'
  <1> USE DEF IInv, CheckFails, Fault, Goto, Resolve, queues, redis, Msg
  <1>1. TypeOK'
    BY ConsumerAssumption DEF TypeOK, Places
  <1>2. PlaceOK'
    BY DEF TypeOK, PlaceOK
  <1>3. AttemptsAreFailures'
    BY DEF TypeOK, AttemptsAreFailures
  <1>4. MarkerMeansHandled'
    BY DEF TypeOK, MarkerMeansHandled
  <1>5. LockHeld'
    BY ConsumerAssumption DEF TypeOK, LockHeld, InSection
  <1>6. Kept'
    BY KeptStep, CopyFields, HeldCopy DEF TypeOK, Safe, Stands, Carried, Live
  <1> QED BY <1>1, <1>2, <1>3, <1>4, <1>5, <1>6

\* The lock was free, so no handler is in its section.
LEMMA AcquireInductive ==
  ASSUME IInv, NEW h \in Handlers, Acquire(h)
  PROVE  IInv'
  <1> USE DEF IInv, Acquire, Goto, Resolve, queues, history, Msg
  <1>1. TypeOK'
    BY ConsumerAssumption DEF TypeOK, Places
  <1>2. PlaceOK'
    BY DEF TypeOK, PlaceOK
  <1>3. AttemptsAreFailures'
    BY DEF TypeOK, AttemptsAreFailures
  <1>4. MarkerMeansHandled'
    BY DEF TypeOK, MarkerMeansHandled
  <1>5. LockHeld'
    <2> SUFFICES ASSUME "lock" \notin Expires, NEW g \in Handlers, InSection(g)'
                 PROVE  lock'[copy'[g].msg] = g
      BY DEF LockHeld
    <2>1. CASE g = h
      BY <2>1, HeldCopy DEF TypeOK, InSection, LockHeld
    <2>2. CASE g # h
      <3>1. InSection(g) /\ copy'[g] = copy[g]
        BY <2>2 DEF TypeOK, InSection
      <3>2. lock[copy[g].msg] = g /\ copy[g].msg \in Msgs
        BY <3>1, HeldCopy DEF LockHeld, InSection
      <3> QED BY <2>2, <3>1, <3>2, ConsumerAssumption, HeldCopy DEF TypeOK
    <2> QED BY <2>1, <2>2
  <1>6. Kept'
    BY KeptStep, CopyFields, HeldCopy DEF TypeOK, Safe, Stands, Carried, Live
  <1> QED BY <1>1, <1>2, <1>3, <1>4, <1>5, <1>6

\* The lock is not given to the handler.
LEMMA AcquireFailsInductive ==
  ASSUME IInv, NEW h \in Handlers, AcquireFails(h)
  PROVE  IInv'
  <1> USE DEF IInv, AcquireFails, Fault, Goto, Resolve, queues, Msg
  <1>1. TypeOK'
    BY ConsumerAssumption DEF TypeOK, Places
  <1>2. PlaceOK'
    BY DEF TypeOK, PlaceOK
  <1>3. AttemptsAreFailures'
    BY DEF TypeOK, AttemptsAreFailures
  <1>4. MarkerMeansHandled'
    BY DEF TypeOK, MarkerMeansHandled
  <1>5. LockHeld'
    <2> SUFFICES ASSUME "lock" \notin Expires, NEW g \in Handlers, InSection(g)'
                 PROVE  lock'[copy'[g].msg] = g
      BY DEF LockHeld
    <2>1. CASE g = h
      BY <2>1, HeldCopy DEF TypeOK, InSection, LockHeld
    <2>2. CASE g # h
      <3>1. InSection(g) /\ copy'[g] = copy[g]
        BY <2>2 DEF TypeOK, InSection
      <3>2. lock[copy[g].msg] = g /\ copy[g].msg \in Msgs
        BY <3>1, HeldCopy DEF LockHeld, InSection
      <3> QED BY <2>2, <3>1, <3>2, ConsumerAssumption, HeldCopy DEF TypeOK
    <2> QED BY <2>1, <2>2
  <1>6. Kept'
    BY KeptStep, CopyFields, HeldCopy DEF TypeOK, Safe, Stands, Carried, Live
  <1> QED BY <1>1, <1>2, <1>3, <1>4, <1>5, <1>6

\* The message is handled before its marker is set.
LEMMA RunSucceedsInductive ==
  ASSUME IInv, NEW h \in Handlers, RunSucceeds(h)
  PROVE  IInv'
  <1> USE DEF IInv, RunSucceeds, Goto, queues, redis, Msg
  <1>1. TypeOK'
    BY HeldCopy DEF TypeOK, Places
  <1>2. PlaceOK'
    BY HeldCopy DEF TypeOK, PlaceOK
  <1>3. AttemptsAreFailures'
    BY DEF TypeOK, AttemptsAreFailures
  <1>4. MarkerMeansHandled'
    BY DEF TypeOK, MarkerMeansHandled
  <1>5. LockHeld'
    BY ConsumerAssumption DEF TypeOK, LockHeld, InSection
  <1>6. Kept'
    BY KeptStep, CopyFields, HeldCopy DEF TypeOK, Safe, Stands, Carried, Live
  <1> QED BY <1>1, <1>2, <1>3, <1>4, <1>5, <1>6

\* The run that failed is counted.
LEMMA RunFailsInductive ==
  ASSUME IInv, NEW h \in Handlers, RunFails(h)
  PROVE  IInv'
  <1> USE DEF IInv, RunFails, Goto, CatchError, queues, redis, Msg
  <1>1. TypeOK'
    BY HeldCopy, ConsumerAssumption DEF TypeOK, Places
  <1>2. PlaceOK'
    <2>1. /\ copy[h].msg \in Msgs
          /\ copy[h].attempt \in 0..MaxRetries
          /\ copy[h].attempt <= failed[copy[h].msg]
      BY HeldCopy DEF AttemptsAreFailures
    <2>2. \A m \in Msgs : /\ failed[m] \in Nat /\ failed'[m] \in Nat
                          /\ failed'[m] >= failed[m]
      BY ConsumerAssumption DEF TypeOK
    <2>3. ASSUME NEW g \in Handlers, pc'[g] = "retry"
          PROVE  /\ copy'[g].attempt < MaxRetries
                 /\ copy'[g].attempt < failed'[copy'[g].msg]
      <3>1. CASE g = h
        BY <2>1, <2>3, <3>1, ConsumerAssumption DEF TypeOK
      <3>2. CASE g # h
        <4>1. pc[g] = "retry" /\ copy'[g] = copy[g]
          BY <2>3, <3>2 DEF TypeOK
        <4>2. copy[g].attempt \in Nat /\ copy[g].msg \in Msgs
          BY <4>1, HeldCopy
        <4> QED BY <2>2, <4>1, <4>2 DEF PlaceOK
      <3> QED BY <3>1, <3>2
    <2>4. ASSUME NEW g \in Handlers, pc'[g] = "mark"
          PROVE  copy'[g].msg \in handled'[copy'[g].sub]
      BY <2>4 DEF TypeOK, PlaceOK
    <2> QED BY <2>3, <2>4 DEF PlaceOK
  <1>3. AttemptsAreFailures'
    <2>0. \A m \in Msgs : /\ failed[m] \in Nat /\ failed'[m] \in Nat
                          /\ failed'[m] >= failed[m]
      BY ConsumerAssumption DEF TypeOK
    <2>1. \A d \in Copies :
            ready'[d] + retry'[d] > 0 => d.attempt <= failed'[d.msg]
      BY <2>0, CopyFields DEF TypeOK, AttemptsAreFailures
    <2>2. \A g \in Handlers :
            pc'[g] # "idle" => copy'[g].attempt <= failed'[copy'[g].msg]
      <3> SUFFICES ASSUME NEW g \in Handlers, pc'[g] # "idle"
                 PROVE  copy'[g].attempt <= failed'[copy'[g].msg]
        OBVIOUS
      <3>1. pc[g] # "idle" /\ copy'[g] = copy[g]
        BY DEF TypeOK
      <3> QED BY <2>0, <3>1, HeldCopy DEF AttemptsAreFailures
    <2>3. \A g \in Handlers :
            pc'[g] = "dlq" => failed'[copy'[g].msg] > MaxRetries
      <3> SUFFICES ASSUME NEW g \in Handlers, pc'[g] = "dlq"
                 PROVE  failed'[copy'[g].msg] > MaxRetries
        OBVIOUS
      <3>1. CASE g = h
        <4>1. ~(copy[h].attempt < MaxRetries)
          BY <3>1 DEF TypeOK
        <4>2. /\ copy[h].attempt \in 0..MaxRetries
              /\ copy[h].msg \in Msgs
              /\ copy[h].attempt <= failed[copy[h].msg]
          BY HeldCopy DEF AttemptsAreFailures
        <4>3. copy[h].attempt = MaxRetries
          BY <4>1, <4>2, ConsumerAssumption
        <4> QED BY <3>1, <4>2, <4>3, ConsumerAssumption DEF TypeOK
      <3>2. CASE g # h
        <4>1. pc[g] = "dlq" /\ copy'[g] = copy[g]
          BY <3>2 DEF TypeOK
        <4> QED BY <2>0, <4>1, HeldCopy, ConsumerAssumption
                   DEF AttemptsAreFailures
      <3> QED BY <3>1, <3>2
    <2> QED BY <2>1, <2>2, <2>3 DEF AttemptsAreFailures
  <1>4. MarkerMeansHandled'
    BY DEF TypeOK, MarkerMeansHandled
  <1>5. LockHeld'
    BY ConsumerAssumption DEF TypeOK, LockHeld, InSection
  <1>6. Kept'
    BY KeptStep, CopyFields, HeldCopy DEF TypeOK, Safe, Stands, Carried, Live
  <1> QED BY <1>1, <1>2, <1>3, <1>4, <1>5, <1>6

\* The marker is set for a message that was handled.
LEMMA MarkInductive ==
  ASSUME IInv, NEW h \in Handlers, Mark(h)
  PROVE  IInv'
  <1> USE DEF IInv, Mark, Goto, Resolve, queues, history, Msg
  <1>1. TypeOK'
    BY ConsumerAssumption DEF TypeOK, Places
  <1>2. PlaceOK'
    BY DEF TypeOK, PlaceOK
  <1>3. AttemptsAreFailures'
    BY DEF TypeOK, AttemptsAreFailures
  <1>4. MarkerMeansHandled'
    <2>1. /\ copy[h].msg \in Msgs /\ copy[h].sub \in Subs
          /\ copy[h].msg \in handled[copy[h].sub]
      BY HeldCopy DEF PlaceOK
    <2> QED BY <2>1 DEF TypeOK, MarkerMeansHandled
  <1>5. LockHeld'
    BY ConsumerAssumption DEF TypeOK, LockHeld, InSection
  <1>6. Kept'
    <2>1. ASSUME OneSubscriber, NEW d \in Copies, ready[d] > 0 \/ retry[d] > 0
          PROVE  Safe(d.msg, d.sub)'
      BY <2>1, CopyFields DEF Safe, Stands, TypeOK
    <2>2. ASSUME OneSubscriber, NEW g \in Handlers, Live(g),
                 NEW m \in Msgs, NEW s \in Subs,
                 copy[g].msg = m, copy[g].sub = s
          PROVE  Safe(m, s)'
      <3>1. CASE g = h
        BY <2>2, <3>1 DEF Safe, PlaceOK
      <3>2. CASE g # h
        BY <2>2, <3>2 DEF Safe, Carried, Live, TypeOK
      <3> QED BY <3>1, <3>2
    <2> QED BY <2>1, <2>2, KeptStep DEF TypeOK
  <1> QED BY <1>1, <1>2, <1>3, <1>4, <1>5, <1>6

\* The marker may be set; the run counts as failed.
LEMMA MarkFailsInductive ==
  ASSUME IInv, NEW h \in Handlers, MarkFails(h)
  PROVE  IInv'
  <1> USE DEF IInv, MarkFails, Fault, Goto, CatchError, queues, Msg
  <1>1. TypeOK'
    BY HeldCopy, ConsumerAssumption DEF TypeOK, Places
  <1>2. PlaceOK'
    <2>1. /\ copy[h].msg \in Msgs
          /\ copy[h].attempt \in 0..MaxRetries
          /\ copy[h].attempt <= failed[copy[h].msg]
      BY HeldCopy DEF AttemptsAreFailures
    <2>2. \A m \in Msgs : /\ failed[m] \in Nat /\ failed'[m] \in Nat
                          /\ failed'[m] >= failed[m]
      BY ConsumerAssumption DEF TypeOK
    <2>3. ASSUME NEW g \in Handlers, pc'[g] = "retry"
          PROVE  /\ copy'[g].attempt < MaxRetries
                 /\ copy'[g].attempt < failed'[copy'[g].msg]
      <3>1. CASE g = h
        BY <2>1, <2>3, <3>1, ConsumerAssumption DEF TypeOK
      <3>2. CASE g # h
        <4>1. pc[g] = "retry" /\ copy'[g] = copy[g]
          BY <2>3, <3>2 DEF TypeOK
        <4>2. copy[g].attempt \in Nat /\ copy[g].msg \in Msgs
          BY <4>1, HeldCopy
        <4> QED BY <2>2, <4>1, <4>2 DEF PlaceOK
      <3> QED BY <3>1, <3>2
    <2>4. ASSUME NEW g \in Handlers, pc'[g] = "mark"
          PROVE  copy'[g].msg \in handled'[copy'[g].sub]
      BY <2>4 DEF TypeOK, PlaceOK
    <2> QED BY <2>3, <2>4 DEF PlaceOK
  <1>3. AttemptsAreFailures'
    <2>0. \A m \in Msgs : /\ failed[m] \in Nat /\ failed'[m] \in Nat
                          /\ failed'[m] >= failed[m]
      BY ConsumerAssumption DEF TypeOK
    <2>1. \A d \in Copies :
            ready'[d] + retry'[d] > 0 => d.attempt <= failed'[d.msg]
      BY <2>0, CopyFields DEF TypeOK, AttemptsAreFailures
    <2>2. \A g \in Handlers :
            pc'[g] # "idle" => copy'[g].attempt <= failed'[copy'[g].msg]
      <3> SUFFICES ASSUME NEW g \in Handlers, pc'[g] # "idle"
                 PROVE  copy'[g].attempt <= failed'[copy'[g].msg]
        OBVIOUS
      <3>1. pc[g] # "idle" /\ copy'[g] = copy[g]
        BY DEF TypeOK
      <3> QED BY <2>0, <3>1, HeldCopy DEF AttemptsAreFailures
    <2>3. \A g \in Handlers :
            pc'[g] = "dlq" => failed'[copy'[g].msg] > MaxRetries
      <3> SUFFICES ASSUME NEW g \in Handlers, pc'[g] = "dlq"
                 PROVE  failed'[copy'[g].msg] > MaxRetries
        OBVIOUS
      <3>1. CASE g = h
        <4>1. ~(copy[h].attempt < MaxRetries)
          BY <3>1 DEF TypeOK
        <4>2. /\ copy[h].attempt \in 0..MaxRetries
              /\ copy[h].msg \in Msgs
              /\ copy[h].attempt <= failed[copy[h].msg]
          BY HeldCopy DEF AttemptsAreFailures
        <4>3. copy[h].attempt = MaxRetries
          BY <4>1, <4>2, ConsumerAssumption
        <4> QED BY <3>1, <4>2, <4>3, ConsumerAssumption DEF TypeOK
      <3>2. CASE g # h
        <4>1. pc[g] = "dlq" /\ copy'[g] = copy[g]
          BY <3>2 DEF TypeOK
        <4> QED BY <2>0, <4>1, HeldCopy, ConsumerAssumption
                   DEF AttemptsAreFailures
      <3> QED BY <3>1, <3>2
    <2> QED BY <2>1, <2>2, <2>3 DEF AttemptsAreFailures
  <1>4. MarkerMeansHandled'
    <2>1. /\ copy[h].msg \in Msgs /\ copy[h].sub \in Subs
          /\ copy[h].msg \in handled[copy[h].sub]
      BY HeldCopy DEF PlaceOK
    <2> QED BY <2>1 DEF TypeOK, MarkerMeansHandled
  <1>5. LockHeld'
    BY ConsumerAssumption DEF TypeOK, LockHeld, InSection
  <1>6. Kept'
    BY KeptStep, CopyFields, HeldCopy DEF TypeOK, Safe, Stands, Carried, Live
  <1> QED BY <1>1, <1>2, <1>3, <1>4, <1>5, <1>6

\* The copy is in its tier or the DLQs before the ack.
LEMMA SendInductive ==
  ASSUME IInv, NEW h \in Handlers, Send(h)
  PROVE  IInv'
  <1> USE DEF IInv, Send, Goto, Resolve, AfterSend, redis, history, Msg
  <1>1. TypeOK'
    BY SendKeeps DEF TypeOK, Places
  <1>2. PlaceOK'
    BY DEF TypeOK, PlaceOK
  <1>3. AttemptsAreFailures'
    <2>0. \A d \in Copies : /\ ready[d] \in Nat /\ retry[d] \in Nat
                            /\ ready'[d] \in Nat /\ retry'[d] \in Nat
      BY <1>1 DEF TypeOK
    <2>1. \A d \in Copies :
            ready'[d] + retry'[d] > 0 => d.attempt <= failed'[d.msg]
      BY <2>0, SendKeeps DEF AttemptsAreFailures
    <2>2. \A g \in Handlers :
            pc'[g] # "idle" => copy'[g].attempt <= failed'[copy'[g].msg]
      BY SendKeeps, HeldCopy DEF TypeOK, AttemptsAreFailures
    <2>3. \A g \in Handlers :
            pc'[g] = "dlq" => failed'[copy'[g].msg] > MaxRetries
      BY SendKeeps, HeldCopy DEF TypeOK, AttemptsAreFailures
    <2> QED BY <2>1, <2>2, <2>3 DEF AttemptsAreFailures
  <1>4. MarkerMeansHandled'
    BY DEF TypeOK, MarkerMeansHandled
  <1>5. LockHeld'
    <2> SUFFICES ASSUME "lock" \notin Expires, NEW g \in Handlers, InSection(g)'
                 PROVE  lock'[copy'[g].msg] = g
      BY DEF LockHeld
    <2>1. CASE g = h
      BY <2>1, SendKeeps, HeldCopy DEF TypeOK, InSection, LockHeld
    <2>2. CASE g # h
      <3>1. InSection(g) /\ copy'[g] = copy[g]
        BY <2>2 DEF TypeOK, InSection
      <3>2. lock[copy[g].msg] = g /\ copy[g].msg \in Msgs
        BY <3>1, HeldCopy DEF LockHeld, InSection
      <3> QED BY <2>2, <3>1, <3>2, ConsumerAssumption, HeldCopy DEF TypeOK
    <2> QED BY <2>1, <2>2
  <1>6. Kept'
    <2>1. ASSUME OneSubscriber, NEW d \in Copies, ready[d] > 0 \/ retry[d] > 0
          PROVE  Safe(d.msg, d.sub)'
      BY <2>1, SendKeeps DEF Safe, Stands, TypeOK
    <2>2. ASSUME OneSubscriber, NEW g \in Handlers, Live(g),
                 NEW m \in Msgs, NEW s \in Subs,
                 copy[g].msg = m, copy[g].sub = s
          PROVE  Safe(m, s)'
      <3>1. CASE g = h
        BY <2>2, <3>1, SendKeeps DEF Safe, Stands
      <3>2. CASE g # h
        BY <2>2, <3>2 DEF Safe, Carried, Live, TypeOK
      <3> QED BY <3>1, <3>2
    <2> QED BY <2>1, <2>2, KeptStep, SendKeeps DEF TypeOK
  <1> QED BY <1>1, <1>2, <1>3, <1>4, <1>5, <1>6

\* With or without its copy the delivery stays live.
LEMMA SendFailsInductive ==
  ASSUME IInv, NEW h \in Handlers, SendFails(h)
  PROVE  IInv'
  <1> USE DEF IInv, SendFails, Fault, Goto, Resolve, AfterSend, redis, Msg
  <1>1. TypeOK'
    <2>1. retry' \in [Copies -> Nat] /\ parked' \in [Subs -> SUBSET Msgs]
      BY SendKeeps DEF TypeOK
    <2> QED BY <2>1 DEF TypeOK, Places
  <1>2. PlaceOK'
    BY DEF TypeOK, PlaceOK
  <1>3. AttemptsAreFailures'
    <2>0. \A d \in Copies : /\ ready[d] \in Nat /\ retry[d] \in Nat
                            /\ ready'[d] \in Nat /\ retry'[d] \in Nat
      BY <1>1 DEF TypeOK
    <2>1. \A d \in Copies :
            ready'[d] + retry'[d] > 0 => d.attempt <= failed'[d.msg]
      BY <2>0, SendKeeps DEF AttemptsAreFailures
    <2>2. \A g \in Handlers :
            pc'[g] # "idle" => copy'[g].attempt <= failed'[copy'[g].msg]
      BY HeldCopy DEF TypeOK, AttemptsAreFailures
    <2>3. \A g \in Handlers :
            pc'[g] = "dlq" => failed'[copy'[g].msg] > MaxRetries
      BY HeldCopy DEF TypeOK, AttemptsAreFailures
    <2> QED BY <2>1, <2>2, <2>3 DEF AttemptsAreFailures
  <1>4. MarkerMeansHandled'
    BY DEF TypeOK, MarkerMeansHandled
  <1>5. LockHeld'
    BY ConsumerAssumption DEF TypeOK, LockHeld, InSection
  <1>6. Kept'
    <2>0. /\ \A c \in Copies : retry'[c] >= retry[c]
          /\ \A s \in Subs : parked[s] \subseteq parked'[s]
      BY SendKeeps DEF TypeOK
    <2>1. ASSUME OneSubscriber, NEW d \in Copies, ready[d] > 0 \/ retry[d] > 0
          PROVE  Safe(d.msg, d.sub)'
      BY <1>1, <2>0, <2>1 DEF Safe, Stands, TypeOK
    <2>2. ASSUME OneSubscriber, NEW g \in Handlers, Live(g),
                 NEW m \in Msgs, NEW s \in Subs,
                 copy[g].msg = m, copy[g].sub = s
          PROVE  Safe(m, s)'
      BY <2>2 DEF Safe, Carried, Live, TypeOK
    <2> QED BY <2>1, <2>2, KeptStep, <2>0 DEF TypeOK
  <1> QED BY <1>1, <1>2, <1>3, <1>4, <1>5, <1>6

\* Only the handler's own lock is freed.
LEMMA ReleaseInductive ==
  ASSUME IInv, NEW h \in Handlers, Release(h)
  PROVE  IInv'
  <1> USE DEF IInv, Release, Goto, queues, history, Msg
  <1>1. TypeOK'
    BY ConsumerAssumption DEF TypeOK, Places
  <1>2. PlaceOK'
    BY DEF TypeOK, PlaceOK
  <1>3. AttemptsAreFailures'
    BY DEF TypeOK, AttemptsAreFailures
  <1>4. MarkerMeansHandled'
    BY DEF TypeOK, MarkerMeansHandled
  <1>5. LockHeld'
    <2> SUFFICES ASSUME "lock" \notin Expires, NEW g \in Handlers, InSection(g)'
                 PROVE  lock'[copy'[g].msg] = g
      BY DEF LockHeld
    <2>1. CASE g = h
      BY <2>1, HeldCopy DEF TypeOK, InSection, LockHeld
    <2>2. CASE g # h
      <3>1. InSection(g) /\ copy'[g] = copy[g]
        BY <2>2 DEF TypeOK, InSection
      <3>2. lock[copy[g].msg] = g /\ copy[g].msg \in Msgs
        BY <3>1, HeldCopy DEF LockHeld, InSection
      <3> QED BY <2>2, <3>1, <3>2, ConsumerAssumption, HeldCopy DEF TypeOK
    <2> QED BY <2>1, <2>2
  <1>6. Kept'
    BY KeptStep, CopyFields, HeldCopy DEF TypeOK, Safe, Stands, Carried, Live
  <1> QED BY <1>1, <1>2, <1>3, <1>4, <1>5, <1>6

\* The delivery becomes live again.
LEMMA ReleaseFailsInductive ==
  ASSUME IInv, NEW h \in Handlers, ReleaseFails(h)
  PROVE  IInv'
  <1> USE DEF IInv, ReleaseFails, Fault, Goto, Resolve, queues, Msg
  <1>1. TypeOK'
    BY HeldCopy DEF TypeOK, Places
  <1>2. PlaceOK'
    BY DEF TypeOK, PlaceOK
  <1>3. AttemptsAreFailures'
    BY DEF TypeOK, AttemptsAreFailures
  <1>4. MarkerMeansHandled'
    BY DEF TypeOK, MarkerMeansHandled
  <1>5. LockHeld'
    <2> SUFFICES ASSUME "lock" \notin Expires, NEW g \in Handlers, InSection(g)'
                 PROVE  lock'[copy'[g].msg] = g
      BY DEF LockHeld
    <2>1. CASE g = h
      BY <2>1, HeldCopy DEF TypeOK, InSection, LockHeld
    <2>2. CASE g # h
      <3>1. InSection(g) /\ copy'[g] = copy[g]
        BY <2>2 DEF TypeOK, InSection
      <3>2. lock[copy[g].msg] = g /\ copy[g].msg \in Msgs
        BY <3>1, HeldCopy DEF LockHeld, InSection
      <3> QED BY <2>2, <3>1, <3>2, ConsumerAssumption, HeldCopy DEF TypeOK
    <2> QED BY <2>1, <2>2
  <1>6. Kept'
    BY KeptStep, CopyFields, HeldCopy DEF TypeOK, Safe, Stands, Carried, Live
  <1> QED BY <1>1, <1>2, <1>3, <1>4, <1>5, <1>6

\* An acked delivery was not live; a nacked copy is returned.
LEMMA SettleInductive ==
  ASSUME IInv, NEW h \in Handlers, Settle(h)
  PROVE  IInv'
  <1> USE DEF IInv, Settle, Goto, Resolve, redis, history, Msg
  <1>1. TypeOK'
    <2>a. pc[h] # "idle" /\ (Return(copy[h]) \/ UNCHANGED <<ready, parked>>)
      BY DEF PlaceOK, TypeOK
    <2>b. ready' \in [Copies -> Nat] /\ parked' \in [Subs -> SUBSET Msgs]
      BY <2>a, GoesBack
    <2> QED BY <2>b, ConsumerAssumption DEF TypeOK, Places
  <1>2. PlaceOK'
    BY DEF TypeOK, PlaceOK
  <1>3. AttemptsAreFailures'
    <2>a. pc[h] # "idle" /\ (Return(copy[h]) \/ UNCHANGED <<ready, parked>>)
      BY DEF PlaceOK, TypeOK
    <2>0. \A d \in Copies : /\ ready[d] \in Nat /\ retry[d] \in Nat
                            /\ ready'[d] \in Nat /\ retry'[d] \in Nat
      BY <1>1 DEF TypeOK
    <2>1. \A d \in Copies :
            ready'[d] + retry'[d] > 0 => d.attempt <= failed'[d.msg]
      BY <2>0, <2>a, GoesBack DEF AttemptsAreFailures
    <2>2. \A g \in Handlers :
            pc'[g] # "idle" => copy'[g].attempt <= failed'[copy'[g].msg]
      BY HeldCopy DEF TypeOK, AttemptsAreFailures
    <2>3. \A g \in Handlers :
            pc'[g] = "dlq" => failed'[copy'[g].msg] > MaxRetries
      BY HeldCopy DEF TypeOK, AttemptsAreFailures
    <2> QED BY <2>1, <2>2, <2>3 DEF AttemptsAreFailures
  <1>4. MarkerMeansHandled'
    BY DEF TypeOK, MarkerMeansHandled
  <1>5. LockHeld'
    BY ConsumerAssumption DEF TypeOK, LockHeld, InSection
  <1>6. Kept'
    <2>a. pc[h] # "idle" /\ (Return(copy[h]) \/ UNCHANGED <<ready, parked>>)
      BY DEF PlaceOK, TypeOK
    <2>1. ASSUME OneSubscriber, NEW d \in Copies, ready[d] > 0 \/ retry[d] > 0
          PROVE  Safe(d.msg, d.sub)'
      BY <2>a, <2>1, GoesBack DEF Safe, Stands, TypeOK
    <2>2. ASSUME OneSubscriber, NEW g \in Handlers, Live(g),
                 NEW m \in Msgs, NEW s \in Subs,
                 copy[g].msg = m, copy[g].sub = s
          PROVE  Safe(m, s)'
      <3>1. CASE g = h
        <4>1. Return(copy[h]) /\ copy[h] \in Copies
          BY <2>2, <3>1, HeldCopy DEF Live, TypeOK
        <4> QED BY <2>2, <3>1, <4>1, ReturnKeeps DEF Safe, Stands
      <3>2. CASE g # h
        BY <2>2, <3>2 DEF Safe, Carried, Live, TypeOK
      <3> QED BY <3>1, <3>2
    <2> QED BY <2>1, <2>2, KeptStep, <2>a, GoesBack DEF TypeOK
  <1> QED BY <1>1, <1>2, <1>3, <1>4, <1>5, <1>6

\* The copy is returned.
LEMMA ChannelClosesInductive ==
  ASSUME IInv, NEW h \in Handlers, ChannelCloses(h)
  PROVE  IInv'
  <1> USE DEF IInv, ChannelCloses, Fault, redis, Msg
  <1>1. TypeOK'
    <2>a. pc[h] # "idle" /\ (Return(copy[h]) \/ UNCHANGED <<ready, parked>>)
      BY DEF PlaceOK, TypeOK
    <2>b. ready' \in [Copies -> Nat] /\ parked' \in [Subs -> SUBSET Msgs]
      BY <2>a, GoesBack
    <2> QED BY <2>b, ConsumerAssumption DEF TypeOK, Places
  <1>2. PlaceOK'
    BY DEF TypeOK, PlaceOK
  <1>3. AttemptsAreFailures'
    <2>a. pc[h] # "idle" /\ (Return(copy[h]) \/ UNCHANGED <<ready, parked>>)
      BY DEF PlaceOK, TypeOK
    <2>0. \A d \in Copies : /\ ready[d] \in Nat /\ retry[d] \in Nat
                            /\ ready'[d] \in Nat /\ retry'[d] \in Nat
      BY <1>1 DEF TypeOK
    <2>1. \A d \in Copies :
            ready'[d] + retry'[d] > 0 => d.attempt <= failed'[d.msg]
      BY <2>0, <2>a, GoesBack DEF AttemptsAreFailures
    <2>2. \A g \in Handlers :
            pc'[g] # "idle" => copy'[g].attempt <= failed'[copy'[g].msg]
      BY HeldCopy DEF TypeOK, AttemptsAreFailures
    <2>3. \A g \in Handlers :
            pc'[g] = "dlq" => failed'[copy'[g].msg] > MaxRetries
      BY HeldCopy DEF TypeOK, AttemptsAreFailures
    <2> QED BY <2>1, <2>2, <2>3 DEF AttemptsAreFailures
  <1>4. MarkerMeansHandled'
    BY DEF TypeOK, MarkerMeansHandled
  <1>5. LockHeld'
    BY ConsumerAssumption DEF TypeOK, LockHeld, InSection
  <1>6. Kept'
    <2>a. pc[h] # "idle" /\ (Return(copy[h]) \/ UNCHANGED <<ready, parked>>)
      BY DEF PlaceOK, TypeOK
    <2>1. ASSUME OneSubscriber, NEW d \in Copies, ready[d] > 0 \/ retry[d] > 0
          PROVE  Safe(d.msg, d.sub)'
      BY <2>a, <2>1, GoesBack DEF Safe, Stands, TypeOK
    <2>2. ASSUME OneSubscriber, NEW g \in Handlers, Live(g),
                 NEW m \in Msgs, NEW s \in Subs,
                 copy[g].msg = m, copy[g].sub = s
          PROVE  Safe(m, s)'
      <3>1. CASE g = h
        <4>1. Return(copy[h]) /\ copy[h] \in Copies
          BY <2>2, <3>1, HeldCopy DEF Live, TypeOK
        <4> QED BY <2>2, <3>1, <4>1, ReturnKeeps DEF Safe, Stands
      <3>2. CASE g # h
        BY <2>2, <3>2 DEF Safe, Carried, Live, TypeOK
      <3> QED BY <3>1, <3>2
    <2> QED BY <2>1, <2>2, KeptStep, <2>a, GoesBack DEF TypeOK
  <1> QED BY <1>1, <1>2, <1>3, <1>4, <1>5, <1>6

\* The copy is returned and the lock an orphan.
LEMMA CrashInductive ==
  ASSUME IInv, NEW h \in Handlers, Crash(h)
  PROVE  IInv'
  <1> USE DEF IInv, Crash, Fault, Goto, Resolve, Msg
  <1>1. TypeOK'
    <2>a. pc[h] # "idle" /\ (Return(copy[h]) \/ UNCHANGED <<ready, parked>>)
      BY DEF PlaceOK, TypeOK
    <2>b. ready' \in [Copies -> Nat] /\ parked' \in [Subs -> SUBSET Msgs]
      BY <2>a, GoesBack
    <2> QED BY <2>b, ConsumerAssumption DEF TypeOK, Places
  <1>2. PlaceOK'
    BY DEF TypeOK, PlaceOK
  <1>3. AttemptsAreFailures'
    <2>a. pc[h] # "idle" /\ (Return(copy[h]) \/ UNCHANGED <<ready, parked>>)
      BY DEF PlaceOK, TypeOK
    <2>0. \A d \in Copies : /\ ready[d] \in Nat /\ retry[d] \in Nat
                            /\ ready'[d] \in Nat /\ retry'[d] \in Nat
      BY <1>1 DEF TypeOK
    <2>1. \A d \in Copies :
            ready'[d] + retry'[d] > 0 => d.attempt <= failed'[d.msg]
      BY <2>0, <2>a, GoesBack DEF AttemptsAreFailures
    <2>2. \A g \in Handlers :
            pc'[g] # "idle" => copy'[g].attempt <= failed'[copy'[g].msg]
      BY HeldCopy DEF TypeOK, AttemptsAreFailures
    <2>3. \A g \in Handlers :
            pc'[g] = "dlq" => failed'[copy'[g].msg] > MaxRetries
      BY HeldCopy DEF TypeOK, AttemptsAreFailures
    <2> QED BY <2>1, <2>2, <2>3 DEF AttemptsAreFailures
  <1>4. MarkerMeansHandled'
    BY DEF TypeOK, MarkerMeansHandled
  <1>5. LockHeld'
    <2> SUFFICES ASSUME "lock" \notin Expires, NEW g \in Handlers, InSection(g)'
                 PROVE  lock'[copy'[g].msg] = g
      BY DEF LockHeld
    <2>1. CASE g = h
      BY <2>1 DEF TypeOK, InSection
    <2>2. CASE g # h
      <3>1. InSection(g) /\ copy'[g] = copy[g]
        BY <2>2 DEF TypeOK, InSection
      <3>2. lock[copy[g].msg] = g /\ copy[g].msg \in Msgs
        BY <3>1, HeldCopy DEF LockHeld, InSection
      <3> QED BY <2>2, <3>1, <3>2, ConsumerAssumption, HeldCopy DEF TypeOK
    <2> QED BY <2>1, <2>2
  <1>6. Kept'
    <2>a. pc[h] # "idle" /\ (Return(copy[h]) \/ UNCHANGED <<ready, parked>>)
      BY DEF PlaceOK, TypeOK
    <2>1. ASSUME OneSubscriber, NEW d \in Copies, ready[d] > 0 \/ retry[d] > 0
          PROVE  Safe(d.msg, d.sub)'
      BY <2>a, <2>1, GoesBack DEF Safe, Stands, TypeOK
    <2>2. ASSUME OneSubscriber, NEW g \in Handlers, Live(g),
                 NEW m \in Msgs, NEW s \in Subs,
                 copy[g].msg = m, copy[g].sub = s
          PROVE  Safe(m, s)'
      <3>1. CASE g = h
        <4>1. Return(copy[h]) /\ copy[h] \in Copies
          BY <2>2, <3>1, HeldCopy DEF Live, TypeOK
        <4> QED BY <2>2, <3>1, <4>1, ReturnKeeps DEF Safe, Stands
      <3>2. CASE g # h
        BY <2>2, <3>2 DEF Safe, Carried, Live, TypeOK
      <3> QED BY <3>1, <3>2
    <2> QED BY <2>1, <2>2, KeptStep, <2>a, GoesBack DEF TypeOK
  <1> QED BY <1>1, <1>2, <1>3, <1>4, <1>5, <1>6

\* An orphan is nobody's lock.
LEMMA OrphanExpiresInductive ==
  ASSUME IInv, NEW m \in Msgs, OrphanExpires(m)
  PROVE  IInv'
  <1> USE DEF IInv, OrphanExpires, queues, worker, history, Msg
  <1>1. TypeOK'
    BY ConsumerAssumption DEF TypeOK, Places
  <1>2. PlaceOK'
    BY DEF TypeOK, PlaceOK
  <1>3. AttemptsAreFailures'
    BY DEF TypeOK, AttemptsAreFailures
  <1>4. MarkerMeansHandled'
    BY DEF TypeOK, MarkerMeansHandled
  <1>5. LockHeld'
    BY ConsumerAssumption DEF TypeOK, LockHeld, InSection
  <1>6. Kept'
    BY KeptStep, CopyFields, HeldCopy DEF TypeOK, Safe, Stands, Carried, Live
  <1> QED BY <1>1, <1>2, <1>3, <1>4, <1>5, <1>6

\* Only if locks expire early.
LEMMA LockExpiresInductive ==
  ASSUME IInv, NEW m \in Msgs, LockExpires(m)
  PROVE  IInv'
  <1> USE DEF IInv, LockExpires, queues, worker, history, Msg
  <1>1. TypeOK'
    BY ConsumerAssumption DEF TypeOK, Places
  <1>2. PlaceOK'
    BY DEF TypeOK, PlaceOK
  <1>3. AttemptsAreFailures'
    BY DEF TypeOK, AttemptsAreFailures
  <1>4. MarkerMeansHandled'
    BY DEF TypeOK, MarkerMeansHandled
  <1>5. LockHeld'
    BY ConsumerAssumption DEF TypeOK, LockHeld, InSection
  <1>6. Kept'
    BY KeptStep, CopyFields, HeldCopy DEF TypeOK, Safe, Stands, Carried, Live
  <1> QED BY <1>1, <1>2, <1>3, <1>4, <1>5, <1>6

\* Fewer markers.
LEMMA MarkerExpiresInductive ==
  ASSUME IInv, NEW m \in Msgs, MarkerExpires(m)
  PROVE  IInv'
  <1> USE DEF IInv, MarkerExpires, queues, worker, history, Msg
  <1>1. TypeOK'
    BY ConsumerAssumption DEF TypeOK, Places
  <1>2. PlaceOK'
    BY DEF TypeOK, PlaceOK
  <1>3. AttemptsAreFailures'
    BY DEF TypeOK, AttemptsAreFailures
  <1>4. MarkerMeansHandled'
    BY DEF TypeOK, MarkerMeansHandled
  <1>5. LockHeld'
    BY ConsumerAssumption DEF TypeOK, LockHeld, InSection
  <1>6. Kept'
    BY KeptStep, CopyFields, HeldCopy DEF TypeOK, Safe, Stands, Carried, Live
  <1> QED BY <1>1, <1>2, <1>3, <1>4, <1>5, <1>6

-----------------------------------------------------------------------------
(* Theorems.                                                               *)

\* IInv holds in every reachable state.
THEOREM Inductive == Spec => []IInv
<1>1. Init => IInv
  BY InitInductive
<1>2. IInv /\ [Next]_vars => IInv'
  <2> SUFFICES ASSUME IInv, [Next]_vars
               PROVE  IInv'
    OBVIOUS
  <2>1. ASSUME NEW m \in Msgs,
               \/ Publish(m)
               \/ OrphanExpires(m)
               \/ LockExpires(m)
               \/ MarkerExpires(m)
        PROVE  IInv'
    BY <2>1, PublishInductive, OrphanExpiresInductive, LockExpiresInductive,
       MarkerExpiresInductive
  <2>2. ASSUME NEW d \in Copies, RetryExpires(d)
        PROVE  IInv'
    BY <2>2, RetryExpiresInductive
  <2>3. ASSUME NEW h \in Handlers, HandlerStep(h)
        PROVE  IInv'
    BY <2>3, DeliverInductive, CheckInductive, AcquireInductive,
       RunSucceedsInductive, RunFailsInductive, MarkInductive, SendInductive,
       ReleaseInductive, SettleInductive
       DEF HandlerStep
  <2>4. ASSUME NEW h \in Handlers, HandlerFault(h)
        PROVE  IInv'
    BY <2>4, CheckFailsInductive, AcquireFailsInductive, MarkFailsInductive,
       SendFailsInductive, ReleaseFailsInductive, ChannelClosesInductive,
       CrashInductive
       DEF HandlerFault
  <2>5. CASE UNCHANGED vars
    BY <2>5
       DEF vars, IInv, TypeOK, PlaceOK, AttemptsAreFailures,
           MarkerMeansHandled, LockHeld, InSection, Kept, Safe, Stands,
           Carried, Live, Msg, OneSubscriber
  <2> QED BY <2>1, <2>2, <2>3, <2>4, <2>5 DEF Next
<1> QED BY <1>1, <1>2, PTL DEF Spec

\* The variables of the broker, of Redis and of the handlers keep their types;
\* a handler is idle exactly when it holds no copy.
THEOREM TypeCorrect == Spec => []TypeOK
  BY Inductive, PTL DEF IInv

\* With one subscriber for the event no message is lost: it was handled, or is
\* in the DLQ, or the broker still has a copy, in a queue or unacked.
THEOREM NothingLost ==
  ASSUME OneSubscriber
  PROVE  Spec => []NoMessageLost
<1>1. IInv => NoMessageLost
  BY DEF IInv, Kept, NoMessageLost, Safe, Stands, Carried, Live, InBroker
<1> QED BY <1>1, Inductive, PTL

\* While locks do not expire under their handlers, handlers exclude each other
\* on a message from acquire to release.
THEOREM OneAtATime ==
  ASSUME "lock" \notin Expires
  PROVE  Spec => []OneRunAtATime
<1>1. IInv => OneRunAtATime
  <2> SUFFICES ASSUME IInv, NEW g \in Handlers, NEW h \in Handlers, g # h,
                      InSection(g), InSection(h)
               PROVE  Msg(g) # Msg(h)
    BY DEF OneRunAtATime, InSection
  <2> QED BY DEF IInv, LockHeld
<1> QED BY <1>1, Inductive, PTL

\* The attempts a copy carries are failed runs of its message, and a message
\* is given up only after all its retries failed.
THEOREM AttemptsTrue == Spec => []AttemptsAreFailures
  BY Inductive, PTL DEF IInv

\* A lock that is a handler's goes by that handler's release, its death or the
\* lock's TTL, however long other handlers of the message have outlived theirs.
THEOREM OwnersRelease == Spec => OnlyOwnerReleases
<1> DEFINE Owned == \A m \in Msgs, h \in Handlers :
                      lock[m] = h /\ lock'[m] # h
                        => pc[h] = "release" \/ UNCHANGED pc \/ pc'[h] = "idle"
<1>1. ASSUME TypeOK, [Next]_vars PROVE [Owned]_vars
  <2>1. CASE UNCHANGED lock \/ UNCHANGED pc
    BY <2>1
  <2>2. ASSUME NEW g \in Handlers, Acquire(g) \/ AcquireFails(g)
        PROVE  Owned
    <3>1. Msg(g) \in Msgs
      BY <1>1, <2>2, HeldCopy DEF Acquire, AcquireFails, Msg
    <3>2. \A m \in Msgs : lock'[m] = lock[m] \/ lock[m] = "free"
      BY <1>1, <2>2, <3>1 DEF Acquire, AcquireFails, TypeOK
    <3>3. QED BY <3>2, ConsumerAssumption
  <2>3. ASSUME NEW g \in Handlers, Release(g) \/ ReleaseFails(g)
        PROVE  Owned
    <3>1. pc[g] = "release" /\ Msg(g) \in Msgs
      BY <1>1, <2>3, HeldCopy DEF Release, ReleaseFails, Msg
    <3>2. \A m \in Msgs : lock'[m] = lock[m] \/ lock[m] = g
      BY <1>1, <2>3, <3>1 DEF Release, ReleaseFails, TypeOK
    <3>3. QED BY <3>1, <3>2
  <2>4. ASSUME NEW g \in Handlers, Crash(g)
        PROVE  Owned
    <3>1. pc'[g] = "idle"
      BY <1>1, <2>4 DEF Crash, Resolve, Goto, TypeOK
    <3>2. \A m \in Msgs : lock'[m] = lock[m] \/ lock[m] = g
      BY <1>1, <2>4 DEF Crash, TypeOK
    <3>3. QED BY <3>1, <3>2
  <2> QED
    BY <1>1, <2>1, <2>2, <2>3, <2>4
       DEF Next, vars, HandlerStep, HandlerFault, Publish, OrphanExpires,
           LockExpires, MarkerExpires, RetryExpires, Deliver, Check, RunSucceeds,
           RunFails, Mark, Send, Settle, CheckFails, MarkFails, SendFails,
           ChannelCloses, redis, worker
<1> QED BY <1>1, TypeCorrect, PTL DEF Spec, OnlyOwnerReleases
-----------------------------------------------------------------------------
(* The promise to subscribers, step by step.                               *)

\* What stands in a queue or is with a handler was published.
CopiesPublished ==
  /\ \A d \in Copies : ready[d] > 0 \/ retry[d] > 0 => published[d.msg] > 0
  /\ \A h \in Handlers : pc[h] # "idle" => published[Msg(h)] > 0

\* Copies come from the relay, from another copy, or from a handler's.
LEMMA CopiesStep ==
  ASSUME TypeOK, PlaceOK, TypeOK', CopiesPublished, [Next]_vars
  PROVE  CopiesPublished'
  <1>1. CASE UNCHANGED <<ready, retry, published, pc, copy>>
    BY <1>1 DEF CopiesPublished, Msg
  <1>2. ASSUME NEW m \in Msgs, Publish(m)
        PROVE  CopiesPublished'
    <2>1. published'[m] > 0 /\ \A n \in Msgs : published'[n] >= published[n]
      BY <1>2 DEF Publish, TypeOK
    <2>2. \A d \in Copies : ready'[d] > 0 => ready[d] > 0 \/ d.msg = m
      <3>1. 0 \in 0..MaxRetries
        BY ConsumerAssumption
      <3>2. \A d \in Fresh(m, 0) : d.msg = m
        BY <3>1, FreshCopies
      <3> QED BY <1>2, <3>2, AddGrows DEF Publish, TypeOK
    <2>3. UNCHANGED <<retry, pc, copy>>
      BY <1>2 DEF Publish, worker
    <2> QED
      BY <2>1, <2>2, <2>3, CopyFields, HeldCopy DEF CopiesPublished, TypeOK, Msg
  <1>3. ASSUME NEW d \in Copies, RetryExpires(d)
        PROVE  CopiesPublished'
    <2>1. published[d.msg] > 0
      BY <1>3 DEF RetryExpires, CopiesPublished
    <2>2. \A c \in Copies : ready'[c] > 0 => ready[c] > 0 \/ c.msg = d.msg
      <3>1. \A c \in Fresh(d.msg, d.attempt) : c.msg = d.msg
        BY FreshCopies, CopyFields
      <3> QED BY <1>3, <3>1, AddGrows DEF RetryExpires, TypeOK
    <2>3. \A c \in Copies : retry'[c] > 0 => retry[c] > 0
      BY <1>3 DEF RetryExpires, TypeOK
    <2>4. UNCHANGED <<published, pc, copy>>
      BY <1>3 DEF RetryExpires, worker
    <2> QED BY <2>1, <2>2, <2>3, <2>4 DEF CopiesPublished, Msg
  <1>4. ASSUME NEW h \in Handlers, Deliver(h)
        PROVE  CopiesPublished'
    <2>1. PICK d \in Copies : /\ ready[d] > 0
                              /\ ready' = [ready EXCEPT ![d] = @ - 1]
                              /\ copy' = [copy EXCEPT ![h] = d]
      BY <1>4 DEF Deliver
    <2>2. /\ UNCHANGED <<retry, published>>
          /\ \A g \in Handlers : g # h => UNCHANGED <<pc[g], copy[g]>>
      BY <1>4 DEF Deliver, Goto, TypeOK
    <2>3. copy'[h] = d /\ published[d.msg] > 0
      BY <2>1 DEF CopiesPublished, TypeOK
    <2>4. \A c \in Copies : ready'[c] > 0 => ready[c] > 0
      BY <2>1 DEF TypeOK
    <2> QED BY <2>2, <2>3, <2>4 DEF CopiesPublished, Msg
  <1>5. ASSUME NEW h \in Handlers, Send(h) \/ SendFails(h)
        PROVE  CopiesPublished'
    <2>1. pc[h] # "idle" /\ published[Msg(h)] > 0
      BY <1>5 DEF Send, SendFails, SendRetry, SendDlq, CopiesPublished
    <2>2. \A c \in Copies : retry'[c] > 0 => retry[c] > 0 \/ c.msg = Msg(h)
      <3>1. CASE UNCHANGED retry
        BY <3>1
      <3>2. CASE SendRetry(h)
        BY <3>2, RetryKeeps DEF Msg
      <3> QED BY <1>5, <3>1, <3>2 DEF Send, SendFails, SendDlq
    <2>3. /\ UNCHANGED <<ready, published, copy>>
          /\ \A g \in Handlers : pc'[g] # "idle" => pc[g] # "idle"
      BY <1>5, <2>1 DEF Send, SendFails, Resolve, Goto, AfterSend, TypeOK
    <2> QED BY <2>1, <2>2, <2>3 DEF CopiesPublished, Msg
  <1>6. ASSUME NEW h \in Handlers, Settle(h) \/ ChannelCloses(h) \/ Crash(h)
        PROVE  CopiesPublished'
    <2>1. /\ UNCHANGED <<retry, published>>
          /\ \A g \in Handlers : pc'[g] # "idle" => pc[g] # "idle" /\ copy'[g] = copy[g]
      BY <1>6 DEF Settle, ChannelCloses, Crash, Resolve, Goto, TypeOK
    <2>2. CASE UNCHANGED ready
      BY <2>1, <2>2 DEF CopiesPublished, Msg
    <2>3. CASE pc[h] # "idle" /\ Return(copy[h])
      <3>1. copy[h] \in Copies /\ published[Msg(h)] > 0
        BY <2>3, HeldCopy DEF CopiesPublished
      <3>2. \A c \in Copies : ready'[c] > 0 => ready[c] > 0 \/ c.msg = Msg(h)
        BY <2>3, <3>1, ReturnKeeps DEF Msg
      <3> QED BY <2>1, <3>1, <3>2 DEF CopiesPublished, Msg
    <2> QED BY <1>6, <2>2, <2>3 DEF Settle, ChannelCloses, Crash, PlaceOK
  <1>7. ASSUME NEW h \in Handlers,
               \/ Check(h) \/ Acquire(h) \/ RunSucceeds(h) \/ RunFails(h)
               \/ Mark(h) \/ Release(h)
               \/ CheckFails(h) \/ AcquireFails(h) \/ MarkFails(h)
               \/ ReleaseFails(h)
        PROVE  CopiesPublished'
    <2>1. pc[h] # "idle" /\ UNCHANGED <<ready, retry, published, copy>>
      BY <1>7 DEF Check, Acquire, RunSucceeds, RunFails, Mark, Release,
                  CheckFails, AcquireFails, MarkFails, ReleaseFails, queues
    <2>2. \A g \in Handlers : pc'[g] # "idle" => pc[g] # "idle"
      BY <1>7, <2>1
         DEF Check, Acquire, RunSucceeds, RunFails, Mark, Release, CheckFails,
             AcquireFails, MarkFails, ReleaseFails, Resolve, Goto, CatchError,
             TypeOK
    <2> QED BY <2>1, <2>2 DEF CopiesPublished, Msg
  <1> QED
    BY <1>1, <1>2, <1>3, <1>4, <1>5, <1>6, <1>7
       DEF Next, vars, HandlerStep, HandlerFault, OrphanExpires, LockExpires,
           MarkerExpires, queues, worker

\* No queue and no handler ever holds a message that was not published.
THEOREM CopiesArePublished == Spec => []CopiesPublished
<1>1. Init => CopiesPublished
  BY DEF Init, CopiesPublished
<1>2. IInv /\ IInv' /\ CopiesPublished /\ [Next]_vars => CopiesPublished'
  BY CopiesStep DEF IInv
<1> QED BY <1>1, <1>2, Inductive, PTL DEF Spec

All(m) == {m} \X Subs

\* A delivery that is unacked on some channel.
Unacked(m, s) ==
  \E h \in Handlers : attached[h] /\ copy[h].msg = m /\ copy[h].sub = s

\* What is with the broker stands in a queue or a retry tier, or is unacked.
LEMMA BrokerParts ==
  ASSUME NEW m, NEW s
  PROVE  InBroker(m, s) <=> Stands(m, s) \/ Unacked(m, s)
  BY DEF InBroker, Stands, Unacked

\* What the broker owes, delivery by delivery.
LEMMA OwedPairs ==
  ASSUME NEW m \in Msgs, NEW s \in Subs
  PROVE  /\ <<m, s>> \in Deliveries
         /\ <<m, s>> \in Sent <=> published[m] > 0
         /\ <<m, s>> \in Owed <=> Stands(m, s) \/ Unacked(m, s)
         /\ <<m, s>> \in Done <=> m \in handled[s]
         /\ <<m, s>> \in Aside <=> m \in parked[s]
         /\ <<m, s>> \in Sent' <=> published'[m] > 0
         /\ <<m, s>> \in Owed' <=> Stands(m, s)' \/ Unacked(m, s)'
         /\ <<m, s>> \in Done' <=> m \in handled'[s]
         /\ <<m, s>> \in Aside' <=> m \in parked'[s]
  BY DEF Deliveries, Sent, Owed, Done, Aside, InBroker, Stands, Unacked

\* The five actions of Subscription.
LEMMA MappedActions ==
  /\ \A E \in SUBSET Deliveries :
       /\ Sent' = Sent \union E /\ Owed' = Owed \union E
       /\ UNCHANGED <<Done, Aside>>
       => Subscriber!SubNext
  /\ \A E \in SUBSET Sent :
       Owed' = Owed \union E /\ UNCHANGED <<Sent, Done, Aside>>
       => Subscriber!SubNext
  /\ \A e \in Sent :
       Done' = Done \union {e} /\ UNCHANGED <<Sent, Owed, Aside>>
       => Subscriber!SubNext
  /\ \A E \in SUBSET Sent, gone \in SUBSET Deliveries :
       /\ gone \subseteq E
       /\ Owed' = Owed \ gone /\ Aside' = Aside \union E
       /\ UNCHANGED <<Sent, Done>>
       => Subscriber!SubNext
  /\ \A e \in Done \union Aside :
       Owed' = Owed \ {e} /\ UNCHANGED <<Sent, Done, Aside>>
       => Subscriber!SubNext
  <1>1. /\ Sent \subseteq Deliveries
        /\ Done \subseteq Deliveries
        /\ Aside \subseteq Deliveries
    BY DEF Sent, Done, Aside
  <1>2. ASSUME NEW E \in SUBSET Deliveries,
               \/ Subscriber!PublishAll(E)
               \/ Subscriber!Repeat(E)
               \/ Subscriber!SetAside(E)
        PROVE  Subscriber!SubNext
    BY <1>2 DEF Subscriber!SubNext
  <1>3. ASSUME NEW e \in Deliveries, Subscriber!Run(e) \/ Subscriber!Forget(e)
        PROVE  Subscriber!SubNext
    BY <1>3 DEF Subscriber!SubNext
  <1>4. ASSUME NEW E \in SUBSET Deliveries,
               Sent' = Sent \union E, Owed' = Owed \union E,
               UNCHANGED <<Done, Aside>>
        PROVE  Subscriber!SubNext
    BY <1>2, <1>4 DEF Subscriber!PublishAll
  <1>5. ASSUME NEW E \in SUBSET Sent,
               Owed' = Owed \union E, UNCHANGED <<Sent, Done, Aside>>
        PROVE  Subscriber!SubNext
    BY <1>1, <1>2, <1>5 DEF Subscriber!Repeat
  <1>6. ASSUME NEW e \in Sent,
               Done' = Done \union {e}, UNCHANGED <<Sent, Owed, Aside>>
        PROVE  Subscriber!SubNext
    BY <1>1, <1>3, <1>6 DEF Subscriber!Run
  <1>7. ASSUME NEW E \in SUBSET Sent, NEW gone \in SUBSET Deliveries,
               gone \subseteq E,
               Owed' = Owed \ gone, Aside' = Aside \union E,
               UNCHANGED <<Sent, Done>>
        PROVE  Subscriber!SubNext
    BY <1>1, <1>2, <1>7 DEF Subscriber!SetAside
  <1>8. ASSUME NEW e \in Done \union Aside,
               Owed' = Owed \ {e}, UNCHANGED <<Sent, Done, Aside>>
        PROVE  Subscriber!SubNext
    BY <1>1, <1>3, <1>8 DEF Subscriber!Forget
  <1> QED BY <1>4, <1>5, <1>6, <1>7, <1>8

\* What a step that leaves the broker's copies alone owes.
LEMMA SameSets ==
  /\ UNCHANGED published => UNCHANGED Sent
  /\ UNCHANGED handled => UNCHANGED Done
  /\ UNCHANGED parked => UNCHANGED Aside
  /\ UNCHANGED <<ready, retry, copy, attached>> => UNCHANGED Owed
  BY DEF Sent, Owed, Done, Aside, InBroker

\* Owed changes by what happens to the copies of each delivery.
LEMMA OwedChange ==
  ASSUME NEW G \in SUBSET Deliveries, NEW L \in SUBSET Deliveries,
         \A m \in Msgs, s \in Subs :
           Stands(m, s)' \/ Unacked(m, s)'
             <=> \/ (Stands(m, s) \/ Unacked(m, s)) /\ <<m, s>> \notin L
                 \/ <<m, s>> \in G
  PROVE  Owed' = (Owed \ L) \union G
  <1>1. \A e \in Deliveries : e = <<e[1], e[2]>> /\ e[1] \in Msgs /\ e[2] \in Subs
    BY DEF Deliveries
  <1>2. Owed \subseteq Deliveries /\ Owed' \subseteq Deliveries
    BY DEF Owed, Deliveries
  <1>3. \A e \in Deliveries : e \in Owed' <=> e \in (Owed \ L) \union G
    <2> TAKE e \in Deliveries
    <2> DEFINE m == e[1]  s == e[2]
    <2>1. m \in Msgs /\ s \in Subs /\ e = <<m, s>>
      BY <1>1
    <2> HIDE DEF m, s
    <2>2. e \in Owed <=> Stands(m, s) \/ Unacked(m, s)
      BY <2>1, OwedPairs
    <2>3. e \in Owed' <=> Stands(m, s)' \/ Unacked(m, s)'
      BY <2>1, OwedPairs
    <2> QED BY <2>1, <2>2, <2>3
  <1> QED BY <1>2, <1>3

\* The events exchange owes a message to all its subscribers, again or for the
\* first time.
LEMMA FreshOwed ==
  ASSUME TypeOK, NEW m \in Msgs, NEW a \in 0..MaxRetries,
         ready' = Add(ready, Fresh(m, a)), UNCHANGED <<copy, attached>>,
         \A d \in Copies : retry'[d] > 0 => retry[d] > 0,
         \A d \in Copies : retry[d] > 0 => retry'[d] > 0 \/ d.msg = m
  PROVE  Owed' = Owed \union All(m)
  <1>1. \A n \in Msgs, s \in Subs : Unacked(n, s)' <=> Unacked(n, s)
    BY DEF Unacked
  <1>2. ASSUME NEW s \in Subs PROVE Stands(m, s)'
    <2>1. PICK d \in Copies : d \in Fresh(m, a) /\ d.msg = m /\ d.sub = s
      BY FreshCopies
    <2>2. ready'[d] > 0
      BY <2>1, AddGrows DEF TypeOK
    <2> QED BY <2>1, <2>2 DEF Stands
  <1>3. ASSUME NEW n \in Msgs, NEW s \in Subs, n # m
        PROVE  Stands(n, s)' <=> Stands(n, s)
    <2>1. \A d \in Copies : d.msg # m => ready'[d] = ready[d]
      BY FreshCopies, AddGrows DEF TypeOK
    <2> QED BY <1>3, <2>1 DEF Stands
  <1>4. All(m) \in SUBSET Deliveries
        /\ \A n \in Msgs, s \in Subs : <<n, s>> \in All(m) <=> n = m
    BY DEF All, Deliveries
  <1>5. Owed' = (Owed \ {}) \union All(m)
    BY <1>1, <1>2, <1>3, <1>4, OwedChange
  <1> QED BY <1>5

\* A publish, first or repeated, is PublishAll.
LEMMA PublishMaps ==
  ASSUME TypeOK, NEW m \in Msgs, Publish(m)
  PROVE  Subscriber!SubNext
  <1>1. Owed' = Owed \union All(m)
    <2>1. 0 \in 0..MaxRetries
      BY ConsumerAssumption
    <2> QED BY <2>1, FreshOwed DEF Publish, worker
  <1>2. Sent' = Sent \union All(m)
    <2>1. \A n \in Msgs : published'[n] > 0 <=> published[n] > 0 \/ n = m
      BY DEF Publish, TypeOK
    <2> QED BY <2>1 DEF Sent, Deliveries, All
  <1>3. UNCHANGED <<Done, Aside>> /\ All(m) \in SUBSET Deliveries
    BY SameSets DEF Publish, history, All, Deliveries
  <1> QED BY <1>1, <1>2, <1>3, MappedActions

\* A copy that comes back from its tier is one the bus made of what it was
\* given.
LEMMA RetryExpiresMaps ==
  ASSUME TypeOK, CopiesPublished, NEW d \in Copies, RetryExpires(d)
  PROVE  Subscriber!SubNext
  <1>1. d.msg \in Msgs /\ published[d.msg] > 0
    BY CopyFields DEF RetryExpires, CopiesPublished
  <1>2. Owed' = Owed \union All(d.msg)
    <2>1. /\ \A c \in Copies : retry'[c] > 0 => retry[c] > 0
          /\ \A c \in Copies : retry[c] > 0 => retry'[c] > 0 \/ c = d
      BY DEF RetryExpires, TypeOK
    <2> QED BY <1>1, <2>1, FreshOwed, CopyFields DEF RetryExpires, worker
  <1>3. All(d.msg) \in SUBSET Sent
    BY <1>1 DEF All, Sent, Deliveries
  <1>4. UNCHANGED <<Sent, Done, Aside>>
    BY SameSets DEF RetryExpires, history
  <1> QED BY <1>2, <1>3, <1>4, MappedActions

\* What a busy handler holds was published.
LEMMA HeldSent ==
  ASSUME TypeOK, CopiesPublished, NEW h \in Handlers, pc[h] # "idle"
  PROVE  /\ Msg(h) \in Msgs /\ copy[h].sub \in Subs
         /\ <<Msg(h), copy[h].sub>> \in Sent
         /\ All(Msg(h)) \in SUBSET Sent
  <1>1. Msg(h) \in Msgs /\ copy[h].sub \in Subs /\ published[Msg(h)] > 0
    BY HeldCopy DEF CopiesPublished, Msg
  <1> QED BY <1>1 DEF Sent, Deliveries, All

\* A delivery moves a copy from its queue to a handler, where the broker still
\* has it: a stutter.
LEMMA DeliverMaps ==
  ASSUME TypeOK, PlaceOK, NEW h \in Handlers, Deliver(h)
  PROVE  UNCHANGED Subscriber!subVars
  <1>1. PICK d \in Copies : /\ ready[d] > 0
                            /\ ready' = [ready EXCEPT ![d] = @ - 1]
                            /\ copy' = [copy EXCEPT ![h] = d]
    BY DEF Deliver
  <1>2. /\ ~attached[h] /\ UNCHANGED retry
        /\ attached' = [attached EXCEPT ![h] = TRUE]
    BY DEF Deliver, PlaceOK
  <1>3. /\ copy'[h] = d /\ attached'[h]
        /\ \A g \in Handlers : g # h => copy'[g] = copy[g] /\ attached'[g] = attached[g]
    BY <1>1, <1>2 DEF TypeOK
  <1>4. \A c \in Copies : ready'[c] > 0 => ready[c] > 0
    BY <1>1 DEF TypeOK
  <1>5. \A c \in Copies : ready[c] > 0 => ready'[c] > 0 \/ c = d
    BY <1>1 DEF TypeOK
  <1>6. ASSUME NEW m \in Msgs, NEW s \in Subs
        PROVE  Stands(m, s)' \/ Unacked(m, s)' <=> Stands(m, s) \/ Unacked(m, s)
    <2>1. Stands(m, s) => Stands(m, s)' \/ Unacked(m, s)'
      BY <1>2, <1>3, <1>5 DEF Stands, Unacked
    <2>2. Unacked(m, s) => Unacked(m, s)'
      BY <1>2, <1>3 DEF Unacked
    <2>3. Stands(m, s)' => Stands(m, s)
      BY <1>2, <1>4 DEF Stands
    <2>4. Unacked(m, s)' => Unacked(m, s) \/ Stands(m, s)
      BY <1>1, <1>3 DEF Stands, Unacked
    <2> QED BY <2>1, <2>2, <2>3, <2>4
  <1>7. Owed' = (Owed \ {}) \union {}
    BY <1>6, OwedChange
  <1> QED BY <1>7, SameSets DEF Deliver, history, Subscriber!subVars

\* A run that succeeds is Run.
LEMMA RunSucceedsMaps ==
  ASSUME TypeOK, CopiesPublished, NEW h \in Handlers, RunSucceeds(h)
  PROVE  Subscriber!SubNext
  <1> DEFINE e == <<Msg(h), copy[h].sub>>
  <1>1. Msg(h) \in Msgs /\ copy[h].sub \in Subs /\ e \in Sent
    BY HeldSent DEF RunSucceeds
  <1>2. Done' = Done \union {e}
    BY <1>1 DEF RunSucceeds, Done, Deliveries, TypeOK
  <1>3. UNCHANGED <<Sent, Owed, Aside>>
    BY SameSets DEF RunSucceeds, queues
  <1> QED BY <1>1, <1>2, <1>3, MappedActions

\* The retry copy is one more copy of what the handler holds, whose own delivery
\* may be gone; the DLX exchange sets the message aside.
LEMMA SendMaps ==
  ASSUME TypeOK, PlaceOK, CopiesPublished, NEW h \in Handlers,
         SendRetry(h) \/ SendDlq(h),
         UNCHANGED <<ready, published, copy, attached, handled>>
  PROVE  Subscriber!SubNext
  <1> DEFINE e == <<Msg(h), copy[h].sub>>
  <1>1. /\ Msg(h) \in Msgs /\ copy[h].sub \in Subs /\ e \in Sent
        /\ All(Msg(h)) \in SUBSET Sent
    BY HeldSent DEF SendRetry, SendDlq
  <1>2. UNCHANGED <<Sent, Done>>
    BY SameSets
  <1>3. CASE SendRetry(h)
    <2>1. ASSUME NEW m \in Msgs, NEW s \in Subs
          PROVE  /\ Unacked(m, s)' <=> Unacked(m, s)
                 /\ Stands(m, s)' <=> Stands(m, s) \/ <<m, s>> = e
      BY <1>1, <1>3, RetryKeeps DEF Unacked, Stands, Msg, TypeOK
    <2>2. {e} \in SUBSET Deliveries
      BY <1>1 DEF Deliveries
    <2>3. Owed' = (Owed \ {}) \union {e}
      BY <2>1, <2>2, OwedChange
    <2>4. UNCHANGED Aside
      BY <1>3, SameSets DEF SendRetry
    <2>5. {e} \in SUBSET Sent /\ Owed' = Owed \union {e}
      BY <1>1, <2>3
    <2> HIDE DEF e
    <2> QED BY <1>2, <2>4, <2>5, MappedActions
  <1>4. CASE SendDlq(h)
    <2>1. Aside' = Aside \union All(Msg(h))
      BY <1>1, <1>4 DEF SendDlq, Park, Aside, All, Deliveries
    <2>2. UNCHANGED Owed
      BY <1>4, SameSets DEF SendDlq
    <2>3. PICK gone \in SUBSET Deliveries : gone = {}
      OBVIOUS
    <2>4. gone \subseteq All(Msg(h)) /\ Owed' = Owed \ gone
      BY <2>2, <2>3
    <2> QED BY <1>1, <1>2, <2>1, <2>4, MappedActions
  <1> QED BY <1>3, <1>4

\* A delivery that ends can only take itself from what is owed.
LEMMA EndOwed ==
  ASSUME TypeOK, NEW h \in Handlers, pc[h] # "idle",
         attached' = [attached EXCEPT ![h] = FALSE],
         \A g \in Handlers : g # h => copy'[g] = copy[g],
         UNCHANGED <<ready, retry>>
  PROVE  \/ UNCHANGED Owed
         \/ /\ Owed' = Owed \ {<<Msg(h), copy[h].sub>>}
            /\ <<Msg(h), copy[h].sub>> \notin Owed'
  <1>0. PICK m0 \in Msgs, s0 \in Subs : m0 = Msg(h) /\ s0 = copy[h].sub
    BY HeldCopy DEF Msg
  <1> DEFINE e == <<m0, s0>>
  <1>1. {e} \in SUBSET Deliveries
    BY DEF Deliveries
  <1>2. /\ \A g \in Handlers : attached'[g] => attached[g] /\ copy'[g] = copy[g]
        /\ \A g \in Handlers : g # h /\ attached[g] => attached'[g] /\ copy'[g] = copy[g]
    BY DEF TypeOK
  <1>3. ASSUME NEW m \in Msgs, NEW s \in Subs
        PROVE  /\ Stands(m, s)' <=> Stands(m, s)
               /\ Unacked(m, s)' => Unacked(m, s)
               /\ Unacked(m, s) => Unacked(m, s)' \/ <<m, s>> = e
    BY <1>0, <1>2 DEF Stands, Unacked, Msg
  <1>4. CASE e \in Owed'
    <2>1. Stands(m0, s0)' \/ Unacked(m0, s0)'
      BY <1>4, OwedPairs
    <2>2. ASSUME NEW m \in Msgs, NEW s \in Subs
          PROVE  Stands(m, s)' \/ Unacked(m, s)' <=> Stands(m, s) \/ Unacked(m, s)
      <3>1. <<m, s>> = e => m = m0 /\ s = s0
        OBVIOUS
      <3> HIDE DEF e
      <3> QED BY <1>3, <2>1, <3>1
    <2>3. Owed' = (Owed \ {}) \union {}
      BY <2>2, OwedChange
    <2> QED BY <2>3
  <1>5. CASE e \notin Owed'
    <2>1. ~Stands(m0, s0)' /\ ~Unacked(m0, s0)'
      BY <1>5, OwedPairs
    <2>2. ASSUME NEW m \in Msgs, NEW s \in Subs
          PROVE  Stands(m, s)' \/ Unacked(m, s)'
                   <=> (Stands(m, s) \/ Unacked(m, s)) /\ <<m, s>> \notin {e}
      <3>1. <<m, s>> = e => m = m0 /\ s = s0
        OBVIOUS
      <3> HIDE DEF e
      <3> QED BY <1>3, <2>1, <3>1
    <2>3. Owed' = (Owed \ {e}) \union {}
      <3> HIDE DEF e
      <3> QED BY <1>1, <2>2, OwedChange
    <2>4. e = <<Msg(h), copy[h].sub>>
      BY <1>0
    <2> QED BY <1>5, <2>3, <2>4
  <1> QED BY <1>4, <1>5

\* A delivery that was not acked goes back to its queue or is set aside.
LEMMA ReturnMaps ==
  ASSUME TypeOK, CopiesPublished, NEW h \in Handlers, pc[h] # "idle",
         attached' = [attached EXCEPT ![h] = FALSE],
         \A g \in Handlers : g # h => copy'[g] = copy[g],
         Return(copy[h]), attached[h], UNCHANGED <<retry, published, handled>>
  PROVE  [Subscriber!SubNext]_(Subscriber!subVars)
  <1>0. PICK m0 \in Msgs, s0 \in Subs : m0 = Msg(h) /\ s0 = copy[h].sub
    BY HeldCopy DEF Msg
  <1> DEFINE e == <<m0, s0>>
  <1>1. /\ copy[h] \in Copies /\ e \in Sent /\ All(m0) \in SUBSET Sent
    BY <1>0, HeldCopy, HeldSent
  <1>2. UNCHANGED <<Sent, Done>>
    BY SameSets
  <1>3. CASE copy[h].returned = DeliveryLimit
    <2>1. Aside' = Aside \union All(m0)
      BY <1>0, <1>3 DEF Return, Park, Msg, Aside, All, Deliveries
    <2>2. UNCHANGED Owed \/ Owed' = Owed \ {e}
      BY <1>0, <1>3, EndOwed DEF Return
    <2>3. PICK gone \in SUBSET {e} : Owed' = Owed \ gone
      <3>1. CASE UNCHANGED Owed
        <4>1. {} \in SUBSET {e} /\ Owed' = Owed \ {}
          BY <3>1
        <4> QED BY <4>1
      <3>2. CASE Owed' = Owed \ {e}
        <4>1. {e} \in SUBSET {e}
          OBVIOUS
        <4> QED BY <3>2, <4>1
      <3> QED BY <2>2, <3>1, <3>2
    <2>4. gone \in SUBSET Deliveries /\ gone \subseteq All(m0)
      BY <1>1 DEF Deliveries, All
    <2> QED BY <1>1, <1>2, <2>1, <2>3, <2>4, MappedActions
  <1>4. CASE copy[h].returned # DeliveryLimit
    <2>1. UNCHANGED Aside
      BY <1>4, SameSets DEF Return
    <2>2. /\ \A c \in Copies : ready'[c] >= ready[c]
          /\ \A c \in Copies : ready'[c] > 0
                 => ready[c] > 0 \/ (c.msg = m0 /\ c.sub = s0)
      BY <1>0, <1>1, ReturnKeeps DEF Msg
    <2>3. Stands(m0, s0)'
      <3> DEFINE r == [copy[h] EXCEPT !.returned = @ + 1]
      <3>1. r \in Copies /\ r.msg = m0 /\ r.sub = s0
        BY <1>0, <1>1, <1>4, ConsumerAssumption DEF Copies, Msg
      <3>2. ready' = Add(ready, {r})
        BY <1>4 DEF Return
      <3> HIDE DEF r
      <3> QED BY <3>1, <3>2, AddGrows DEF Stands, TypeOK
    <2>4. Unacked(m0, s0)
      BY <1>0 DEF Unacked, Msg
    <2>5. /\ \A g \in Handlers : attached'[g] => attached[g] /\ copy'[g] = copy[g]
          /\ \A g \in Handlers : g # h /\ attached[g]
               => attached'[g] /\ copy'[g] = copy[g]
      BY DEF TypeOK
    <2>6. ASSUME NEW m \in Msgs, NEW s \in Subs, <<m, s>> # e
          PROVE  /\ Stands(m, s)' <=> Stands(m, s)
                 /\ Unacked(m, s)' <=> Unacked(m, s)
      <3>1. \A c \in Copies : /\ ready[c] \in Nat /\ ready'[c] >= ready[c]
                               /\ ready'[c] \in Nat
        BY <1>1, <2>2, ReturnKeeps DEF TypeOK
      <3>2. Stands(m, s)' <=> Stands(m, s)
        BY <2>2, <2>6, <3>1 DEF Stands
      <3>3. Unacked(m, s)' <=> Unacked(m, s)
        BY <1>0, <2>5, <2>6 DEF Unacked, Msg
      <3> QED BY <3>2, <3>3
    <2>7. ASSUME NEW m \in Msgs, NEW s \in Subs
          PROVE  Stands(m, s)' \/ Unacked(m, s)' <=> Stands(m, s) \/ Unacked(m, s)
      <3>1. <<m, s>> = e => m = m0 /\ s = s0
        OBVIOUS
      <3> HIDE DEF e
      <3> QED BY <2>3, <2>4, <2>6, <3>1
    <2>8. Owed' = (Owed \ {}) \union {}
      BY <2>7, OwedChange
    <2> QED BY <1>2, <2>1, <2>8 DEF Subscriber!subVars
  <1> QED BY <1>3, <1>4

\* A delivery that is acked, or that the broker no longer waits for, was run or
\* set aside if it was the last copy: this is where NoMessageLost is needed.
LEMMA AckMaps ==
  ASSUME TypeOK, CopiesPublished, NoMessageLost', NEW h \in Handlers,
         pc[h] # "idle",
         attached' = [attached EXCEPT ![h] = FALSE],
         \A g \in Handlers : g # h => copy'[g] = copy[g],
         UNCHANGED <<ready, retry, parked, published, handled>>
  PROVE  [Subscriber!SubNext]_(Subscriber!subVars)
  <1>0. PICK m \in Msgs, s \in Subs : m = Msg(h) /\ s = copy[h].sub
    BY HeldCopy DEF Msg
  <1> DEFINE e == <<m, s>>
  <1>1. e \in Sent
    BY <1>0, HeldSent
  <1>2. UNCHANGED <<Sent, Done, Aside>>
    BY SameSets
  <1>3. CASE UNCHANGED Owed
    BY <1>2, <1>3 DEF Subscriber!subVars
  <1>4. CASE Owed' = Owed \ {e} /\ e \notin Owed'
    <2>1. published'[m] > 0
      BY <1>1, OwedPairs
    <2>2. m \in handled'[s] \/ m \in parked'[s] \/ InBroker(m, s)'
      BY <1>1, <2>1 DEF NoMessageLost
    <2>3. ~InBroker(m, s)'
      <3>1. ~Stands(m, s)' /\ ~Unacked(m, s)'
        BY <1>1, <1>4, OwedPairs
      <3> QED BY <3>1 DEF Stands, Unacked, InBroker
    <2>4. e \in Done \union Aside
      BY <1>1, <2>2, <2>3, OwedPairs
    <2> QED BY <1>2, <1>4, <2>4, MappedActions
  <1> QED BY <1>0, <1>3, <1>4, EndOwed

\* Every step of the consumer is a step of Subscription or changes nothing that
\* a subscriber sees.
LEMMA StepMaps ==
  ASSUME TypeOK, PlaceOK, CopiesPublished, NoMessageLost', [Next]_vars
  PROVE  [Subscriber!SubNext]_(Subscriber!subVars)
  <1>1. CASE UNCHANGED <<ready, retry, parked, published, copy, attached, handled>>
    BY <1>1, SameSets DEF Subscriber!subVars
  <1>2. ASSUME NEW m \in Msgs, Publish(m)
        PROVE  Subscriber!SubNext
    BY <1>2, PublishMaps
  <1>3. ASSUME NEW d \in Copies, RetryExpires(d)
        PROVE  Subscriber!SubNext
    BY <1>3, RetryExpiresMaps
  <1>4. ASSUME NEW h \in Handlers, Deliver(h) \/ RunSucceeds(h)
        PROVE  [Subscriber!SubNext]_(Subscriber!subVars)
    BY <1>4, DeliverMaps, RunSucceedsMaps
  <1>5. ASSUME NEW h \in Handlers, Send(h) \/ SendFails(h)
        PROVE  [Subscriber!SubNext]_(Subscriber!subVars)
    <2>1. CASE SendRetry(h) \/ SendDlq(h)
      BY <1>5, <2>1, SendMaps DEF Send, SendFails, history
    <2>2. CASE UNCHANGED <<retry, parked>>
      BY <1>1, <1>5, <2>2 DEF Send, SendFails, history
    <2> QED BY <1>5, <2>1, <2>2 DEF Send, SendFails
  <1>6. ASSUME NEW h \in Handlers, Settle(h) \/ ChannelCloses(h) \/ Crash(h)
        PROVE  [Subscriber!SubNext]_(Subscriber!subVars)
    <2>1. /\ pc[h] # "idle"
          /\ attached' = [attached EXCEPT ![h] = FALSE]
          /\ UNCHANGED <<retry, published, handled>>
          /\ \A g \in Handlers : g # h => copy'[g] = copy[g]
      BY <1>6 DEF Settle, ChannelCloses, Crash, PlaceOK, TypeOK, history
    <2>2. \/ attached[h] /\ Return(copy[h])
          \/ UNCHANGED <<ready, parked>>
      BY <1>6 DEF Settle, ChannelCloses, Crash
    <2> QED BY <2>1, <2>2, ReturnMaps, AckMaps
  <1>7. ASSUME NEW h \in Handlers,
               \/ Check(h) \/ Acquire(h) \/ RunFails(h) \/ Mark(h) \/ Release(h)
               \/ CheckFails(h) \/ AcquireFails(h) \/ MarkFails(h)
               \/ ReleaseFails(h)
        PROVE  UNCHANGED Subscriber!subVars
    <2>1. UNCHANGED <<ready, retry, parked, published, copy, attached, handled>>
      BY <1>7 DEF Check, Acquire, RunFails, Mark, Release, CheckFails,
                  AcquireFails, MarkFails, ReleaseFails, queues, history
    <2> QED BY <2>1, SameSets DEF Subscriber!subVars
  <1>8. ASSUME NEW m \in Msgs,
               OrphanExpires(m) \/ LockExpires(m) \/ MarkerExpires(m)
        PROVE  UNCHANGED Subscriber!subVars
    <2>1. UNCHANGED <<ready, retry, parked, published, copy, attached, handled>>
      BY <1>8 DEF OrphanExpires, LockExpires, MarkerExpires, queues, worker,
                  history
    <2> QED BY <2>1, SameSets DEF Subscriber!subVars
  <1> QED
    BY <1>1, <1>2, <1>3, <1>4, <1>5, <1>6, <1>7, <1>8
       DEF Next, HandlerStep, HandlerFault, vars

\* The bus keeps its promise to the one subscriber of an event, for any
\* messages, handlers, retries, limits and faults: every step of the consumer
\* and its queues is a step of Subscription.
THEOREM SubscriptionKept ==
  ASSUME OneSubscriber
  PROVE  Spec => ImplementsSubscription
<1>1. Init => Subscriber!SubInit
  BY DEF Init, Subscriber!SubInit, Sent, Owed, Done, Aside, Deliveries, InBroker
<1>2. IInv /\ CopiesPublished /\ NoMessageLost' /\ [Next]_vars
        => [Subscriber!SubNext]_(Subscriber!subVars)
  BY StepMaps DEF IInv
<1>3. Spec => []NoMessageLost
  BY NothingLost
<1> QED
  BY <1>1, <1>2, <1>3, Inductive, CopiesArePublished, PTL
     DEF Spec, ImplementsSubscription, Subscriber!SubSpec
-----------------------------------------------------------------------------
(* The DLQ.                                                                *)

\* Only a message that is malformed by itself is rejected.
RejectOK ==
  \A h \in Handlers : pc[h] = "reject" => Msg(h) \in Invalid \union NoId

\* Each way to "reject" passes the check of the messageId or of the contract.
LEMMA RejectStep ==
  ASSUME TypeOK, RejectOK, [Next]_vars
  PROVE  RejectOK'
  <1>1. ASSUME NEW h \in Handlers, Deliver(h)
        PROVE  RejectOK'
    <2>1. PICK d \in Copies :
            /\ copy' = [copy EXCEPT ![h] = d]
            /\ pc' = [pc EXCEPT ![h] = IF d.msg \in NoId THEN "reject" ELSE "check"]
      BY <1>1 DEF Deliver, Goto
    <2>2. /\ copy'[h] = d
          /\ pc'[h] = "reject" => d.msg \in NoId
          /\ \A g \in Handlers : g # h => copy'[g] = copy[g] /\ pc'[g] = pc[g]
      BY <2>1 DEF TypeOK
    <2> QED BY <2>2 DEF RejectOK, Msg
  <1>2. ASSUME NEW h \in Handlers, Check(h)
        PROVE  RejectOK'
    <2>1. /\ copy' = copy
          /\ pc'[h] = "reject" => Msg(h) \in Invalid
          /\ \A g \in Handlers : g # h => pc'[g] = pc[g]
      BY <1>2 DEF Check, Resolve, Goto, TypeOK
    <2> QED BY <2>1 DEF RejectOK, Msg
  <1>3. ASSUME \A g \in Handlers : pc'[g] = "reject" => pc[g] = "reject" /\ copy'[g] = copy[g]
        PROVE  RejectOK'
    BY <1>3 DEF RejectOK, Msg
  <1>4. ASSUME NEW h \in Handlers,
               \/ Acquire(h) \/ RunSucceeds(h) \/ RunFails(h) \/ Mark(h)
               \/ Send(h) \/ Release(h) \/ Settle(h)
               \/ HandlerFault(h)
        PROVE  \A g \in Handlers : pc'[g] = "reject" => pc[g] = "reject" /\ copy'[g] = copy[g]
    <2>1. CASE Acquire(h) \/ RunSucceeds(h) \/ RunFails(h) \/ Mark(h)
      BY <2>1 DEF Acquire, RunSucceeds, RunFails, Mark, Resolve, Goto, CatchError,
                  TypeOK
    <2>2. CASE Send(h) \/ Release(h) \/ Settle(h)
      BY <2>2 DEF Send, Release, Settle, AfterSend, Resolve, Goto, TypeOK
    <2>3. CASE HandlerFault(h)
      BY <2>3 DEF HandlerFault, CheckFails, AcquireFails, MarkFails, SendFails,
                  ReleaseFails, ChannelCloses, Crash, AfterSend, Resolve, Goto,
                  CatchError, TypeOK
    <2> QED BY <1>4, <2>1, <2>2, <2>3
  <1>5. CASE UNCHANGED <<pc, copy>>
    BY <1>3, <1>5
  <1> QED
    BY <1>1, <1>2, <1>3, <1>4, <1>5
       DEF Next, vars, HandlerStep, Publish, RetryExpires, OrphanExpires,
           LockExpires, MarkerExpires, worker

\* What puts a message aside: itself, its runs, or its deliveries.
Cause(m) ==
  \/ m \in Invalid \union NoId
  \/ failed[m] > MaxRetries
  \/ \E h \in Handlers : pc[h] # "idle" /\ Msg(h) = m /\ copy[h].returned = DeliveryLimit

ParkedForCause == [][\A s \in Subs : \A m \in parked'[s] \ parked[s] : Cause(m)]_vars

\* Copies enter a DLQ by SendDlq and by Return, both for a cause.
LEMMA ParkStep ==
  ASSUME TypeOK, PlaceOK, AttemptsAreFailures, RejectOK, [Next]_vars
  PROVE  \A s \in Subs : \A m \in parked'[s] \ parked[s] : Cause(m)
  <1>1. ASSUME NEW m \in Msgs, Park(m), Cause(m)
        PROVE  \A s \in Subs : \A n \in parked'[s] \ parked[s] : Cause(n)
    BY <1>1 DEF Park
  <1>2. CASE UNCHANGED parked
    BY <1>2
  <1>3. ASSUME NEW h \in Handlers, SendDlq(h)
        PROVE  \A s \in Subs : \A n \in parked'[s] \ parked[s] : Cause(n)
    <2>1. Msg(h) \in Msgs /\ Park(Msg(h))
      BY <1>3, HeldCopy DEF SendDlq, Msg
    <2>2. Cause(Msg(h))
      BY <1>3 DEF SendDlq, RejectOK, AttemptsAreFailures, Cause
    <2> QED BY <1>1, <2>1, <2>2
  <1>4. ASSUME NEW h \in Handlers, pc[h] # "idle", Return(copy[h])
        PROVE  \A s \in Subs : \A n \in parked'[s] \ parked[s] : Cause(n)
    <2>1. CASE copy[h].returned = DeliveryLimit
      <3>1. Msg(h) \in Msgs /\ Park(Msg(h))
        BY <1>4, <2>1, HeldCopy DEF Return, Msg
      <3>2. Cause(Msg(h))
        BY <1>4, <2>1 DEF Cause
      <3> QED BY <1>1, <3>1, <3>2
    <2>2. CASE copy[h].returned # DeliveryLimit
      BY <1>2, <1>4, <2>2 DEF Return
    <2> QED BY <2>1, <2>2
  <1>5. ASSUME NEW h \in Handlers, Settle(h) \/ ChannelCloses(h) \/ Crash(h)
        PROVE  \A s \in Subs : \A n \in parked'[s] \ parked[s] : Cause(n)
    <2>1. pc[h] # "idle"
      BY <1>5 DEF Settle, ChannelCloses, Crash, PlaceOK
    <2> QED BY <1>2, <1>4, <1>5, <2>1 DEF Settle, ChannelCloses, Crash
  <1>6. ASSUME NEW h \in Handlers, Send(h) \/ SendFails(h)
        PROVE  \A s \in Subs : \A n \in parked'[s] \ parked[s] : Cause(n)
    BY <1>2, <1>3, <1>6 DEF Send, SendFails, SendRetry
  <1>7. ASSUME NEW h \in Handlers,
               \/ Deliver(h) \/ Check(h) \/ Acquire(h) \/ RunSucceeds(h)
               \/ RunFails(h) \/ Mark(h) \/ Release(h)
               \/ CheckFails(h) \/ AcquireFails(h) \/ MarkFails(h)
               \/ ReleaseFails(h)
        PROVE  UNCHANGED parked
    BY <1>7 DEF Deliver, Check, Acquire, RunSucceeds, RunFails, Mark, Release,
                CheckFails, AcquireFails, MarkFails, ReleaseFails, queues
  <1> QED
    BY <1>2, <1>5, <1>6, <1>7
       DEF Next, vars, HandlerStep, HandlerFault, Publish, RetryExpires,
           OrphanExpires, LockExpires, MarkerExpires, queues

\* Nothing reaches a DLQ without a cause: a payload that breaks its contract or
\* a messageId that is missing, MaxRetries + 1 failed runs, or a delivery that
\* was returned as often as x-delivery-limit allows.
THEOREM DlqForCause == Spec => ParkedForCause
<1>1. Init => RejectOK
  BY DEF Init, RejectOK
<1>2. TypeOK /\ RejectOK /\ [Next]_vars => RejectOK'
  BY RejectStep
<1>3. Spec => []RejectOK
  BY <1>1, <1>2, TypeCorrect, PTL DEF Spec
<1>4. IInv /\ RejectOK /\ [Next]_vars
        => [\A s \in Subs : \A m \in parked'[s] \ parked[s] : Cause(m)]_vars
  BY ParkStep DEF IInv
<1> QED BY <1>3, <1>4, Inductive, PTL DEF Spec, ParkedForCause
=============================================================================
