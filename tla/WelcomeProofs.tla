--------------------------- MODULE WelcomeProofs ---------------------------
(***************************************************************************)
(* Proofs about WelcomeMail: the composition takes nothing away from its   *)
(* parts, and an event that was handled is BullMQ's to mail.               *)
(***************************************************************************)
EXTENDS WelcomeMail, ConsumerProofs

\* What BullMQ keeps or has done, and what the consumer has handled.
JobsOK ==
  /\ job \in [Msgs -> {"none", "waiting", "active", "sent", "failed"}]
  /\ mails \in [Msgs -> 0..MaxMails]
  /\ \A u \in Msgs : job[u] = "sent" => mails[u] > 0

WInv == TypeOK /\ JobsOK /\ HandledHasJob

-----------------------------------------------------------------------------
(* The parts.                                                              *)

\* A step of the composition is one of the consumer or leaves it alone.
THEOREM ConsumerInside == WSpec => Spec
  <1>1. WInit => Init
    BY DEF WInit
  <1>2. [WNext]_wvars => [Next]_vars
    <2> SUFFICES ASSUME [WNext]_wvars PROVE [Next]_vars
      OBVIOUS
    <2>1. CASE UNCHANGED wvars
      BY <2>1 DEF wvars, vars
    <2>2. ASSUME NEW u \in Msgs, UserStep(u)
          PROVE  [Next]_vars
      <3>1. CASE RelayPublishes(u)
        BY <3>1 DEF RelayPublishes, Next
      <3>2. CASE ~ RelayPublishes(u)
        BY <2>2, <3>2
           DEF UserStep, SignUp, HookEnqueues, HookFails, RelaySettles, TakeJob,
               Process, Complete, Stalls
      <3> QED BY <3>1, <3>2
    <2>3. ASSUME NEW h \in Handlers, WorkerStep(h)
          PROVE  [Next]_vars
      BY <2>3 DEF WorkerStep, HandleStep, Run, RunRejects, HandlerStep, Next
    <2>4. CASE Environment
      BY <2>4 DEF Environment, Next
    <2> QED BY <2>1, <2>2, <2>3, <2>4 DEF WNext
  <1> QED BY <1>1, <1>2, PTL DEF WSpec, Spec

\* The outbox of the composition keeps its promise to the producer.
THEOREM OutboxInside == WSpec => Promise!ASpec
  <1>1. WInit => Promise!AInit
    BY DEF WInit
  <1>2. [WNext]_wvars => [Promise!ANext]_(Promise!avars)
    <2> SUFFICES ASSUME [WNext]_wvars PROVE [Promise!ANext]_(Promise!avars)
      OBVIOUS
    <2>1. CASE UNCHANGED wvars
      BY <2>1 DEF wvars, journey, Promise!avars
    <2>2. ASSUME NEW u \in Msgs, UserStep(u)
          PROVE  [Promise!ANext]_(Promise!avars)
      <3>1. CASE SignUp(u) \/ TakeJob(u) \/ Process(u) \/ Complete(u) \/ Stalls(u)
        BY <3>1 DEF SignUp, TakeJob, Process, Complete, Stalls, outbox, Promise!avars
      <3>2. CASE HookEnqueues(u) \/ HookFails(u)
        BY <3>2 DEF HookEnqueues, HookFails, outbox, Promise!avars, Promise!ANext
      <3>3. CASE RelayPublishes(u)
        BY <3>3 DEF RelayPublishes, Promise!ANext
      <3>4. CASE RelaySettles(u)
        BY <3>4 DEF RelaySettles, Promise!ANext
      <3> QED BY <2>2, <3>1, <3>2, <3>3, <3>4 DEF UserStep
    <2>3. ASSUME NEW h \in Handlers, WorkerStep(h)
          PROVE  UNCHANGED Promise!avars
      BY <2>3 DEF WorkerStep, HandleStep, Run, RunRejects, journey, outbox,
                  Promise!avars
    <2>4. CASE Environment
      BY <2>4 DEF Environment, journey, Promise!avars
    <2> QED BY <2>1, <2>2, <2>3, <2>4 DEF WNext
  <1> QED BY <1>1, <1>2, PTL DEF WSpec, Promise!ASpec

\* With the one subscriber that user.registered has, no event that reached the
\* broker is lost on the way to the handler or the DLQ.
THEOREM EventNotLost ==
  ASSUME OneSubscriber
  PROVE  WSpec => []NoMessageLost
  BY ConsumerInside, NothingLost, PTL

-----------------------------------------------------------------------------
(* The job.                                                                *)

\* The consumer's handled events grow only with Run.
LEMMA HandledGrows ==
  ASSUME TypeOK, NEW h \in Handlers, HandleStep(h) \/ HandlerFault(h)
  PROVE  UNCHANGED handled
  BY DEF HandleStep, HandlerFault, Deliver, Check, Acquire, Mark, Send, Release,
         Settle, CheckFails, AcquireFails, MarkFails, CatchError, SendFails,
         ReleaseFails, ChannelCloses, Crash, history

\* An event becomes handled together with its job, and a job goes only when its
\* mail was sent.
LEMMA JobStep ==
  ASSUME WInv, TypeOK', [WNext]_wvars
  PROVE  WInv'
  <1>1. CASE UNCHANGED wvars
    BY <1>1 DEF wvars, vars, journey, WInv, JobsOK, HandledHasJob
  <1>2. ASSUME NEW u \in Msgs, UserStep(u)
        PROVE  WInv'
    <2>0. UNCHANGED handled
      BY <1>2 DEF UserStep, SignUp, HookEnqueues, HookFails, RelayPublishes,
                  RelaySettles, TakeJob, Process, Complete, Stalls, Publish,
                  vars, history
    <2>1. CASE SignUp(u) \/ HookEnqueues(u) \/ HookFails(u) \/ RelayPublishes(u)
               \/ RelaySettles(u)
      BY <2>0, <2>1
         DEF SignUp, HookEnqueues, HookFails, RelayPublishes, RelaySettles, bull,
             WInv, JobsOK, HandledHasJob
    <2>2. CASE TakeJob(u) \/ Process(u) \/ Complete(u) \/ Stalls(u)
      <3>1. JobsOK'
        BY <2>2 DEF TakeJob, Process, Complete, Stalls, WInv, JobsOK, MaxMails
      <3>2. \A v \in Msgs : mails[v] > 0 \/ job[v] # "none"
                              => mails'[v] > 0 \/ job'[v] # "none"
        BY <2>2 DEF TakeJob, Process, Complete, Stalls, WInv, JobsOK, MaxMails
      <3> QED BY <2>0, <3>1, <3>2 DEF WInv, HandledHasJob, TypeOK
    <2> QED BY <1>2, <2>1, <2>2 DEF UserStep
  <1>3. ASSUME NEW h \in Handlers, WorkerStep(h)
        PROVE  WInv'
    <2>1. CASE HandleStep(h)
      BY <2>1, HandledGrows DEF HandleStep, journey, WInv, JobsOK, HandledHasJob
    <2>2. CASE Run(h) \/ RunRejects(h)
      <3>1. Msg(h) \in Msgs
        BY <2>2, HeldCopy DEF Run, RunRejects, RunSucceeds, RunFails, Msg, WInv
      <3>2. JobsOK' /\ \A v \in Msgs : mails[v] > 0 \/ job[v] # "none"
                                         => mails'[v] > 0 \/ job'[v] # "none"
        BY <2>2, <3>1 DEF Run, RunRejects, AddJob, bull, WInv, JobsOK
      <3>3. \A s \in Subs : \A v \in handled'[s] :
              v \in handled[s] \/ job'[v] # "none"
        BY <2>2, <3>1
           DEF Run, RunRejects, RunSucceeds, RunFails, CatchError, AddJob, WInv,
               JobsOK, TypeOK
      <3> QED BY <3>2, <3>3 DEF WInv, HandledHasJob, TypeOK
    <2> QED BY <1>3, <2>1, <2>2 DEF WorkerStep
  <1>4. CASE Environment
    <2>1. UNCHANGED handled
      BY <1>4, HandledGrows
         DEF Environment, WInv, OrphanExpires, LockExpires, MarkerExpires,
             RetryExpires, history
    <2> QED BY <1>4, <2>1 DEF Environment, journey, WInv, JobsOK, HandledHasJob
  <1> QED BY <1>1, <1>2, <1>3, <1>4 DEF WNext

\* An event that the consumer has handled was mailed or has a job in BullMQ,
\* for any users, handlers and faults of the consumer or of BullMQ's workers.
THEOREM HandledIsMailed == WSpec => []HandledHasJob
  <1>1. WInit => WInv
    BY ConsumerAssumption, InitInductive
       DEF WInit, Init, IInv, WInv, JobsOK, HandledHasJob, MaxMails
  <1>2. WSpec => []TypeOK
    BY ConsumerInside, TypeCorrect, PTL
  <1>3. WInv /\ TypeOK' /\ [WNext]_wvars => WInv'
    BY JobStep
  <1>4. WInv => HandledHasJob
    BY DEF WInv
  <1> QED BY <1>1, <1>2, <1>3, <1>4, PTL DEF WSpec

-----------------------------------------------------------------------------
(* The order of sign-up, event, message and mail.                          *)

\* First the user row, then the event, then the message, then the job.
InOrder ==
  /\ \A u \in Msgs : state[u] # "absent" => account[u] # "none"
  /\ \A u \in Msgs : received[u] => state[u] # "absent"
  /\ \A u \in Msgs : published[u] > 0 => received[u]
  /\ MailsHaveUsers

OInv == WTypeOK /\ CopiesPublished /\ InOrder

\* Each of a sign-up's own steps comes after the one before it.
LEMMA UserSteps ==
  ASSUME OInv, TypeOK', NEW u \in Msgs, UserStep(u)
  PROVE  WTypeOK' /\ InOrder'
  <1>1. CASE SignUp(u)
    <2>1. WTypeOK'
      BY <1>1 DEF SignUp, outbox, bull, OInv, WTypeOK, Promise!ATypeOK
    <2>2. /\ UNCHANGED <<state, received, published, mails, job>>
          /\ \A v \in Msgs : account[v] # "none" => account'[v] # "none"
      BY <1>1 DEF SignUp, outbox, bull, vars, OInv, WTypeOK
    <2> QED BY <2>1, <2>2 DEF OInv, InOrder, MailsHaveUsers
  <1>2. CASE HookEnqueues(u) \/ HookFails(u)
    <2>1. /\ account' = [account EXCEPT ![u] = "registered"]
          /\ UNCHANGED <<received, published, mails, job, stalls>>
          /\ \/ state' = state
             \/ state' = [state EXCEPT ![u] = "owed"]
          /\ mishaps' \in Nat
      BY <1>2 DEF HookEnqueues, HookFails, Mishap, Promise!Record, outbox, bull,
                  vars, OInv, WTypeOK
    <2>2. WTypeOK'
      BY <2>1 DEF OInv, WTypeOK, Promise!ATypeOK, Promise!States
    <2>3. \A v \in Msgs : /\ account[v] # "none" => account'[v] # "none"
                          /\ state'[v] # "absent" => state[v] # "absent" \/ account'[v] # "none"
                          /\ state[v] # "absent" => state'[v] # "absent"
      BY <2>1 DEF OInv, WTypeOK, Promise!ATypeOK
    <2> QED BY <2>1, <2>2, <2>3 DEF OInv, InOrder, MailsHaveUsers
  <1>3. CASE RelayPublishes(u)
    <2>1. /\ state[u] # "absent"
          /\ received' = [received EXCEPT ![u] = TRUE]
          /\ published' = [published EXCEPT ![u] = @ + 1]
          /\ UNCHANGED <<state, account, mails, job, stalls, mishaps>>
      BY <1>3 DEF RelayPublishes, Promise!Receive, Publish, bull
    <2>2. WTypeOK'
      BY <2>1 DEF OInv, WTypeOK, Promise!ATypeOK
    <2>3. \A v \in Msgs : /\ received'[v] => received[v] \/ v = u
                          /\ received[v] => received'[v]
                          /\ published'[v] > 0 => published[v] > 0 \/ received'[v]
      BY <2>1 DEF OInv, WTypeOK, TypeOK, Promise!ATypeOK
    <2> QED BY <2>1, <2>2, <2>3 DEF OInv, InOrder, MailsHaveUsers
  <1>4. CASE RelaySettles(u)
    <2>1. UNCHANGED <<received, account, published, mails, job, stalls, mishaps>>
      BY <1>4 DEF RelaySettles, Promise!Settle, bull, vars
    <2>2. PICK done \in SUBSET Msgs, lost \in SUBSET Msgs : Promise!Settle(done, lost)
      BY <1>4 DEF RelaySettles
    <2>3. /\ state' \in [Msgs -> Promise!States]
          /\ \A v \in Msgs : state'[v] # "absent" <=> state[v] # "absent"
      BY <2>2 DEF Promise!Settle, Promise!States, OInv, WTypeOK, Promise!ATypeOK
    <2>4. WTypeOK'
      BY <2>1, <2>3 DEF OInv, WTypeOK, Promise!ATypeOK
    <2> QED BY <2>1, <2>3, <2>4 DEF OInv, InOrder, MailsHaveUsers
  <1>5. CASE TakeJob(u) \/ Process(u) \/ Complete(u) \/ Stalls(u)
    <2>1. WTypeOK'
      BY <1>5, WelcomeAssumption
         DEF TakeJob, Process, Complete, Stalls, Mishap, MaxMails, outbox, OInv,
             WTypeOK, Promise!ATypeOK
    <2>2. /\ UNCHANGED <<state, received, account, published>>
          /\ \A v \in Msgs : mails'[v] > 0 \/ job'[v] # "none"
                               => mails[v] > 0 \/ job[v] # "none"
      BY <1>5 DEF TakeJob, Process, Complete, Stalls, MaxMails, outbox, vars,
                  OInv, WTypeOK
    <2> QED BY <2>1, <2>2 DEF OInv, InOrder, MailsHaveUsers
  <1> QED BY <1>1, <1>2, <1>3, <1>4, <1>5 DEF UserStep

\* A handler adds a job for a message that was published, so its user is there.
LEMMA WorkerSteps ==
  ASSUME OInv, TypeOK', NEW h \in Handlers, Run(h) \/ RunRejects(h)
  PROVE  WTypeOK' /\ InOrder'
  <1>1. Msg(h) \in Msgs /\ published[Msg(h)] > 0
    BY HeldCopy DEF Run, RunRejects, RunSucceeds, RunFails, Msg, OInv, WTypeOK,
                    CopiesPublished
  <1>2. account[Msg(h)] # "none"
    BY <1>1 DEF OInv, InOrder
  <1>3. /\ UNCHANGED <<state, received, account, published, mishaps, mails, stalls>>
        /\ \/ job' = job
           \/ job' = [job EXCEPT ![Msg(h)] = IF @ = "none" THEN "waiting" ELSE @]
    BY DEF Run, RunRejects, RunSucceeds, RunFails, AddJob, outbox, bull, queues
  <1>4. WTypeOK'
    BY <1>1, <1>3 DEF OInv, WTypeOK, Promise!ATypeOK
  <1>5. \A v \in Msgs : job'[v] # "none" => job[v] # "none" \/ v = Msg(h)
    BY <1>3 DEF OInv, WTypeOK
  <1> QED BY <1>2, <1>3, <1>4, <1>5 DEF OInv, InOrder, MailsHaveUsers

\* The variables of the pipeline keep their types, a mail is sent only for a
\* user that exists, and a job that is gone has no stalls left to count.
LEMMA OrderKept == WSpec => []OInv
  <1>1. WInit => OInv
    <2> SUFFICES ASSUME WInit PROVE OInv
      OBVIOUS
    <2>1. TypeOK
      BY InitInductive DEF WInit, IInv
    <2>2. WTypeOK
      BY <2>1, WelcomeAssumption
         DEF WInit, WTypeOK, MaxMails, Promise!AInit, Promise!ATypeOK, Promise!States
    <2>3. CopiesPublished /\ InOrder
      BY DEF WInit, Init, CopiesPublished, InOrder, MailsHaveUsers, Promise!AInit
    <2> QED BY <2>2, <2>3 DEF OInv
  <1>2. OInv /\ IInv /\ IInv' /\ [WNext]_wvars /\ [Next]_vars => OInv'
    <2> SUFFICES ASSUME OInv, IInv, IInv', [WNext]_wvars, [Next]_vars PROVE OInv'
      OBVIOUS
    <2>0. TypeOK' /\ PlaceOK
      BY DEF IInv
    <2>1. CopiesPublished'
      BY <2>0, CopiesStep DEF OInv, WTypeOK
    <2>2. WTypeOK' /\ InOrder'
      <3>1. CASE UNCHANGED journey /\ UNCHANGED published
        BY <2>0, <3>1
           DEF journey, OInv, WTypeOK, Promise!ATypeOK, InOrder, MailsHaveUsers
      <3>2. ASSUME NEW h \in Handlers, HandleStep(h)
            PROVE  UNCHANGED journey /\ UNCHANGED published
        BY <3>2 DEF HandleStep, Deliver, Check, Acquire, Mark, Send, Release,
                    Settle, queues
      <3>3. CASE Environment
        <4>1. UNCHANGED published
          BY <3>3 DEF Environment, OrphanExpires, LockExpires, MarkerExpires,
                      RetryExpires, HandlerFault, CheckFails, AcquireFails,
                      MarkFails, SendFails, ReleaseFails, ChannelCloses, Crash,
                      queues
        <4> QED BY <3>1, <3>3, <4>1 DEF Environment
      <3>4. CASE UNCHANGED wvars
        BY <3>1, <3>4 DEF wvars, vars
      <3> QED BY <2>0, <3>1, <3>2, <3>3, <3>4, UserSteps, WorkerSteps DEF WNext, WorkerStep
    <2> QED BY <2>1, <2>2 DEF OInv
  <1>3. WSpec => []IInv /\ [][Next]_vars
    BY ConsumerInside, Inductive, PTL DEF Spec
  <1> QED BY <1>1, <1>2, <1>3, PTL DEF WSpec

\* The variables of sign-up, outbox, consumer and mail job keep their types.
THEOREM WTypeCorrect == WSpec => []WTypeOK
  BY OrderKept, PTL DEF OInv

\* No mail and no job is for a user whose row was not committed, for any users
\* and any faults of the API, the relay, the consumer and BullMQ.
THEOREM UsersFirst == WSpec => []MailsHaveUsers
  BY OrderKept, PTL DEF OInv, InOrder
-----------------------------------------------------------------------------
(* Who has the event.                                                      *)

\* What the outbox believes of the broker is so.
HandedOver ==
  \A u \in Msgs : /\ state[u] = "delivered" => received[u]
                  /\ received[u] => published[u] > 0

\* A receipt is a publish, and a row is settled as delivered only after it.
LEMMA HandOverStep ==
  ASSUME OInv, HandedOver, [WNext]_wvars
  PROVE  HandedOver'
  <1>1. CASE UNCHANGED <<state, received, published>>
    BY <1>1 DEF HandedOver
  <1>2. ASSUME NEW u \in Msgs, HookEnqueues(u) \/ HookFails(u)
        PROVE  HandedOver'
    <2>1. /\ UNCHANGED <<received, published>>
          /\ state' = state \/ state' = [state EXCEPT ![u] = "owed"]
      BY <1>2 DEF HookEnqueues, HookFails, Promise!Record, outbox, vars
    <2> QED BY <2>1 DEF HandedOver, OInv, WTypeOK, Promise!ATypeOK
  <1>3. ASSUME NEW u \in Msgs, RelayPublishes(u)
        PROVE  HandedOver'
    <2>1. /\ state' = state
          /\ received' = [received EXCEPT ![u] = TRUE]
          /\ published' = [published EXCEPT ![u] = @ + 1]
      BY <1>3 DEF RelayPublishes, Promise!Receive, Publish
    <2> QED BY <2>1 DEF HandedOver, OInv, WTypeOK, TypeOK, Promise!ATypeOK
  <1>4. ASSUME NEW u \in Msgs, RelaySettles(u)
        PROVE  HandedOver'
    <2>1. UNCHANGED <<received, published>>
      BY <1>4 DEF RelaySettles, Promise!Settle, vars
    <2>2. PICK done \in SUBSET Msgs, lost \in SUBSET Msgs : Promise!Settle(done, lost)
      BY <1>4 DEF RelaySettles
    <2>3. \A v \in Msgs : state'[v] = "delivered" => state[v] = "delivered" \/ received[v]
      BY <2>2 DEF Promise!Settle
    <2> QED BY <2>1, <2>3 DEF HandedOver
  <1>5. ASSUME NEW u \in Msgs,
               SignUp(u) \/ TakeJob(u) \/ Process(u) \/ Complete(u) \/ Stalls(u)
        PROVE  UNCHANGED <<state, received, published>>
    BY <1>5 DEF SignUp, TakeJob, Process, Complete, Stalls, outbox, vars
  <1>6. ASSUME NEW h \in Handlers, WorkerStep(h)
        PROVE  UNCHANGED <<state, received, published>>
    BY <1>6 DEF WorkerStep, HandleStep, Run, RunRejects, RunSucceeds, RunFails,
                Deliver, Check, Acquire, Mark, Send, Release, Settle, journey,
                outbox, queues
  <1>7. CASE Environment
    <2>1. UNCHANGED <<state, received>>
      BY <1>7 DEF Environment, journey
    <2>2. UNCHANGED published
      BY <1>7 DEF Environment, OrphanExpires, LockExpires, MarkerExpires,
                  RetryExpires, HandlerFault, CheckFails, AcquireFails,
                  MarkFails, SendFails, ReleaseFails, ChannelCloses, Crash,
                  queues
    <2> QED BY <1>1, <2>1, <2>2
  <1> QED
    BY <1>1, <1>2, <1>3, <1>4, <1>5, <1>6, <1>7
       DEF WNext, UserStep, wvars, vars, journey

\* From its record to its mail the event of a sign-up is never nobody's, with
\* the one subscriber that user.registered has and any faults of the API, the
\* relay, the consumer, Redis and BullMQ's workers.
THEOREM SomebodyHasIt ==
  ASSUME OneSubscriber, Subs # {}
  PROVE  WSpec => []EventAccountedFor
  <1>1. WInit => HandedOver
    BY DEF WInit, Promise!AInit, HandedOver
  <1>2. OInv /\ HandedOver /\ [WNext]_wvars => HandedOver'
    BY HandOverStep
  <1>3. OInv /\ HandedOver /\ NoMessageLost /\ HandledHasJob => EventAccountedFor
    <2> SUFFICES ASSUME OInv, HandedOver, NoMessageLost, HandledHasJob,
                        NEW u \in Msgs, state[u] \in {"delivered", "dead"},
                        state[u] = "dead" => received[u]
                 PROVE  \/ \E s \in Subs : InBroker(u, s) \/ u \in parked[s]
                        \/ job[u] # "none"
                        \/ mails[u] > 0
      BY DEF EventAccountedFor, OInv, WTypeOK, Promise!ATypeOK, Promise!States
    <2>1. PICK s \in Subs : TRUE
      OBVIOUS
    <2>2. published[u] > 0
      BY DEF HandedOver
    <2>3. u \in handled[s] \/ u \in parked[s] \/ InBroker(u, s)
      BY <2>2 DEF NoMessageLost
    <2> QED BY <2>3 DEF HandledHasJob
  <1>4. WSpec => []NoMessageLost
    BY EventNotLost
  <1> QED
    BY <1>1, <1>2, <1>3, <1>4, OrderKept, HandledIsMailed, PTL DEF WSpec

\* What a subscriber is promised holds inside the whole.
THEOREM SubscriptionInside ==
  ASSUME OneSubscriber
  PROVE  WSpec => ImplementsSubscription
  BY ConsumerInside, SubscriptionKept, PTL
=============================================================================
