---------------------------- MODULE WelcomeMail ----------------------------
(***************************************************************************)
(* From sign-up to the welcome mail: better-auth's create.after hook, the  *)
(* outbox, the consumer of user.registered, and the BullMQ job it adds.    *)
(*                                                                         *)
(* The consumer is the module Consumer, whose handler function is here the *)
(* call of mail.enqueue.  The outbox is what it promises, EventDelivery,   *)
(* which the module Outbox implements.  A user is identified with the      *)
(* event, and so with the messageId, that the hook enqueues for it.        *)
(***************************************************************************)
EXTENDS Consumer

CONSTANTS
  MaxStalls,   \* maxStalledCount of BullMQ's worker
  MaxMishaps   \* bound: faults of the API and of BullMQ's workers; those of
               \* the consumer are bounded by MaxFaults

ASSUME WelcomeAssumption == MaxStalls \in Nat /\ MaxMishaps \in Nat

VARIABLES
  account,   \* account[u]: the user row, and how far the sign-up request is
  state,     \* state[u]: the outbox row, as EventDelivery sees it
  received,  \* received[u]: the broker has received the event
  job,       \* job[u]: the BullMQ job whose jobId is the messageId
  stalls,    \* stalls[u]: times the worker died under the present job
  mails,     \* mails[u]: mails sent, counted up to MaxMails
  mishaps    \* faults of the API and of BullMQ's workers so far

outbox  == <<state, received>>
bull    == <<job, stalls, mails>>
journey == <<account, state, received, job, stalls, mails, mishaps>>
wvars   == <<vars, journey>>

Promise == INSTANCE EventDelivery WITH Events <- Msgs

MaxMails == 2  \* one, or more than one

WTypeOK ==
  /\ TypeOK
  /\ Promise!ATypeOK
  /\ account \in [Msgs -> {"none", "inserted", "registered"}]
  /\ job \in [Msgs -> {"none", "waiting", "active", "sent", "failed"}]
  /\ stalls \in [Msgs -> 0..MaxStalls]
  /\ \A u \in Msgs : job[u] = "none" => stalls[u] = 0
  /\ mails \in [Msgs -> 0..MaxMails]
  /\ mishaps \in Nat

WInit ==
  /\ Init
  /\ Promise!AInit
  /\ account = [u \in Msgs |-> "none"]
  /\ job = [u \in Msgs |-> "none"]
  /\ stalls = [u \in Msgs |-> 0]
  /\ mails = [u \in Msgs |-> 0]
  /\ mishaps = 0

Mishap == mishaps < MaxMishaps /\ mishaps' = mishaps + 1

-----------------------------------------------------------------------------
(* Sign-up.                                                                *)

\* The user row is committed; the hook runs after that.
SignUp(u) ==
  /\ account[u] = "none"
  /\ account' = [account EXCEPT ![u] = "inserted"]
  /\ UNCHANGED <<vars, outbox, bull, mishaps>>

\* Mutant: the hook enqueues before the user is inserted.
EnqueueFirst(u) ==
  /\ account[u] # "registered"
  /\ state[u] = "absent"
  /\ Promise!Record(u)
  /\ UNCHANGED <<vars, account, bull, mishaps>>

\* outbox.enqueue in the create.after hook: a commit of its own.
HookEnqueues(u) ==
  /\ account[u] = "inserted"
  /\ account' = [account EXCEPT ![u] = "registered"]
  /\ Promise!Record(u)
  /\ UNCHANGED <<vars, bull, mishaps>>

\* The API dies in between, or enqueue rejects, with or without its commit.
\* The e-mail address is taken: no second sign-up inserts the user again.
HookFails(u) ==
  /\ account[u] = "inserted"
  /\ Mishap
  /\ account' = [account EXCEPT ![u] = "registered"]
  /\ Promise!Record(u) \/ UNCHANGED outbox
  /\ UNCHANGED <<vars, bull>>

-----------------------------------------------------------------------------
(* The relay.                                                              *)

RelayPublishes(u) ==
  /\ Promise!Receive(u)
  /\ Publish(u)
  /\ UNCHANGED <<account, bull, mishaps>>

\* Mutant: the row is marked PUBLISHED before the message has left.
RelaySettlesEarly(u) ==
  /\ state[u] = "owed"
  /\ \E end \in {"delivered", "dead"} : state' = [state EXCEPT ![u] = end]
  /\ UNCHANGED <<vars, account, received, bull, mishaps>>

RelaySettles(u) ==
  /\ Promise!Settle({u}, {}) \/ Promise!Settle({}, {u})
  /\ UNCHANGED <<vars, account, bull, mishaps>>

-----------------------------------------------------------------------------
(* The mail job.                                                           *)

\* queue.add with a jobId: ignored while BullMQ still has a job of that id.
AddJob(u) ==
  /\ job' = [job EXCEPT ![u] = IF @ = "none" THEN "waiting" ELSE @]
  /\ UNCHANGED <<stalls, mails>>

\* Mutant: the handler does not await mail.enqueue, which may still reject.
RunNotAwaited(h) ==
  /\ RunSucceeds(h)
  /\ AddJob(Msg(h)) \/ UNCHANGED bull
  /\ UNCHANGED <<account, outbox, mishaps>>

\* The handler function of UserRegisteredConsumer.
Run(h) ==
  /\ RunSucceeds(h)
  /\ AddJob(Msg(h))
  /\ UNCHANGED <<account, outbox, mishaps>>

\* mail.enqueue rejects; Redis may have taken the job.
RunRejects(h) ==
  /\ RunFails(h)
  /\ AddJob(Msg(h)) \/ UNCHANGED bull
  /\ UNCHANGED <<account, outbox, mishaps>>

\* BullMQ's worker takes the job.
TakeJob(u) ==
  /\ job[u] = "waiting"
  /\ job' = [job EXCEPT ![u] = "active"]
  /\ UNCHANGED <<vars, account, outbox, stalls, mails, mishaps>>

\* MailProcessor.process sends the mail.
Process(u) ==
  /\ job[u] = "active"
  /\ job' = [job EXCEPT ![u] = "sent"]
  /\ mails' = [mails EXCEPT ![u] = IF @ < MaxMails THEN @ + 1 ELSE @]
  /\ UNCHANGED <<vars, account, outbox, stalls, mishaps>>

\* Mutant: a job added later under the same id counts the stalls of this one.
CompleteKeepsStalls(u) ==
  /\ job[u] = "sent"
  /\ job' = [job EXCEPT ![u] = "none"]
  /\ UNCHANGED <<vars, account, outbox, stalls, mails, mishaps>>

\* removeOnComplete: the job is gone, and its id with it.
Complete(u) ==
  /\ job[u] = "sent"
  /\ job' = [job EXCEPT ![u] = "none"]
  /\ stalls' = [stalls EXCEPT ![u] = 0]
  /\ UNCHANGED <<vars, account, outbox, mails, mishaps>>

\* The worker dies before the job is completed: BullMQ puts it back to wait,
\* or, when it has stalled too often, among the failed jobs, which it keeps.
Stalls(u) ==
  /\ job[u] \in {"active", "sent"}
  /\ Mishap
  /\ IF stalls[u] < MaxStalls
     THEN /\ job' = [job EXCEPT ![u] = "waiting"]
          /\ stalls' = [stalls EXCEPT ![u] = @ + 1]
     ELSE /\ job' = [job EXCEPT ![u] = "failed"]
          /\ UNCHANGED stalls
  /\ UNCHANGED <<vars, account, outbox, mails>>

-----------------------------------------------------------------------------

\* The steps of handle in which its function has no part.
HandleStep(h) ==
  /\ \/ Deliver(h)
     \/ Check(h)
     \/ Acquire(h)
     \/ Mark(h)
     \/ Send(h)
     \/ Release(h)
     \/ Settle(h)
  /\ UNCHANGED journey

WorkerStep(h) == HandleStep(h) \/ Run(h) \/ RunRejects(h)

Environment ==
  /\ \/ \E m \in Msgs : OrphanExpires(m) \/ LockExpires(m) \/ MarkerExpires(m)
     \/ \E d \in Copies : RetryExpires(d)
     \/ \E h \in Handlers : HandlerFault(h)
  /\ UNCHANGED journey

UserStep(u) ==
  \/ SignUp(u)
  \/ HookEnqueues(u)
  \/ HookFails(u)
  \/ RelayPublishes(u)
  \/ RelaySettles(u)
  \/ TakeJob(u)
  \/ Process(u)
  \/ Complete(u)
  \/ Stalls(u)

WNext ==
  \/ \E u \in Msgs : UserStep(u)
  \/ \E h \in Handlers : WorkerStep(h)
  \/ Environment

WSpec == WInit /\ [][WNext]_wvars

\* What Consumer assumes; the relay publishes what it owes before it settles
\* it (Outbox, EveryEventSettles); BullMQ's worker takes and completes jobs.
\* Nobody has to sign up.
WFairness ==
  /\ \A h \in Handlers : WF_wvars(WorkerStep(h))
  /\ \A d \in Copies : WF_wvars(RetryExpires(d) /\ UNCHANGED journey)
  /\ \A u \in Msgs : /\ WF_wvars(OrphanExpires(u) /\ UNCHANGED journey)
                     /\ WF_wvars(HookEnqueues(u))
                     /\ WF_wvars(state[u] = "owed" /\ RelayPublishes(u))
                     /\ WF_wvars(TakeJob(u))
                     /\ WF_wvars(Process(u))
                     /\ WF_wvars(Complete(u))

WFairSpec == WSpec /\ WFairness

-----------------------------------------------------------------------------
(* Properties.                                                             *)

\* No mail goes to a user that does not exist: the event leaves after the user
\* row's commit, through whatever comes between the hook and the processor.
MailsHaveUsers ==
  \A u \in Msgs : mails[u] > 0 \/ job[u] # "none" => account[u] # "none"

\* The consumer takes an event for handled, and so acks it and skips its
\* duplicates, only when BullMQ has taken it over: from then on there is a job
\* of its id or the mail has been sent, whatever completes, stalls or restarts.
HandledHasJob ==
  \A s \in Subs : \A u \in handled[s] : mails[u] > 0 \/ job[u] # "none"

\* At every moment somebody has the event of a recorded sign-up: the outbox, the
\* broker, the DLQ or BullMQ, unless the mail is out or the relay gave it up
\* before the broker had it.  Each hands it over before it lets go of it.
EventAccountedFor ==
  \A u \in Msgs :
    state[u] # "absent" =>
      \/ state[u] = "owed"
      \/ state[u] = "dead" /\ ~received[u]
      \/ \E s \in Subs : InBroker(u, s) \/ u \in parked[s]
      \/ job[u] # "none"
      \/ mails[u] > 0

\* A sign-up whose event was recorded ends in a mail, unless the outbox gave the
\* event up or the message or its job was put aside for an operator.
WelcomeArrives ==
  \A u \in Msgs :
    state[u] # "absent"
      ~> \/ mails[u] > 0
         \/ state[u] = "dead" /\ ~received[u]
         \/ job[u] = "failed"
         \/ \E s \in Subs : u \in parked[s]

\* BullMQ drops a second job of the same messageId ("BullMQ bỏ trùng nếu
\* enqueue lại cùng id"): once an event has been mailed, a repeated enqueue adds
\* no job.
RepeatedEnqueueDropped ==
  [][\A u \in Msgs : mails[u] > 0 /\ job[u] = "none" => job'[u] = "none"]_wvars
=============================================================================
