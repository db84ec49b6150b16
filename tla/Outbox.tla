------------------------------- MODULE Outbox -------------------------------
(***************************************************************************)
(* The transactional outbox: the OutboxEvent table, PrismaOutboxRepository *)
(* and one OutboxRelayService per worker process.                          *)
(*                                                                         *)
(* A relay's timer fires, it opens a transaction, claims a batch of due    *)
(* PENDING rows with FOR UPDATE SKIP LOCKED, publishes them one after the  *)
(* other, marks each row inside the same transaction, and commits.  The    *)
(* transaction can be closed under it at any moment (30 s timeout, lost    *)
(* connection, a failed statement), the process can crash, and the broker  *)
(* can take a message whose confirm never reaches the relay.               *)
(*                                                                         *)
(* Rows are numbered in the order of their createdAt.                      *)
(***************************************************************************)
EXTENDS Integers, FiniteSets

CONSTANTS
  Relays,       \* worker processes that run a relay
  MaxRows,      \* bound: rows ever enqueued
  Poison,       \* rows whose payload breaks its contract: publish always throws
  Batch,        \* RABBITMQ_OUTBOX_BATCH
  MaxAttempts,  \* RABBITMQ_OUTBOX_MAX_ATTEMPTS
  MaxFaults     \* bound: faults in one behaviour

Rows == 1..MaxRows

ASSUME OutboxAssumption ==
  /\ MaxRows \in Nat
  /\ Poison \subseteq Rows
  /\ Batch \in Nat \ {0}
  /\ MaxAttempts \in Nat \ {0}
  /\ MaxFaults \in Nat

VARIABLES
  \* committed contents of the OutboxEvent table
  status,    \* status[r]: "absent" before the row is enqueued
  attempts,  \* attempts[r]
  due,       \* due[r]: availableAt <= now()
  \* the relays
  pc,        \* pc[w]: where drainOnce stands; "idle" while the timer runs
  stopped,   \* stopped[w]: the stopped flag of the service
  tx,        \* tx[w]: the interactive transaction, as the database sees it
  todo,      \* todo[w]: claimed rows the loop has not finished with
  ok,        \* ok[w]: rows updated to PUBLISHED in the open transaction
  bad,       \* bad[w]: rows updated by markFailed in the open transaction
  sent,      \* sent[w]: the broker has the message of the publish in flight
  \* the broker and the environment
  copies,    \* copies[r]: messages with r's messageId the broker received
  faults     \* faults that can duplicate a message, so far

table  == <<status, attempts, due>>
relay  == <<pc, stopped, tx, todo, ok, bad, sent>>
vars   == <<status, attempts, due, pc, stopped, tx, todo, ok, bad, sent,
            copies, faults>>

Statuses == {"absent", "PENDING", "PUBLISHED", "FAILED"}
Places   == {"idle", "publish", "markPublished", "markFailed", "commit"}

TypeOK ==
  /\ status \in [Rows -> Statuses]
  /\ attempts \in [Rows -> Nat]
  /\ due \in [Rows -> BOOLEAN]
  /\ pc \in [Relays -> Places]
  /\ stopped \in [Relays -> BOOLEAN]
  /\ tx \in [Relays -> {"none", "open", "closed"}]
  /\ todo \in [Relays -> SUBSET Rows]
  /\ ok \in [Relays -> SUBSET Rows]
  /\ bad \in [Relays -> SUBSET Rows]
  /\ sent \in [Relays -> BOOLEAN]
  /\ copies \in [Rows -> Nat]
  /\ faults \in Nat

Init ==
  /\ status = [r \in Rows |-> "absent"]
  /\ attempts = [r \in Rows |-> 0]
  /\ due = [r \in Rows |-> FALSE]
  /\ pc = [w \in Relays |-> "idle"]
  /\ stopped = [w \in Relays |-> FALSE]
  /\ tx = [w \in Relays |-> "none"]
  /\ todo = [w \in Relays |-> {}]
  /\ ok = [w \in Relays |-> {}]
  /\ bad = [w \in Relays |-> {}]
  /\ sent = [w \in Relays |-> FALSE]
  /\ copies = [r \in Rows |-> 0]
  /\ faults = 0

-----------------------------------------------------------------------------
(* The repository's operations on the table.                               *)

\* outbox.enqueue: a new row, PENDING and due at once.
Enqueue(r) ==
  /\ status[r] = "absent"
  /\ \A q \in Rows : q < r => status[q] # "absent"
  /\ status' = [status EXCEPT ![r] = "PENDING"]
  /\ due' = [due EXCEPT ![r] = TRUE]
  /\ UNCHANGED <<attempts, relay, copies, faults>>

\* The backoff that markFailed wrote into availableAt runs out.
BackoffElapses(r) ==
  /\ status[r] = "PENDING"
  /\ ~due[r]
  /\ due' = [due EXCEPT ![r] = TRUE]
  /\ UNCHANGED <<status, attempts, relay, copies, faults>>

\* Rows a relay's transaction touched, and so holds locked while it is open.
Claimed(w) == todo[w] \union ok[w] \union bad[w]

Locked(r) == \E w \in Relays : tx[w] = "open" /\ r \in Claimed(w)

\* Mutants: without SKIP LOCKED, and without the condition on status.
ClaimableUnlocked == {r \in Rows : status[r] = "PENDING" /\ due[r]}
ClaimableAnyStatus == {r \in Rows : status[r] # "absent" /\ due[r] /\ ~Locked(r)}

Claimable == {r \in Rows : status[r] = "PENDING" /\ due[r] /\ ~Locked(r)}

\* S is what the claim returns: the oldest Batch rows that are claimable.
IsClaim(S) ==
  /\ S # {}
  /\ Cardinality(S) <= Batch
  /\ \A r \in Claimable \ S : /\ Cardinality(S) = Batch
                              /\ \A q \in S : q < r

\* The row the loop of drainOnce stands at: the oldest it has left.
IsCurrent(w, r) == r \in todo[w] /\ \A q \in todo[w] : r <= q

-----------------------------------------------------------------------------
(* drainOnce.  A poll that finds no row changes nothing and is left out.   *)

Claim(w) ==
  /\ pc[w] = "idle"
  /\ ~stopped[w]
  /\ \E S \in SUBSET Claimable :
       /\ IsClaim(S)
       /\ todo' = [todo EXCEPT ![w] = S]
  /\ tx' = [tx EXCEPT ![w] = "open"]
  /\ pc' = [pc EXCEPT ![w] = "publish"]
  /\ UNCHANGED <<table, stopped, ok, bad, sent, copies, faults>>

\* The broker takes the message of the publish in flight.  The connection
\* manager publishes it again when the connection drops before the confirm:
\* that second copy is a fault.
BrokerAccepts(w) ==
  /\ pc[w] = "publish"
  /\ sent[w] => faults < MaxFaults
  /\ \E r \in Rows \ Poison :
       /\ IsCurrent(w, r)
       /\ copies' = [copies EXCEPT ![r] = @ + 1]
  /\ faults' = IF sent[w] THEN faults + 1 ELSE faults
  /\ sent' = [sent EXCEPT ![w] = TRUE]
  /\ UNCHANGED <<table, pc, stopped, tx, todo, ok, bad>>

\* Mutant: the publish is not awaited.
PublishNotAwaited(w) ==
  /\ pc[w] = "publish"
  /\ pc' = [pc EXCEPT ![w] = "markPublished"]
  /\ sent' = [sent EXCEPT ![w] = FALSE]
  /\ UNCHANGED <<table, stopped, tx, todo, ok, bad, copies, faults>>

PublishConfirmed(w) ==
  /\ pc[w] = "publish"
  /\ sent[w]
  /\ pc' = [pc EXCEPT ![w] = "markPublished"]
  /\ sent' = [sent EXCEPT ![w] = FALSE]
  /\ UNCHANGED <<table, stopped, tx, todo, ok, bad, copies, faults>>

\* Mutant: the error of a publish is swallowed.
PublishErrorSwallowed(w) ==
  /\ pc[w] = "publish"
  /\ ~sent[w]
  /\ pc' = [pc EXCEPT ![w] = "markPublished"]
  /\ UNCHANGED <<table, stopped, tx, todo, ok, bad, sent, copies, faults>>

\* publish throws: the contract does not match, the broker refuses, or, a
\* fault, the broker has the message and the relay does not learn of it.
PublishFails(w) ==
  /\ pc[w] = "publish"
  /\ sent[w] => faults < MaxFaults
  /\ pc' = [pc EXCEPT ![w] = "markFailed"]
  /\ sent' = [sent EXCEPT ![w] = FALSE]
  /\ faults' = IF sent[w] THEN faults + 1 ELSE faults
  /\ UNCHANGED <<table, stopped, tx, todo, ok, bad, copies>>

\* The loop goes to the next row, or leaves the callback to commit.
LoopOn(w, r) ==
  /\ todo' = [todo EXCEPT ![w] = @ \ {r}]
  /\ pc' = [pc EXCEPT ![w] = IF todo[w] = {r} THEN "commit" ELSE "publish"]

MarkPublished(w) ==
  /\ pc[w] = "markPublished"
  /\ tx[w] = "open"
  /\ \E r \in Rows :
       /\ IsCurrent(w, r)
       /\ ok' = [ok EXCEPT ![w] = @ \union {r}]
       /\ LoopOn(w, r)
  /\ UNCHANGED <<table, stopped, tx, bad, sent, copies, faults>>

MarkFailed(w) ==
  /\ pc[w] = "markFailed"
  /\ tx[w] = "open"
  /\ \E r \in Rows :
       /\ IsCurrent(w, r)
       /\ bad' = [bad EXCEPT ![w] = @ \union {r}]
       /\ LoopOn(w, r)
  /\ UNCHANGED <<table, stopped, tx, ok, sent, copies, faults>>

\* What markPublished and markFailed make of a row's status and attempts.
\* Mutants: a FAILED row one attempt late, a batch in which one failure undoes
\* the other marks, a decrement.
MarkedLate(w) ==
  [r \in Rows |-> IF r \in ok[w] THEN "PUBLISHED"
                  ELSE IF r \in bad[w] /\ attempts[r] >= MaxAttempts THEN "FAILED"
                  ELSE status[r]]

MarkedAllOrNone(w) ==
  [r \in Rows |-> IF r \in ok[w] /\ bad[w] = {} THEN "PUBLISHED"
                  ELSE IF r \in bad[w] /\ attempts[r] + 1 >= MaxAttempts THEN "FAILED"
                  ELSE status[r]]

Marked(w) ==
  [r \in Rows |-> IF r \in ok[w] THEN "PUBLISHED"
                  ELSE IF r \in bad[w] /\ attempts[r] + 1 >= MaxAttempts THEN "FAILED"
                  ELSE status[r]]

CountedDown(w) ==
  [r \in Rows |-> IF r \in bad[w] THEN attempts[r] - 1 ELSE attempts[r]]

Counted(w) ==
  [r \in Rows |-> IF r \in bad[w] THEN attempts[r] + 1 ELSE attempts[r]]

\* The transaction commits: every mark of this batch takes effect at once,
\* and the rows' locks are released.
Commit(w) ==
  /\ pc[w] = "commit"
  /\ tx[w] = "open"
  /\ status' = Marked(w)
  /\ attempts' = Counted(w)
  /\ due' = [r \in Rows |-> due[r] /\ r \notin bad[w]]
  /\ pc' = [pc EXCEPT ![w] = "idle"]
  /\ tx' = [tx EXCEPT ![w] = "none"]
  /\ ok' = [ok EXCEPT ![w] = {}]
  /\ bad' = [bad EXCEPT ![w] = {}]
  /\ UNCHANGED <<stopped, todo, sent, copies, faults>>

\* The database closes the transaction under the running callback: its marks
\* are undone and its rows are free for another relay.
TxCloses(w) ==
  /\ tx[w] = "open"
  /\ faults < MaxFaults
  /\ tx' = [tx EXCEPT ![w] = "closed"]
  /\ ok' = [ok EXCEPT ![w] = {}]
  /\ bad' = [bad EXCEPT ![w] = {}]
  /\ faults' = faults + 1
  /\ UNCHANGED <<table, pc, stopped, todo, sent, copies>>

\* Mutant: the timer is not armed again when drainOnce rejects.
DrainThrowsForGood(w) ==
  /\ pc[w] \in {"markPublished", "markFailed", "commit"}
  /\ tx[w] = "closed"
  /\ tx' = [tx EXCEPT ![w] = "none"]
  /\ UNCHANGED <<table, pc, stopped, todo, ok, bad, sent, copies, faults>>

\* A mark, or the commit, throws on the closed transaction; so does the
\* markFailed of the catch block, and drainOnce rejects.
DrainThrows(w) ==
  /\ pc[w] \in {"markPublished", "markFailed", "commit"}
  /\ tx[w] = "closed"
  /\ pc' = [pc EXCEPT ![w] = "idle"]
  /\ tx' = [tx EXCEPT ![w] = "none"]
  /\ todo' = [todo EXCEPT ![w] = {}]
  /\ UNCHANGED <<table, stopped, ok, bad, sent, copies, faults>>

\* onModuleDestroy: no further timer; a drain in progress is not awaited.
Stop(w) ==
  /\ ~stopped[w]
  /\ stopped' = [stopped EXCEPT ![w] = TRUE]
  /\ UNCHANGED <<table, pc, tx, todo, ok, bad, sent, copies, faults>>

\* The process dies and a new one arms its timer at bootstrap.  PostgreSQL
\* rolls the transaction back.
Restart(w) ==
  /\ pc[w] # "idle" \/ stopped[w]
  /\ faults < MaxFaults
  /\ pc' = [pc EXCEPT ![w] = "idle"]
  /\ stopped' = [stopped EXCEPT ![w] = FALSE]
  /\ tx' = [tx EXCEPT ![w] = "none"]
  /\ todo' = [todo EXCEPT ![w] = {}]
  /\ ok' = [ok EXCEPT ![w] = {}]
  /\ bad' = [bad EXCEPT ![w] = {}]
  /\ sent' = [sent EXCEPT ![w] = FALSE]
  /\ faults' = faults + 1
  /\ UNCHANGED <<table, copies>>

RelayStep(w) ==
  \/ Claim(w)
  \/ BrokerAccepts(w)
  \/ PublishConfirmed(w)
  \/ PublishFails(w)
  \/ MarkPublished(w)
  \/ MarkFailed(w)
  \/ Commit(w)
  \/ DrainThrows(w)

Next ==
  \/ \E r \in Rows : Enqueue(r) \/ BackoffElapses(r)
  \/ \E w \in Relays : RelayStep(w) \/ TxCloses(w) \/ Stop(w) \/ Restart(w)

Spec == Init /\ [][Next]_vars

\* The event loop runs a timer that fired and a promise that settled; the
\* broker client settles every publish; a backoff runs out.  Nothing is
\* assumed of producers, of faults or of a restart.
Fairness ==
  /\ \A r \in Rows : WF_vars(BackoffElapses(r))
  /\ \A w \in Relays : WF_vars(RelayStep(w))

FairSpec == Spec /\ Fairness

-----------------------------------------------------------------------------
(* Properties.                                                             *)

\* No event is lost: a row is PUBLISHED only if the broker received its
\* message, whatever was rolled back, stolen by another relay or retried
\* (drainOnce marks after the confirm, inside the claiming transaction).
PublishedReachedBroker ==
  \A r \in Rows : status[r] = "PUBLISHED" => copies[r] >= 1

\* markFailed gives up exactly at maxAttempts: a row still PENDING has
\* attempts left, a FAILED row has used them all, and none is counted twice.
AttemptsMatchStatus ==
  \A r \in Rows :
    /\ status[r] \in {"absent", "PENDING"} => attempts[r] < MaxAttempts
    /\ status[r] = "FAILED" => attempts[r] = MaxAttempts
    /\ attempts[r] <= MaxAttempts

\* FOR UPDATE SKIP LOCKED: two open transactions never work on one row.
OneOpenClaim ==
  \A v, w \in Relays :
    v # w /\ tx[v] = "open" /\ tx[w] = "open"
      => Claimed(v) \intersect Claimed(w) = {}

\* Without a fault the broker receives each event at most once; every extra
\* copy is paid for by a closed transaction, a restart, a resend or a lost
\* confirm.
DuplicatesNeedFaults == \A r \in Rows : copies[r] <= 1 + faults

\* A settled row is final: no relay, not even one that still runs on a closed
\* transaction, takes it up again.
SettledIsFinal ==
  [][\A r \in Rows : status[r] \in {"PUBLISHED", "FAILED"}
                       => /\ status'[r] = status[r]
                          /\ attempts'[r] = attempts[r]]_vars

\* An event enqueued is eventually published or given up, unless every relay
\* is stopped: neither a poison row nor a row in backoff blocks the others.
EveryEventSettles ==
  \A r \in Rows :
    status[r] = "PENDING" ~> \/ status[r] \in {"PUBLISHED", "FAILED"}
                             \/ \A w \in Relays : stopped[w]

\* The outbox implements the promise made to producers.
AbstractState ==
  [r \in Rows |-> CASE status[r] = "absent" -> "absent"
                    [] status[r] = "PENDING" -> "owed"
                    [] status[r] = "PUBLISHED" -> "delivered"
                    [] OTHER -> "dead"]

Promise == INSTANCE EventDelivery WITH
             Events <- Rows,
             state <- AbstractState,
             received <- [r \in Rows |-> copies[r] > 0]

ImplementsPromise == Promise!ASpec
=============================================================================
