---------------------------- MODULE OutboxProofs ----------------------------
(***************************************************************************)
(* Proofs about Outbox for any number of relays, rows, attempts and        *)
(* faults.                                                                 *)
(*                                                                         *)
(* PublishedReachedBroker and SettledIsFinal are not inductive: a commit   *)
(* turns rows PUBLISHED that an earlier step put into ok, and it does so   *)
(* from a transaction that other relays ran beside.  The invariant IInv    *)
(* adds what the locks and the loop of drainOnce guarantee in between.     *)
(***************************************************************************)
EXTENDS Outbox, TLAPS, FiniteSetTheorems

\* The relay's variables agree with its place in drainOnce.
RelayOK ==
  \A w \in Relays :
    /\ pc[w] = "idle" <=> tx[w] = "none"
    /\ pc[w] \in {"idle", "commit"} => todo[w] = {}
    /\ tx[w] # "open" => ok[w] = {} /\ bad[w] = {}
    /\ sent[w] => pc[w] = "publish"

\* A row in a relay's hands was enqueued; while the relay's transaction is
\* open nobody else can have settled it.
ClaimsPending ==
  \A w \in Relays :
    /\ \A r \in todo[w] : status[r] # "absent"
    /\ tx[w] = "open" => \A r \in Claimed(w) : status[r] = "PENDING"

\* What is, or is about to be, marked PUBLISHED has reached the broker.
MarkedReachedBroker ==
  \A w \in Relays :
    /\ \A r \in ok[w] : copies[r] >= 1
    /\ sent[w] \/ pc[w] = "markPublished"
         => \A r \in Rows : IsCurrent(w, r) => copies[r] >= 1

IInv ==
  /\ TypeOK
  /\ RelayOK
  /\ OneOpenClaim
  /\ ClaimsPending
  /\ MarkedReachedBroker
  /\ PublishedReachedBroker
  /\ AttemptsMatchStatus

-----------------------------------------------------------------------------
(* IInv is inductive.                                                      *)

\* The table is empty and every relay idle.
LEMMA InitInductive == Init => IInv
  BY OutboxAssumption
     DEF Init, IInv, TypeOK, Statuses, Places, RelayOK, OneOpenClaim,
         ClaimsPending, MarkedReachedBroker, PublishedReachedBroker,
         AttemptsMatchStatus, Claimed, IsCurrent, Rows

\* A new row is PENDING, in nobody's hands, and has no attempts.
LEMMA EnqueueInductive ==
  ASSUME IInv, NEW r \in Rows, Enqueue(r)
  PROVE  IInv'
  <1> USE DEF IInv, Enqueue, table, relay
  <1>1. TypeOK'
    BY OutboxAssumption DEF TypeOK, Statuses
  <1>2. ClaimsPending'
    BY DEF ClaimsPending, Claimed
  <1>3. PublishedReachedBroker'
    BY DEF PublishedReachedBroker
  <1>4. AttemptsMatchStatus'
    BY DEF AttemptsMatchStatus
  <1>5. (RelayOK /\ OneOpenClaim /\ MarkedReachedBroker)'
    BY DEF RelayOK, OneOpenClaim, MarkedReachedBroker, Claimed, IsCurrent
  <1> QED BY <1>1, <1>2, <1>3, <1>4, <1>5 DEF IInv

\* Only due changes.
LEMMA BackoffElapsesInductive ==
  ASSUME IInv, NEW r \in Rows, BackoffElapses(r)
  PROVE  IInv'
  <1> USE DEF IInv, BackoffElapses, table, relay
  <1>1. TypeOK'
    BY DEF TypeOK
  <1>2. (RelayOK /\ OneOpenClaim /\ ClaimsPending
         /\ MarkedReachedBroker /\ PublishedReachedBroker /\ AttemptsMatchStatus)'
    BY DEF RelayOK, OneOpenClaim, ClaimsPending, MarkedReachedBroker,
           PublishedReachedBroker, AttemptsMatchStatus, Claimed, IsCurrent
  <1> QED BY <1>1, <1>2 DEF IInv

\* SKIP LOCKED: the claimed rows are PENDING and no open transaction has them.
LEMMA ClaimInductive ==
  ASSUME IInv, NEW w \in Relays, Claim(w)
  PROVE  IInv'
  <1> USE DEF IInv, Claim, table, relay
  <1>1. TypeOK'
    BY OutboxAssumption DEF TypeOK, Places, Claimable
  <1>2. RelayOK'
    BY DEF RelayOK, TypeOK
  <1>3. OneOpenClaim'
    BY DEF OneOpenClaim, Claimed, RelayOK, Claimable, Locked
  <1>4. ClaimsPending'
    BY DEF ClaimsPending, Claimed, RelayOK, Claimable
  <1>5. MarkedReachedBroker'
    BY DEF MarkedReachedBroker, RelayOK, IsCurrent
  <1>6. (PublishedReachedBroker /\ AttemptsMatchStatus)'
    BY DEF PublishedReachedBroker, AttemptsMatchStatus
  <1> QED BY <1>1, <1>2, <1>3, <1>4, <1>5, <1>6 DEF IInv

\* The message received is that of the current row.
LEMMA BrokerAcceptsInductive ==
  ASSUME IInv, NEW w \in Relays, BrokerAccepts(w)
  PROVE  IInv'
  <1> USE DEF IInv, BrokerAccepts, table, relay
  <1>1. TypeOK'
    BY DEF TypeOK
  <1>2. RelayOK'
    BY DEF RelayOK
  <1>3. MarkedReachedBroker'
    <2>1. PICK q \in Rows : /\ IsCurrent(w, q)
                            /\ copies' = [copies EXCEPT ![q] = @ + 1]
      OBVIOUS
    <2>2. copies'[q] >= 1 /\ \A p \in Rows : copies'[p] >= copies[p]
      BY <2>1 DEF TypeOK
    <2>3. \A p \in Rows : IsCurrent(w, p) => p = q
      BY <2>1 DEF IsCurrent, Rows
    <2>4. \A v \in Relays : \A p \in ok[v] : copies'[p] >= 1
      BY <2>2 DEF MarkedReachedBroker, TypeOK
    <2>5. QED
      BY <2>2, <2>3, <2>4 DEF MarkedReachedBroker, TypeOK, IsCurrent
  <1>4. PublishedReachedBroker'
    BY DEF PublishedReachedBroker, TypeOK
  <1>5. (OneOpenClaim /\ ClaimsPending /\ AttemptsMatchStatus)'
    BY DEF OneOpenClaim, ClaimsPending, AttemptsMatchStatus, Claimed
  <1> QED BY <1>1, <1>2, <1>3, <1>4, <1>5 DEF IInv

\* A confirm follows a receipt.
LEMMA PublishConfirmedInductive ==
  ASSUME IInv, NEW w \in Relays, PublishConfirmed(w)
  PROVE  IInv'
  <1> USE DEF IInv, PublishConfirmed, table, relay
  <1>1. TypeOK'
    BY DEF TypeOK, Places
  <1>2. RelayOK'
    BY DEF RelayOK, TypeOK
  <1>3. MarkedReachedBroker'
    BY DEF MarkedReachedBroker, IsCurrent
  <1>4. (OneOpenClaim /\ ClaimsPending /\ PublishedReachedBroker
         /\ AttemptsMatchStatus)'
    BY DEF OneOpenClaim, ClaimsPending, PublishedReachedBroker,
           AttemptsMatchStatus, Claimed
  <1> QED BY <1>1, <1>2, <1>3, <1>4 DEF IInv

\* A failed publish goes to markFailed, whatever the broker did.
LEMMA PublishFailsInductive ==
  ASSUME IInv, NEW w \in Relays, PublishFails(w)
  PROVE  IInv'
  <1> USE DEF IInv, PublishFails, table, relay
  <1>1. TypeOK'
    BY DEF TypeOK, Places
  <1>2. RelayOK'
    BY DEF RelayOK, TypeOK
  <1>3. MarkedReachedBroker'
    BY DEF MarkedReachedBroker, IsCurrent
  <1>4. (OneOpenClaim /\ ClaimsPending /\ PublishedReachedBroker
         /\ AttemptsMatchStatus)'
    BY DEF OneOpenClaim, ClaimsPending, PublishedReachedBroker,
           AttemptsMatchStatus, Claimed
  <1> QED BY <1>1, <1>2, <1>3, <1>4 DEF IInv

\* The row marked is the one whose publish was confirmed.
LEMMA MarkPublishedInductive ==
  ASSUME IInv, NEW w \in Relays, MarkPublished(w)
  PROVE  IInv'
  <1> USE DEF IInv, MarkPublished, table, relay
  <1>1. TypeOK'
    BY DEF TypeOK, Places, LoopOn
  <1>2. RelayOK'
    BY DEF RelayOK, TypeOK, LoopOn
  <1>3. OneOpenClaim'
    BY DEF OneOpenClaim, Claimed, LoopOn, IsCurrent
  <1>4. ClaimsPending'
    BY DEF ClaimsPending, Claimed, IsCurrent, LoopOn
  <1>5. MarkedReachedBroker'
    BY DEF MarkedReachedBroker, TypeOK, RelayOK, IsCurrent, LoopOn
  <1>6. (PublishedReachedBroker /\ AttemptsMatchStatus)'
    BY DEF PublishedReachedBroker, AttemptsMatchStatus
  <1> QED BY <1>1, <1>2, <1>3, <1>4, <1>5, <1>6 DEF IInv

\* A row marked as failed keeps its status until the commit.
LEMMA MarkFailedInductive ==
  ASSUME IInv, NEW w \in Relays, MarkFailed(w)
  PROVE  IInv'
  <1> USE DEF IInv, MarkFailed, table, relay
  <1>1. TypeOK'
    BY DEF TypeOK, Places, LoopOn
  <1>2. RelayOK'
    BY DEF RelayOK, TypeOK, LoopOn
  <1>3. OneOpenClaim'
    BY DEF OneOpenClaim, Claimed, LoopOn, IsCurrent
  <1>4. ClaimsPending'
    BY DEF ClaimsPending, Claimed, IsCurrent, LoopOn
  <1>5. MarkedReachedBroker'
    BY DEF MarkedReachedBroker, RelayOK, IsCurrent, LoopOn
  <1>6. (PublishedReachedBroker /\ AttemptsMatchStatus)'
    BY DEF PublishedReachedBroker, AttemptsMatchStatus
  <1> QED BY <1>1, <1>2, <1>3, <1>4, <1>5, <1>6 DEF IInv

\* The rows that become PUBLISHED are in ok; those in bad were PENDING, so
\* they had an attempt left.
LEMMA CommitInductive ==
  ASSUME IInv, NEW w \in Relays, Commit(w)
  PROVE  IInv'
  <1> USE DEF IInv, Commit, table, relay
  <1>1. TypeOK'
    BY DEF TypeOK, Statuses, Places, Marked, Counted
  <1>2. RelayOK'
    BY DEF RelayOK, TypeOK
  <1>3. OneOpenClaim'
    BY DEF OneOpenClaim, Claimed
  <1>4. ClaimsPending'
    BY DEF ClaimsPending, OneOpenClaim, Claimed, TypeOK, Marked
  <1>5. MarkedReachedBroker'
    BY DEF MarkedReachedBroker, IsCurrent
  <1>6. PublishedReachedBroker'
    BY DEF PublishedReachedBroker, MarkedReachedBroker, Marked
  <1>7. AttemptsMatchStatus'
    <2> SUFFICES ASSUME NEW r \in Rows
                 PROVE  /\ status'[r] \in {"absent", "PENDING"}
                             => attempts'[r] < MaxAttempts
                        /\ status'[r] = "FAILED" => attempts'[r] = MaxAttempts
                        /\ attempts'[r] <= MaxAttempts
      BY DEF AttemptsMatchStatus
    <2>1. /\ status'[r] = IF r \in ok[w] THEN "PUBLISHED"
                          ELSE IF r \in bad[w] /\ attempts[r] + 1 >= MaxAttempts
                               THEN "FAILED" ELSE status[r]
          /\ attempts'[r] = IF r \in bad[w] THEN attempts[r] + 1 ELSE attempts[r]
      BY DEF Marked, Counted
    <2>2. /\ attempts[r] \in Nat
          /\ attempts[r] <= MaxAttempts
          /\ status[r] \in {"absent", "PENDING"} => attempts[r] < MaxAttempts
          /\ status[r] = "FAILED" => attempts[r] = MaxAttempts
      BY DEF TypeOK, AttemptsMatchStatus
    <2>3. r \in ok[w] \union bad[w] => status[r] = "PENDING"
      BY DEF ClaimsPending, Claimed
    <2>4. MaxAttempts \in Nat
      BY OutboxAssumption
    <2>5. CASE r \in bad[w]
      BY <2>1, <2>2, <2>3, <2>4, <2>5
    <2>6. CASE r \notin bad[w]
      BY <2>1, <2>2, <2>3, <2>4, <2>6
    <2> QED BY <2>5, <2>6
  <1> QED BY <1>1, <1>2, <1>3, <1>4, <1>5, <1>6, <1>7 DEF IInv

\* A transaction that closes takes its marks with it.
LEMMA TxClosesInductive ==
  ASSUME IInv, NEW w \in Relays, TxCloses(w)
  PROVE  IInv'
  <1> USE DEF IInv, TxCloses, table, relay
  <1>1. TypeOK'
    BY DEF TypeOK
  <1>2. RelayOK'
    BY DEF RelayOK, TypeOK
  <1>3. OneOpenClaim'
    BY DEF OneOpenClaim, Claimed
  <1>4. ClaimsPending'
    BY DEF ClaimsPending, Claimed
  <1>5. MarkedReachedBroker'
    BY DEF MarkedReachedBroker, IsCurrent
  <1>6. (PublishedReachedBroker /\ AttemptsMatchStatus)'
    BY DEF PublishedReachedBroker, AttemptsMatchStatus
  <1> QED BY <1>1, <1>2, <1>3, <1>4, <1>5, <1>6 DEF IInv

\* A drain on a closed transaction leaves nothing behind.
LEMMA DrainThrowsInductive ==
  ASSUME IInv, NEW w \in Relays, DrainThrows(w)
  PROVE  IInv'
  <1> USE DEF IInv, DrainThrows, table, relay
  <1>1. TypeOK'
    BY DEF TypeOK, Places
  <1>2. RelayOK'
    BY DEF RelayOK, TypeOK
  <1>3. OneOpenClaim'
    BY DEF OneOpenClaim, Claimed
  <1>4. ClaimsPending'
    BY DEF ClaimsPending, Claimed
  <1>5. MarkedReachedBroker'
    BY DEF MarkedReachedBroker, IsCurrent
  <1>6. (PublishedReachedBroker /\ AttemptsMatchStatus)'
    BY DEF PublishedReachedBroker, AttemptsMatchStatus
  <1> QED BY <1>1, <1>2, <1>3, <1>4, <1>5, <1>6 DEF IInv

\* The stopped flag is read by Claim only.
LEMMA StopInductive ==
  ASSUME IInv, NEW w \in Relays, Stop(w)
  PROVE  IInv'
  <1> USE DEF IInv, Stop, table, relay
  <1>1. TypeOK'
    BY DEF TypeOK
  <1>2. (RelayOK /\ OneOpenClaim /\ ClaimsPending
         /\ MarkedReachedBroker /\ PublishedReachedBroker /\ AttemptsMatchStatus)'
    BY DEF RelayOK, OneOpenClaim, ClaimsPending, MarkedReachedBroker,
           PublishedReachedBroker, AttemptsMatchStatus, Claimed, IsCurrent
  <1> QED BY <1>1, <1>2 DEF IInv

\* A new process starts with nothing claimed and nothing marked.
LEMMA RestartInductive ==
  ASSUME IInv, NEW w \in Relays, Restart(w)
  PROVE  IInv'
  <1> USE DEF IInv, Restart, table, relay
  <1>1. TypeOK'
    BY DEF TypeOK, Places
  <1>2. RelayOK'
    BY DEF RelayOK, TypeOK
  <1>3. OneOpenClaim'
    BY DEF OneOpenClaim, Claimed
  <1>4. ClaimsPending'
    BY DEF ClaimsPending, Claimed
  <1>5. MarkedReachedBroker'
    BY DEF MarkedReachedBroker, IsCurrent
  <1>6. (PublishedReachedBroker /\ AttemptsMatchStatus)'
    BY DEF PublishedReachedBroker, AttemptsMatchStatus
  <1> QED BY <1>1, <1>2, <1>3, <1>4, <1>5, <1>6 DEF IInv

\* In every reachable state of Outbox the invariant holds.
THEOREM Inductive == Spec => []IInv
  <1>1. ASSUME IInv, [Next]_vars
        PROVE  IInv'
    <2>1. CASE UNCHANGED vars
      BY <1>1, <2>1
         DEF vars, IInv, TypeOK, RelayOK, OneOpenClaim, ClaimsPending,
             MarkedReachedBroker, PublishedReachedBroker, AttemptsMatchStatus,
             Claimed, IsCurrent
    <2>2. CASE \E r \in Rows : Enqueue(r) \/ BackoffElapses(r)
      BY <1>1, <2>2, EnqueueInductive, BackoffElapsesInductive
    <2>3. CASE \E w \in Relays : RelayStep(w)
      BY <1>1, <2>3, ClaimInductive, BrokerAcceptsInductive,
         PublishConfirmedInductive, PublishFailsInductive,
         MarkPublishedInductive, MarkFailedInductive, CommitInductive,
         DrainThrowsInductive DEF RelayStep
    <2>4. CASE \E w \in Relays : TxCloses(w) \/ Stop(w) \/ Restart(w)
      BY <1>1, <2>4, TxClosesInductive, StopInductive, RestartInductive
    <2>5. QED BY <1>1, <2>1, <2>2, <2>3, <2>4 DEF Next
  <1>2. QED BY InitInductive, <1>1, PTL DEF Spec

\* The variables keep their types, for any number of relays and rows.
THEOREM TypeCorrect == Spec => []TypeOK
  BY Inductive, PTL DEF IInv

\* No event is lost: a PUBLISHED row's message reached the broker.
THEOREM NoEventLost == Spec => []PublishedReachedBroker
  BY Inductive, PTL DEF IInv

\* Two open transactions of drainOnce never work on the same row.
THEOREM ExclusiveClaims == Spec => []OneOpenClaim
  BY Inductive, PTL DEF IInv

\* A row is FAILED exactly when it has used all its attempts.
THEOREM AttemptsCounted == Spec => []AttemptsMatchStatus
  BY Inductive, PTL DEF IInv

-----------------------------------------------------------------------------
(* Steps: finality, and the implementation of EventDelivery.               *)

\* No step but a commit changes the status of a row that was enqueued.
LEMMA StatusSteps ==
  ASSUME IInv, [Next]_vars
  PROVE  \/ UNCHANGED <<status, attempts>>
         \/ \E r \in Rows : Enqueue(r)
         \/ \E w \in Relays : Commit(w)
  BY DEF Next, RelayStep, BackoffElapses, Claim, BrokerAccepts,
         PublishConfirmed, PublishFails, MarkPublished, MarkFailed, TxCloses,
         DrainThrows, Stop, Restart, table, vars

\* No relay ever changes a row that is PUBLISHED or FAILED: a commit changes
\* the rows in ok and bad only, and those are PENDING while it is open.
THEOREM Finality == Spec => SettledIsFinal
  <1>1. ASSUME IInv, [Next]_vars
        PROVE  [\A r \in Rows : status[r] \in {"PUBLISHED", "FAILED"}
                                  => /\ status'[r] = status[r]
                                     /\ attempts'[r] = attempts[r]]_vars
    <2>1. CASE UNCHANGED <<status, attempts>>
      BY <2>1
    <2>2. CASE \E r \in Rows : Enqueue(r)
      BY <1>1, <2>2 DEF Enqueue, IInv, TypeOK
    <2>3. CASE \E w \in Relays : Commit(w)
      BY <1>1, <2>3 DEF Commit, Marked, Counted, IInv, ClaimsPending, Claimed
    <2>4. QED BY <1>1, <2>1, <2>2, <2>3, StatusSteps
  <1>2. QED BY <1>1, Inductive, PTL DEF Spec, SettledIsFinal

\* The initial states of Outbox are initial states of EventDelivery.
LEMMA InitImplements == Init => Promise!AInit
  <1> SUFFICES ASSUME Init PROVE Promise!AInit
    OBVIOUS
  <1>1. \A r \in Rows : (copies[r] > 0) = FALSE
    BY DEF Init
  <1>2. [r \in Rows |-> copies[r] > 0] = [r \in Rows |-> FALSE]
    BY <1>1, Zenon
  <1>3. AbstractState = [r \in Rows |-> "absent"]
    BY DEF Init, AbstractState
  <1>4. QED BY <1>2, <1>3 DEF Promise!AInit

\* Every step of Outbox is a step of EventDelivery or changes nothing there:
\* Enqueue records an event, BrokerAccepts receives one, Commit settles the
\* rows it marked.
LEMMA StepImplements ==
  ASSUME IInv, [Next]_vars
  PROVE  [Promise!ANext]_(Promise!avars)
  <1> DEFINE Received == [r \in Rows |-> copies[r] > 0]
  <1>1. CASE \E r \in Rows : Enqueue(r)
    <2>1. PICK r \in Rows : Enqueue(r)
      BY <1>1
    <2>2. Promise!Record(r)
      BY <2>1 DEF Enqueue, Promise!Record, AbstractState, IInv, TypeOK
    <2>3. QED BY <2>2 DEF Promise!ANext
  <1>2. CASE \E w \in Relays : BrokerAccepts(w)
    <2>1. PICK w \in Relays, r \in Rows :
            /\ IsCurrent(w, r)
            /\ copies' = [copies EXCEPT ![r] = @ + 1]
            /\ status' = status
      BY <1>2 DEF BrokerAccepts, table
    <2>2. status[r] # "absent"
      BY <2>1 DEF IInv, ClaimsPending, IsCurrent
    <2>3. AbstractState[r] # "absent" /\ AbstractState' = AbstractState
      BY <2>1, <2>2 DEF AbstractState, IInv, TypeOK, Statuses
    <2>4. /\ copies'[r] > 0
          /\ \A p \in Rows : p # r => copies'[p] = copies[p]
      BY <2>1 DEF IInv, TypeOK
    <2>5. Received' = [Received EXCEPT ![r] = TRUE]
      BY <2>4
    <2>6. Promise!Receive(r)
      BY <2>3, <2>5 DEF Promise!Receive
    <2>7. QED BY <2>6 DEF Promise!ANext
  <1>3. CASE \E w \in Relays : Commit(w)
    <2>1. PICK w \in Relays : Commit(w)
      BY <1>3
    <2> DEFINE lost == {r \in bad[w] \ ok[w] : attempts[r] + 1 >= MaxAttempts}
    <2>2. /\ ok[w] \subseteq Rows
          /\ lost \subseteq Rows
          /\ \A r \in ok[w] \union lost : status[r] = "PENDING"
          /\ \A r \in ok[w] : copies[r] > 0
      BY <2>1 DEF Commit, IInv, TypeOK, ClaimsPending, Claimed,
                  MarkedReachedBroker
    <2>3. Promise!Settle(ok[w], lost)
      BY <2>1, <2>2
         DEF Commit, Marked, Promise!Settle, AbstractState, IInv, TypeOK,
             Statuses
    <2>4. QED BY <2>2, <2>3 DEF Promise!ANext
  <1>4. CASE UNCHANGED <<status, copies>>
    BY <1>4 DEF Promise!avars, AbstractState
  <1>5. QED
    BY <1>1, <1>2, <1>3, <1>4
       DEF Next, RelayStep, BackoffElapses, Claim, PublishConfirmed,
           PublishFails, MarkPublished, MarkFailed, TxCloses, DrainThrows,
           Stop, Restart, table, vars

\* The outbox keeps the promise made to producers: owed until the broker has
\* the event, then delivered or given up, and never anything else.
THEOREM Implementation == Spec => ImplementsPromise
  BY InitImplements, StepImplements, Inductive, PTL
     DEF Spec, ImplementsPromise, Promise!ASpec
-----------------------------------------------------------------------------
(* Duplicates: every copy beyond the first is paid for by a fault.         *)

\* Relays on a closed transaction that may still publish row r once more.  The
\* fault that closed the transaction pays for it in advance.
Unpaid(r) == {w \in Relays : /\ tx[w] = "closed"
                             /\ pc[w] = "publish" /\ ~sent[w]
                             /\ IsCurrent(w, r)}

\* The copy that needs no fault has been published: its row is settled, or
\* will be when the transaction that holds it commits.
Covered(r) ==
  \/ status[r] = "PUBLISHED"
  \/ \E w \in Relays : /\ tx[w] = "open"
                       /\ \/ r \in ok[w]
                          \/ IsCurrent(w, r) /\ (sent[w] \/ pc[w] = "markPublished")

\* A relay never has a row before it that it has marked.
TodoUnmarked == \A w \in Relays : todo[w] \intersect ok[w] = {}

CopiesPaid ==
  \A r \in Rows :
    /\ IsFiniteSet(Unpaid(r))
    /\ copies[r] + Cardinality(Unpaid(r)) <= faults + (IF Covered(r) THEN 1 ELSE 0)

DInv == IInv /\ TodoUnmarked /\ CopiesPaid

\* What most steps do to a row: no new copy, nobody new who could publish it,
\* and either it stays covered or the step is a fault.
LEMMA PaidStep ==
  ASSUME DInv, NEW r \in Rows,
         copies'[r] = copies[r], Unpaid(r)' \subseteq Unpaid(r),
         \/ faults' = faults /\ (Covered(r) => Covered(r)')
         \/ faults' = faults + 1
  PROVE  /\ IsFiniteSet(Unpaid(r)')
         /\ copies'[r] + Cardinality(Unpaid(r)')
              <= faults' + (IF Covered(r)' THEN 1 ELSE 0)
  <1>1. /\ copies[r] \in Nat /\ faults \in Nat
        /\ IsFiniteSet(Unpaid(r))
        /\ copies[r] + Cardinality(Unpaid(r)) <= faults + (IF Covered(r) THEN 1 ELSE 0)
    BY DEF DInv, CopiesPaid, IInv, TypeOK
  <1>2. /\ IsFiniteSet(Unpaid(r)')
        /\ Cardinality(Unpaid(r)') <= Cardinality(Unpaid(r))
    BY <1>1, FS_Subset
  <1>3. Cardinality(Unpaid(r)) \in Nat /\ Cardinality(Unpaid(r)') \in Nat
    BY <1>1, <1>2, FS_CardinalityType
  <1> DEFINE c == IF Covered(r) THEN 1 ELSE 0
             d == IF Covered(r)' THEN 1 ELSE 0
  <1>4. c \in {0, 1} /\ d \in {0, 1} /\ ((faults' = faults /\ c <= d) \/ faults' = faults + 1)
    OBVIOUS
  <1>5. copies[r] + Cardinality(Unpaid(r)') <= faults' + d
    <2> HIDE DEF c, d
    <2> QED BY <1>1, <1>2, <1>3, <1>4 DEF c
  <1> QED BY <1>2, <1>5

\* At first there are no copies.
LEMMA InitPaid == Init => TodoUnmarked /\ CopiesPaid
  <1> SUFFICES ASSUME Init PROVE TodoUnmarked /\ CopiesPaid
    OBVIOUS
  <1>1. TodoUnmarked
    BY DEF Init, TodoUnmarked
  <1>2. ASSUME NEW r \in Rows
        PROVE  /\ IsFiniteSet(Unpaid(r))
               /\ copies[r] + Cardinality(Unpaid(r)) <= faults + (IF Covered(r) THEN 1 ELSE 0)
    <2>1. Unpaid(r) = {} /\ copies[r] = 0 /\ faults = 0
      BY <1>2 DEF Init, Unpaid
    <2>2. QED BY <2>1, FS_EmptySet
  <1> QED BY <1>1, <1>2 DEF CopiesPaid

\* The broker takes a message: of a row whose first copy it is, of one that
\* was paid for when the transaction closed, or again, which is a fault.
LEMMA BrokerAcceptsPaid ==
  ASSUME DInv, NEW w \in Relays, BrokerAccepts(w)
  PROVE  CopiesPaid'
  <1>1. PICK q \in Rows : /\ IsCurrent(w, q)
                          /\ copies' = [copies EXCEPT ![q] = @ + 1]
    BY DEF BrokerAccepts
  <1>2. copies'[q] = copies[q] + 1 /\ \A r \in Rows : r # q => copies'[r] = copies[r]
    BY <1>1 DEF DInv, IInv, TypeOK
  <1>3. \A r \in Rows : IsCurrent(w, r) => r = q
    BY <1>1 DEF IsCurrent, Rows
  <1>4. \A v \in Relays, r \in Rows : IsCurrent(v, r)' <=> IsCurrent(v, r)
    BY DEF BrokerAccepts, IsCurrent
  <1>5. /\ sent'[w] = TRUE /\ \A v \in Relays : v # w => sent'[v] = sent[v]
        /\ UNCHANGED <<status, pc, tx, todo, ok>>
    BY DEF BrokerAccepts, table, DInv, IInv, TypeOK
  <1>6. \A r \in Rows : Unpaid(r)' \subseteq Unpaid(r) /\ (Covered(r) => Covered(r)')
    BY <1>4, <1>5 DEF Unpaid, Covered
  <1>7. faults' = IF sent[w] THEN faults + 1 ELSE faults
    BY DEF BrokerAccepts
  <1>8. ASSUME NEW r \in Rows, r # q
        PROVE  /\ IsFiniteSet(Unpaid(r)')
               /\ copies'[r] + Cardinality(Unpaid(r)')
                    <= faults' + (IF Covered(r)' THEN 1 ELSE 0)
    BY <1>2, <1>6, <1>7, <1>8, PaidStep
  <1>9. /\ IsFiniteSet(Unpaid(q)')
        /\ copies'[q] + Cardinality(Unpaid(q)')
             <= faults' + (IF Covered(q)' THEN 1 ELSE 0)
    <2>1. /\ copies[q] \in Nat /\ faults \in Nat
          /\ IsFiniteSet(Unpaid(q))
          /\ copies[q] + Cardinality(Unpaid(q)) <= faults + (IF Covered(q) THEN 1 ELSE 0)
      BY DEF DInv, CopiesPaid, IInv, TypeOK
    <2>2. IsFiniteSet(Unpaid(q)') /\ Cardinality(Unpaid(q)') <= Cardinality(Unpaid(q))
      BY <2>1, <1>6, FS_Subset
    <2>3. Cardinality(Unpaid(q)) \in Nat /\ Cardinality(Unpaid(q)') \in Nat
      BY <2>1, <2>2, FS_CardinalityType
    <2>4. pc[w] = "publish" /\ tx[w] \in {"open", "closed"}
      BY DEF BrokerAccepts, DInv, IInv, RelayOK, TypeOK
    <2>5. CASE sent[w]
      BY <2>1, <2>2, <2>3, <2>5, <1>2, <1>6, <1>7
    <2>6. CASE ~sent[w] /\ tx[w] = "closed"
      <3>1. w \in Unpaid(q) /\ Unpaid(q)' = Unpaid(q) \ {w}
        BY <2>4, <2>6, <1>1, <1>4, <1>5 DEF Unpaid
      <3>2. Cardinality(Unpaid(q)') = Cardinality(Unpaid(q)) - 1
        BY <3>1, <2>1, FS_RemoveElement
      <3>3. QED BY <3>2, <2>1, <2>2, <2>3, <2>6, <1>2, <1>6, <1>7
    <2>7. CASE ~sent[w] /\ tx[w] = "open"
      <3>1. q \in Claimed(w) /\ status[q] = "PENDING" /\ q \notin ok[w]
        BY <2>7, <1>1
           DEF IsCurrent, Claimed, DInv, IInv, ClaimsPending, TodoUnmarked
      <3>2. ~Covered(q)
        <4>1. \A v \in Relays : v # w /\ tx[v] = "open" => q \notin Claimed(v)
          BY <3>1, <2>7 DEF DInv, IInv, OneOpenClaim
        <4>2. \A v \in Relays : v # w /\ tx[v] = "open" => q \notin ok[v] /\ ~IsCurrent(v, q)
          BY <4>1 DEF Claimed, IsCurrent
        <4>3. QED BY <4>2, <3>1, <2>4, <2>7 DEF Covered
      <3>3. Covered(q)'
        BY <2>7, <1>1, <1>4, <1>5 DEF Covered
      <3>4. QED BY <3>2, <3>3, <2>1, <2>2, <2>3, <2>7, <1>2, <1>7
    <2> QED BY <2>4, <2>5, <2>6, <2>7
  <1> QED BY <1>8, <1>9 DEF CopiesPaid

\* The fault that closes a transaction pays for the copy that covered a row, or
\* for the one that the relay still publishes; no row needs both.
LEMMA TxClosesPaid ==
  ASSUME DInv, NEW w \in Relays, TxCloses(w)
  PROVE  CopiesPaid'
  <1>1. /\ tx[w] = "open" /\ tx'[w] = "closed" /\ faults' = faults + 1
        /\ \A v \in Relays : v # w => tx'[v] = tx[v] /\ ok'[v] = ok[v]
        /\ UNCHANGED <<status, pc, todo, sent, copies>>
    BY DEF TxCloses, table, DInv, IInv, TypeOK
  <1>2. \A v \in Relays, r \in Rows : IsCurrent(v, r)' <=> IsCurrent(v, r)
    BY <1>1 DEF IsCurrent
  <1>3. ASSUME NEW r \in Rows
        PROVE  /\ IsFiniteSet(Unpaid(r)')
               /\ copies'[r] + Cardinality(Unpaid(r)')
                    <= faults' + (IF Covered(r)' THEN 1 ELSE 0)
    <2>1. CASE ~(pc[w] = "publish" /\ ~sent[w] /\ IsCurrent(w, r))
      <3>1. Unpaid(r)' \subseteq Unpaid(r)
        BY <1>1, <1>2, <2>1 DEF Unpaid
      <3>2. QED BY <3>1, <1>1, PaidStep
    <2>2. CASE pc[w] = "publish" /\ ~sent[w] /\ IsCurrent(w, r)
      <3>1. w \notin Unpaid(r) /\ Unpaid(r)' = Unpaid(r) \union {w}
        BY <1>1, <1>2, <2>2 DEF Unpaid
      <3>2. Covered(r) => Covered(r)'
        <4>1. r \notin ok[w]
          BY <2>2 DEF IsCurrent, DInv, TodoUnmarked
        <4>2. QED BY <4>1, <1>1, <1>2, <2>2 DEF Covered
      <3>3. /\ copies[r] \in Nat /\ faults \in Nat
            /\ IsFiniteSet(Unpaid(r))
            /\ copies[r] + Cardinality(Unpaid(r)) <= faults + (IF Covered(r) THEN 1 ELSE 0)
        BY DEF DInv, CopiesPaid, IInv, TypeOK
      <3>4. /\ IsFiniteSet(Unpaid(r)')
            /\ Cardinality(Unpaid(r)') = Cardinality(Unpaid(r)) + 1
        BY <3>1, <3>3, FS_AddElement
      <3>5. Cardinality(Unpaid(r)) \in Nat
        BY <3>3, FS_CardinalityType
      <3>6. QED BY <1>1, <3>2, <3>3, <3>4, <3>5
    <2> QED BY <2>1, <2>2
  <1> QED BY <1>3 DEF CopiesPaid

\* All other steps are as PaidStep says, for every row.
LEMMA OthersPaid ==
  ASSUME DInv, UNCHANGED copies,
         \A r \in Rows : /\ Unpaid(r)' \subseteq Unpaid(r)
                         /\ \/ faults' = faults /\ (Covered(r) => Covered(r)')
                            \/ faults' = faults + 1
  PROVE  CopiesPaid'
  BY PaidStep DEF CopiesPaid

\* Enqueue, a backoff, a stop.
LEMMA TableStepsPaid ==
  ASSUME DInv,
         \/ \E r \in Rows : Enqueue(r) \/ BackoffElapses(r)
         \/ \E w \in Relays : Stop(w)
  PROVE  CopiesPaid'
  <1>1. /\ UNCHANGED <<pc, tx, todo, ok, sent, copies, faults>>
        /\ \A r \in Rows : status[r] = "PUBLISHED" => status'[r] = "PUBLISHED"
    BY DEF Enqueue, BackoffElapses, Stop, table, relay, DInv, IInv, TypeOK
  <1>2. \A r \in Rows : Unpaid(r)' = Unpaid(r) /\ (Covered(r) => Covered(r)')
    BY <1>1 DEF Unpaid, Covered, IsCurrent
  <1> QED BY <1>1, <1>2, OthersPaid

\* A relay that claims had no transaction; one that throws or dies has none
\* afterwards.
LEMMA ClaimPaid ==
  ASSUME DInv, NEW w \in Relays, Claim(w)
  PROVE  CopiesPaid'
  <1>1. /\ tx[w] = "none" /\ tx'[w] = "open"
        /\ UNCHANGED <<status, ok, sent, copies, faults>>
        /\ \A v \in Relays : v # w => UNCHANGED <<tx[v], pc[v], todo[v]>>
    BY DEF Claim, table, DInv, IInv, TypeOK, RelayOK
  <1>2. \A r \in Rows : Unpaid(r)' \subseteq Unpaid(r) /\ (Covered(r) => Covered(r)')
    BY <1>1 DEF Unpaid, Covered, IsCurrent
  <1> QED BY <1>1, <1>2, OthersPaid

\* The old loop ends, and what was paid for it in advance is left over.
LEMMA DrainThrowsPaid ==
  ASSUME DInv, NEW w \in Relays, DrainThrows(w)
  PROVE  CopiesPaid'
  <1>1. /\ tx[w] = "closed" /\ tx'[w] = "none"
        /\ UNCHANGED <<status, ok, sent, copies, faults>>
        /\ \A v \in Relays : v # w => UNCHANGED <<tx[v], pc[v], todo[v]>>
    BY DEF DrainThrows, table, DInv, IInv, TypeOK
  <1>2. \A r \in Rows : Unpaid(r)' \subseteq Unpaid(r) /\ (Covered(r) => Covered(r)')
    BY <1>1 DEF Unpaid, Covered, IsCurrent
  <1> QED BY <1>1, <1>2, OthersPaid

\* A new process has no transaction; the crash was a fault more.
LEMMA RestartPaid ==
  ASSUME DInv, NEW w \in Relays, Restart(w)
  PROVE  CopiesPaid'
  <1>1. /\ tx'[w] = "none" /\ faults' = faults + 1
        /\ UNCHANGED copies
        /\ \A v \in Relays : v # w => UNCHANGED <<tx[v], pc[v], todo[v], sent[v]>>
    BY DEF Restart, table, DInv, IInv, TypeOK
  <1>2. \A r \in Rows : Unpaid(r)' \subseteq Unpaid(r)
    BY <1>1 DEF Unpaid, IsCurrent
  <1> QED BY <1>1, <1>2, OthersPaid

\* The end of a publish: a confirmed row stays covered, a failed one that was
\* sent is a fault.
LEMMA PublishEndsPaid ==
  ASSUME DInv, NEW w \in Relays, PublishConfirmed(w) \/ PublishFails(w)
  PROVE  CopiesPaid'
  <1>1. /\ pc[w] = "publish" /\ pc'[w] # "publish"
        /\ UNCHANGED <<status, tx, todo, ok, copies>>
        /\ \A v \in Relays : v # w => UNCHANGED <<pc[v], sent[v]>>
        /\ \/ pc'[w] = "markPublished" /\ faults' = faults
           \/ ~sent[w] /\ faults' = faults
           \/ faults' = faults + 1
    BY DEF PublishConfirmed, PublishFails, table, DInv, IInv, TypeOK
  <1>2. \A r \in Rows : Unpaid(r)' \subseteq Unpaid(r)
    BY <1>1 DEF Unpaid, IsCurrent
  <1>3. ASSUME NEW r \in Rows, faults' # faults + 1
        PROVE  faults' = faults /\ (Covered(r) => Covered(r)')
    BY <1>1, <1>3 DEF Covered, IsCurrent
  <1> QED BY <1>1, <1>2, <1>3, OthersPaid

\* A row that is marked stays covered: it is in ok.
LEMMA MarksPaid ==
  ASSUME DInv, NEW w \in Relays, MarkPublished(w) \/ MarkFailed(w)
  PROVE  CopiesPaid'
  <1>1. /\ tx[w] = "open" /\ ~sent[w]
        /\ UNCHANGED <<status, tx, sent, copies, faults>>
        /\ \A v \in Relays : v # w => UNCHANGED <<pc[v], todo[v], ok[v]>>
    BY DEF MarkPublished, MarkFailed, LoopOn, table, DInv, IInv, TypeOK, RelayOK
  <1>2. \A r \in Rows : /\ r \in ok[w] => r \in ok'[w]
                        /\ pc[w] = "markPublished" /\ IsCurrent(w, r) => r \in ok'[w]
    BY DEF MarkPublished, MarkFailed, IsCurrent, Rows, DInv, IInv, TypeOK
  <1>3. \A r \in Rows : Unpaid(r)' \subseteq Unpaid(r)
    BY <1>1 DEF Unpaid, IsCurrent
  <1>4. \A r \in Rows : Covered(r) => Covered(r)'
    BY <1>1, <1>2 DEF Covered, IsCurrent
  <1> QED BY <1>1, <1>3, <1>4, OthersPaid

\* The rows in ok become PUBLISHED; what was PUBLISHED is in nobody's hands.
LEMMA CommitPaid ==
  ASSUME DInv, NEW w \in Relays, Commit(w)
  PROVE  CopiesPaid'
  <1>1. /\ tx[w] = "open" /\ tx'[w] = "none" /\ todo[w] = {}
        /\ UNCHANGED <<todo, sent, copies, faults>>
        /\ \A v \in Relays : v # w => UNCHANGED <<tx[v], pc[v], ok[v]>>
    BY DEF Commit, table, DInv, IInv, TypeOK, RelayOK
  <1>2. \A r \in Rows : /\ r \in ok[w] => status'[r] = "PUBLISHED"
                        /\ status[r] = "PUBLISHED" => status'[r] = "PUBLISHED"
    BY DEF Commit, Marked, DInv, IInv, ClaimsPending, Claimed
  <1>3. \A r \in Rows : Unpaid(r)' \subseteq Unpaid(r) /\ (Covered(r) => Covered(r)')
    BY <1>1, <1>2 DEF Unpaid, Covered, IsCurrent
  <1> QED BY <1>1, <1>3, OthersPaid

\* A marked row leaves todo, and a claim starts with nothing marked.
LEMMA TodoSteps ==
  ASSUME IInv, TodoUnmarked, [Next]_vars
  PROVE  TodoUnmarked'
  <1>1. CASE UNCHANGED <<todo, ok>>
    BY <1>1 DEF TodoUnmarked
  <1>2. ASSUME NEW w \in Relays, Claim(w) PROVE TodoUnmarked'
    BY <1>2 DEF Claim, IInv, TypeOK, RelayOK, TodoUnmarked
  <1>3. ASSUME NEW w \in Relays, MarkPublished(w) \/ MarkFailed(w) PROVE TodoUnmarked'
    BY <1>3 DEF MarkPublished, MarkFailed, LoopOn, IInv, TypeOK, TodoUnmarked
  <1>4. ASSUME NEW w \in Relays, Commit(w) \/ TxCloses(w) \/ DrainThrows(w) \/ Restart(w)
        PROVE  TodoUnmarked'
    BY <1>4 DEF Commit, TxCloses, DrainThrows, Restart, IInv, TypeOK, TodoUnmarked
  <1> QED
    BY <1>1, <1>2, <1>3, <1>4
       DEF Next, RelayStep, vars, Enqueue, BackoffElapses, BrokerAccepts,
           PublishConfirmed, PublishFails, Stop, relay

\* Each event reaches the broker once, and once more for each fault at most:
\* closed transactions, restarts, resends and lost confirms.
THEOREM DuplicatesPaid == Spec => []DuplicatesNeedFaults
  <1>1. Init => DInv
    BY InitInductive, InitPaid DEF DInv
  <1>2. ASSUME DInv, [Next]_vars, IInv' PROVE DInv'
    <2>1. TodoUnmarked'
      BY <1>2, TodoSteps DEF DInv
    <2>2. CASE UNCHANGED vars
      <3>1. UNCHANGED copies /\ UNCHANGED faults
            /\ \A r \in Rows : Unpaid(r)' = Unpaid(r) /\ (Covered(r) => Covered(r)')
        BY <2>2 DEF vars, Unpaid, Covered, IsCurrent
      <3>2. CopiesPaid'
        BY <1>2, <3>1, OthersPaid
      <3> QED BY <1>2, <2>1, <3>2 DEF DInv
    <2>3. CASE Next
      <3>1. CopiesPaid'
        BY <1>2, <2>3, TableStepsPaid, ClaimPaid, BrokerAcceptsPaid,
           PublishEndsPaid, MarksPaid, CommitPaid, DrainThrowsPaid,
           TxClosesPaid, RestartPaid DEF Next, RelayStep
      <3> QED BY <1>2, <2>1, <3>1 DEF DInv
    <2> QED BY <1>2, <2>2, <2>3
  <1>3. ASSUME DInv PROVE DuplicatesNeedFaults
    <2> SUFFICES ASSUME NEW r \in Rows PROVE copies[r] <= 1 + faults
      BY DEF DuplicatesNeedFaults
    <2>1. /\ copies[r] \in Nat /\ faults \in Nat
          /\ Cardinality(Unpaid(r)) \in Nat
          /\ copies[r] + Cardinality(Unpaid(r)) <= faults + (IF Covered(r) THEN 1 ELSE 0)
      BY <1>3, FS_CardinalityType DEF DInv, CopiesPaid, IInv, TypeOK
    <2> QED BY <2>1
  <1> QED BY <1>1, <1>2, <1>3, Inductive, PTL DEF Spec
=============================================================================
