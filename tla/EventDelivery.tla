--------------------------- MODULE EventDelivery ---------------------------
(***************************************************************************)
(* What the transactional outbox promises to a producer, without saying    *)
(* how: an event that was recorded is owed to the broker; it is settled as *)
(* delivered only once the broker has received it at least once, it may    *)
(* instead be given up for dead, and a settled event never changes again.  *)
(* The broker may receive an event several times (at-least-once delivery). *)
(* Outbox implements this specification.                                   *)
(***************************************************************************)
CONSTANT Events

VARIABLES
  state,      \* state[e]: what the producer can read of event e
  received    \* received[e]: the broker has received event e at least once

avars == <<state, received>>

States == {"absent", "owed", "delivered", "dead"}

ATypeOK ==
  /\ state \in [Events -> States]
  /\ received \in [Events -> BOOLEAN]

AInit ==
  /\ state = [e \in Events |-> "absent"]
  /\ received = [e \in Events |-> FALSE]

Record(e) ==
  /\ state[e] = "absent"
  /\ state' = [state EXCEPT ![e] = "owed"]
  /\ UNCHANGED received

\* Only an event that was recorded can reach the broker; it may do so again
\* after it is settled (a duplicate).
Receive(e) ==
  /\ state[e] # "absent"
  /\ received' = [received EXCEPT ![e] = TRUE]
  /\ UNCHANGED state

\* A group of owed events is settled in one step.
Settle(done, lost) ==
  /\ \A e \in done \union lost : state[e] = "owed"
  /\ \A e \in done : received[e]
  /\ state' = [e \in Events |-> IF e \in done THEN "delivered"
                                ELSE IF e \in lost THEN "dead"
                                ELSE state[e]]
  /\ UNCHANGED received

ANext ==
  \/ \E e \in Events : Record(e) \/ Receive(e)
  \/ \E done, lost \in SUBSET Events : Settle(done, lost)

ASpec == AInit /\ [][ANext]_avars
=============================================================================
