---------------------------- MODULE Subscription ----------------------------
(***************************************************************************)
(* What the message bus promises to its subscribers, without queues,       *)
(* handlers, locks or markers: a message that was published is owed to its *)
(* subscribers until one of their handlers has run it or it was set aside  *)
(* for an operator, and only then may it be forgotten.  It may be run more *)
(* than once, and be owed again after it was run (at-least-once delivery), *)
(* but nothing is ever run or set aside that was not published.            *)
(* Consumer implements this specification.                                 *)
(***************************************************************************)
CONSTANT Deliveries   \* pairs of a message and a subscriber it is for

VARIABLES
  sent,    \* deliveries that were published
  owed,    \* deliveries the bus still has a copy of
  done,    \* deliveries a handler ran with success
  aside    \* deliveries set aside for an operator

subVars == <<sent, owed, done, aside>>

SubInit == sent = {} /\ owed = {} /\ done = {} /\ aside = {}

PublishAll(E) ==
  /\ sent' = sent \union E
  /\ owed' = owed \union E
  /\ UNCHANGED <<done, aside>>

\* The bus makes copies of what it was given, never of anything else.
Repeat(E) ==
  /\ E \subseteq sent
  /\ owed' = owed \union E
  /\ UNCHANGED <<sent, done, aside>>

Run(e) ==
  /\ e \in sent
  /\ done' = done \union {e}
  /\ UNCHANGED <<sent, owed, aside>>

\* What is set aside may be forgotten in the same step.
SetAside(E) ==
  /\ E \subseteq sent
  /\ aside' = aside \union E
  /\ \E gone \in SUBSET E : owed' = owed \ gone
  /\ UNCHANGED <<sent, done>>

Forget(e) ==
  /\ e \in done \union aside
  /\ owed' = owed \ {e}
  /\ UNCHANGED <<sent, done, aside>>

SubNext ==
  \/ \E E \in SUBSET Deliveries : PublishAll(E) \/ Repeat(E) \/ SetAside(E)
  \/ \E e \in Deliveries : Run(e) \/ Forget(e)

SubSpec == SubInit /\ [][SubNext]_subVars
=============================================================================
