------------------------------ MODULE MCOutbox ------------------------------
(* Instances of Outbox for TLC: relays are model values.                   *)
EXTENDS Outbox
=============================================================================
