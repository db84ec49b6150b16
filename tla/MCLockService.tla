--------------------------- MODULE MCLockService ---------------------------
(* Instances of LockService for TLC: clients are model values.             *)
EXTENDS LockService
=============================================================================
