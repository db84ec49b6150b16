----------------------------- MODULE MCConsumer -----------------------------
(* Instances of Consumer for TLC: handlers and messages are model values.  *)
EXTENDS Consumer, TLC

HandlerSymmetry == Permutations(Handlers)
=============================================================================
