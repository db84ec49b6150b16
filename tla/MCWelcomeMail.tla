--------------------------- MODULE MCWelcomeMail ---------------------------
(* Instances of WelcomeMail for TLC: handlers and users are model values.  *)
EXTENDS WelcomeMail, TLC

HandlerSymmetry == Permutations(Handlers)
=============================================================================
