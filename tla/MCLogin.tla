------------------------------- MODULE MCLogin -------------------------------
(***************************************************************************)
(* A small instance of Login: two logins and two calls, each with a retry,  *)
(* so that both come back, one comes back twice, or one goes on to a step.  *)
(***************************************************************************)
EXTENDS Login, TLC

CONSTANTS c1, c2, l1, l2

MCAllDefault == [c \in Calls |-> NoOption]

Symmetry == Permutations(Calls) \cup Permutations(Logins)
=============================================================================
