--------------------------- MODULE MCRequestSystem ---------------------------
(***************************************************************************)
(* A small instance of RequestSystem: two calls that share a client.       *)
(***************************************************************************)
EXTENDS RequestSystem

CONSTANTS c1, c2, k1

\* c1 takes the client's max_retries, c2 sets its own, and sends nothing.
MCNegativeOption == [c \in {c1, c2} |-> IF c = c1 THEN NoOption ELSE -1]
MCBothDefault == [c \in {c1, c2} |-> NoOption]
=============================================================================
