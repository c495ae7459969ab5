----------------------------- MODULE MCVaultStore -----------------------------
(***************************************************************************)
(* A small instance of VaultStore: writers of one object.                  *)
(***************************************************************************)
EXTENDS VaultStore

CONSTANTS c1, c2

MCBothRetry == [c \in {c1, c2} |-> NoOption]
=============================================================================
