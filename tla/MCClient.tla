------------------------------ MODULE MCClient ------------------------------
(***************************************************************************)
(* A small instance of Client: one API key, two client IDs and one base URL *)
(* besides the default.                                                     *)
(***************************************************************************)
EXTENDS Client
=============================================================================
