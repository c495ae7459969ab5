---------------------------- MODULE MCPagination ----------------------------
(***************************************************************************)
(* Small instances of Pagination.                                          *)
(***************************************************************************)
EXTENDS Pagination

MCItems == 1..5
=============================================================================
