------------------------------ MODULE MCSession ------------------------------
(***************************************************************************)
(* Small instances of Session.                                             *)
(***************************************************************************)
EXTENDS Session

CONSTANTS s1, s2, r1, r2, r3, a1, k1, k2

\* Two refreshes and an authenticate() share s1, a third refresh runs on s2.
MCShared == [i \in {r1, r2, r3, a1} |-> IF i = r3 THEN s2 ELSE s1]

\* s2 was constructed with a wrong password.
MCOneWrongPassword == [s \in {s1, s2} |-> IF s = s1 THEN k1 ELSE k2]
=============================================================================
