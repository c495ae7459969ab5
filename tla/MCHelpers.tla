------------------------------ MODULE MCHelpers ------------------------------
(***************************************************************************)
(* Small instances of SignedDelivery and VaultEnvelope, which share nothing *)
(* and so take their steps in runs of their own.                            *)
(***************************************************************************)
EXTENDS SignedDelivery, VaultEnvelope, TLC

MCSkews == {-Skew, 0, Skew}

Symmetry == Permutations(Secrets) \cup Permutations(Payloads)

Init == DeliveryInit /\ EnvelopeInit

Next ==
  \/ envelope = Absent /\ DeliveryNext /\ UNCHANGED envelopeVars
  \/ sent = {} /\ now = 0 /\ EnvelopeNext /\ UNCHANGED deliveryVars

Spec == Init /\ [][Next]_<<deliveryVars, envelopeVars>>
=============================================================================
