------------------------------ MODULE MCBackend ------------------------------
(* Instances of BackendProperties for TLC. *)
EXTENDS BackendProperties, TLC

CONSTANTS h1, p1, p2

NoPickups == [p \in PickupIds |-> None]

Row(type, safe) ==
  [household |-> h1, type |-> type, status |-> "pending", safetyCheck |-> safe,
   createdAt |-> 0]

\* organic pickups for the worker, one or more than one row
OneOrganic == [NoPickups EXCEPT ![p1] = Row("organic", FALSE)]
TwoOrganic == [OneOrganic EXCEPT ![p2] = Row("organic", FALSE)]
OnePlastic == [NoPickups EXCEPT ![p1] = Row("plastic", FALSE)]

Form(type, safe) == [type |-> type, safetyCheck |-> safe]
NoForms == {}
PlasticForm == {Form("plastic", FALSE)}
MixedForms == {Form("organic", FALSE), Form("electronic", FALSE)}

Ids == Permutations(PaymentIds) \cup Permutations(ProofKeys)
IdsAndSlots == Ids \cup Permutations(Slots)
AllIds == IdsAndSlots \cup Permutations(PickupIds)
=============================================================================
