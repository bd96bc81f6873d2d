------------------------------ MODULE MCReads ------------------------------
(* Instances of Reads for TLC. *)
EXTENDS Reads, TLC

CONSTANTS p1, p2, h1

NoPickups == [p \in PickupIds |-> None]
Row(type) ==
  [household |-> h1, type |-> type, status |-> "pending", safetyCheck |-> TRUE,
   createdAt |-> 0]
OnePickup == [NoPickups EXCEPT ![p1] = Row("plastic")]

Form(type) == [type |-> type, safetyCheck |-> FALSE]
PlasticForm == {Form("plastic")}

Select(status, household, dated) ==
  [status |-> status, household |-> household, dated |-> dated]
SomeRows ==
  {Select(None, None, FALSE), Select("completed", None, FALSE), Select(None, h1, TRUE)}

Ids == Permutations(PaymentIds) \cup Permutations(ProofKeys)
=============================================================================
