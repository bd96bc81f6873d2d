------------------------------- MODULE Domain -------------------------------
(***************************************************************************)
(* The values the waste-collection backend works on: pickups, payments and *)
(* the pricing rule (internal/core/domain).  A household, a pickup, a      *)
(* payment and the object key of an uploaded proof are uuids in the code   *)
(* and opaque values here.  Times are natural numbers.                     *)
(***************************************************************************)
EXTENDS Naturals

CONSTANTS
  Households, PickupIds, PaymentIds,  \* the uuids of the three tables
  ProofKeys,                          \* object keys of uploaded proofs
  Standard, Electronic,               \* the two configured prices
  None                                \* SQL NULL, and "no such row"

PickupType    == {"organic", "plastic", "paper", "electronic"}
PickupStatus  == {"pending", "scheduled", "completed", "canceled"}
PaymentStatus == {"pending", "paid", "failed"}

Pickup ==
  [household: Households, type: PickupType, status: PickupStatus,
   safetyCheck: BOOLEAN, createdAt: Nat]

Payment ==
  [household: Households, waste: PickupIds, amount: {Standard, Electronic},
   status: PaymentStatus, proof: ProofKeys \cup {None}]

ASSUME NoneIsNoValue ==
  None \notin Households \cup PickupIds \cup PaymentIds \cup ProofKeys
              \cup Pickup \cup Payment

\* the price of all other waste is left out (a plausible mistake, see Database)
BugAmountUnset(type) == IF type = "electronic" THEN Electronic ELSE None

\* Pricing.AmountFor
AmountFor(type) == IF type = "electronic" THEN Electronic ELSE Standard

\* Pickup.CanSchedule: the error it returns, "ok" for nil
CanSchedule(pickup) ==
  CASE pickup.status # "pending" -> "PICKUP_NOT_PENDING"
    [] pickup.status = "pending" /\ pickup.type = "electronic"
         /\ ~pickup.safetyCheck -> "SAFETY_CHECK_REQUIRED"
    [] OTHER -> "ok"

\* the domain.Pickup built by pickup.Service.Create
NewPickup(household, form, now) ==
  [household |-> household, type |-> form.type, status |-> "pending",
   safetyCheck |-> form.safetyCheck, createdAt |-> now]

\* the domain.Payment built for a pickup by Complete and by payment.Create
NewPayment(pickup, waste) ==
  [household |-> pickup.household, waste |-> waste,
   amount |-> AmountFor(pickup.type), status |-> "pending", proof |-> None]
=============================================================================
