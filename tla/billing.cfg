SPECIFICATION Spec
CONSTANTS
  h1 = h1
  p1 = p1
  p2 = p2
  None = None
  Standard = standard
  Electronic = electronic
  Households = {h1}
  PickupIds = {p1, p2}
  PaymentIds = {y1, y2}
  ProofKeys = {k1}
  Slots = {s1, s2}
  Ops = {"schedule", "complete", "cancel", "createPayment", "sweep"}
  OrganicTTL = 0
  MaxClock = 1
  SeedHouseholds = {h1}
  SeedPickups <- TwoOrganic
  PickupForms <- NoForms
SYMMETRY AllIds
INVARIANTS
  TypeOK
  LocksExclude
  CompletedIsBilledOnce
PROPERTIES
  ImplementsLedger
  StepsKeepFinalData
  StepsSweepOnlyOverdue
  StepsRefuseTruthfully
  StepsNeverCompleteBilled
