SPECIFICATION Spec
CONSTANTS
  h1 = h1
  p1 = p1
  p2 = p2
  None = None
  Standard = standard
  Electronic = electronic
  Households = {h1}
  PickupIds = {p1, p2}
  PaymentIds = {y1, y2, y3}
  ProofKeys = {k1, k2}
  Slots = {s1, s2}
  Ops = {"createPickup", "schedule", "complete", "createPayment", "confirm"}
  OrganicTTL = 1
  MaxClock = 0
  SeedHouseholds = {h1}
  SeedPickups <- OnePlastic
  PickupForms <- PlasticForm
PROPERTIES
  StepsKeepRule1
