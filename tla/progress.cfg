SPECIFICATION FairSpec
CONSTANTS
  h1 = h1
  p1 = p1
  p2 = p2
  None = None
  Standard = standard
  Electronic = electronic
  Households = {h1}
  PickupIds = {p1}
  PaymentIds = {y1}
  ProofKeys = {k1}
  Slots = {s1, s2}
  Ops = {"schedule", "complete", "cancel", "createPayment", "deleteHousehold", "sweep"}
  OrganicTTL = 0
  MaxClock = 1
  SeedHouseholds = {h1}
  SeedPickups <- OneOrganic
  PickupForms <- NoForms
PROPERTIES
  EveryRequestEnds
  StaleIsSwept
