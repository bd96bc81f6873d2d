SPECIFICATION Spec
CONSTANTS
  h1 = h1
  p1 = p1
  p2 = p2
  None = None
  Malformed = Malformed
  Standard = 2
  Electronic = 3
  DefaultPerPage = 1
  MaxPerPage = 2
  MaxInt = 7
  Households = {h1, h2}
  PickupIds = {p1, p2}
  PaymentIds = {y1, y2}
  ProofKeys = {k1}
  Requests = {"get", "history", "list", "walk", "summaries"}
  OrganicTTL = 0
  MaxClock = 1
  SeedHouseholds = {h1}
  SeedPickups <- OnePickup
  PickupForms <- PlasticForm
  Filters <- SomeRows
  PageTexts = {2, 4, 5, Malformed}
  PerPageTexts = {0, 3}
SYMMETRY Ids
INVARIANTS
  HistoryIsCoherent
  InRangePagesAreServed
  TotalCoversPage
  WalkMissesNothing
PROPERTIES
  SummariesAgree
