SPECIFICATION FairSpec
CONSTANTS
  Operations = {
    "createHousehold", "listHouseholds", "getHousehold", "deleteHousehold",
    "createPickup", "listPickups", "schedulePickup", "completePickup",
    "cancelPickup", "createPayment", "listPayments", "confirmPayment",
    "wasteSummary", "paymentSummary", "history", "oversized", "preflight",
    "unknownPath", "wrongMethod", "healthz", "readyz"}
  None = None
  Panicked = Panicked
INVARIANTS
  TypeOK
  LogAgreesWithAnswer
  AnswerTellsOutcome
  StatusTellsCause
PROPERTIES
  EveryRequestIsAnswered
