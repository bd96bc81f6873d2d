SPECIFICATION FairSpec
CONSTANTS
  Requests = {r1, r2, r3}
  Kinds = {"createPickup", "complete", "schedule", "confirm", "history", "ready"}
  MaxConns = 2
  None = None
INVARIANTS
  TypeOK
  WaitersHoldNothing
  NoConnectionIsLost
PROPERTIES
  EveryRequestIsServed
