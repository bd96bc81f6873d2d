SPECIFICATION FairSpec
CONSTANTS
  Requests = {r1, r2}
  SweepIntervals <- AnyIntervals
PROPERTIES
  EverySignalEnds
