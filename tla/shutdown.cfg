SPECIFICATION FairSpec
CONSTANTS
  Requests = {r1, r2}
  SweepIntervals <- AnyIntervals
INVARIANTS
  TypeOK
  PoolOutlivesItsUsers
  ExitIsClean
PROPERTIES
  ProcessEnds
