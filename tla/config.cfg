SPECIFICATION Spec
CONSTANTS
  Unset = Unset
  Empty = Empty
  Malformed = Malformed
  Environments <- AllEnvironments
  DefaultBody = 6
  DefaultUpload = 5
  DefaultConns = 2
  MaxInt32 = 7
INVARIANTS
  ServesOnlyWhatIsAllowed
  PricesAreDeliberate
