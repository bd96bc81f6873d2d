SPECIFICATION Spec
CONSTANTS
  Addresses = {a1, a2}
  Slots = {s1, s2}
  Limiters = {l1, l2, l3}
  Rate = 1
  Burst = 3
  TTL = 2
  MaxStall = 1
  MaxTime = 7
  None = None
SYMMETRY Symmetry
INVARIANTS
  TypeOK
  NoOrphanIsUsed
  IdleAreForgotten
PROPERTIES
  ImplementsTokenBuckets
