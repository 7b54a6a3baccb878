CONSTANTS
  Cpus = {c1, c2, c3}
  MaxNest = 2
SPECIFICATION FairSpec
INVARIANTS
  MutualExclusion
  NeverInterrupted
PROPERTIES
  EventuallyReleased
