CONSTANTS
  MaxEntries = 5
  LastIndex = 4
SPECIFICATION Spec
CHECK_DEADLOCK FALSE
INVARIANTS
  OneAtATime
  OwnStack
  TrampolineStays
  LandingStackIsFree
PROPERTIES
  Completes
