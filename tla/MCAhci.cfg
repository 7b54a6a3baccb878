CONSTANTS
  Ports = {1, 2}
  Slots = {0, 1}
  Sectors = {1, 2}
SPECIFICATION FairSpec
CHECK_DEADLOCK FALSE
INVARIANTS ReturnedSector
PROPERTIES InFlightStays ReadReturns Initializes
