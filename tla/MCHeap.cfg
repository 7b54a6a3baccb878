CONSTANTS
  BigFrom = 4
  PageWords = 16
  MemMap <- MCMemMap
  Sizes <- MCSizes
SPECIFICATION Spec
CHECK_DEADLOCK FALSE
INVARIANTS
  NoOverlap
  OnlyOwnFrames
  NothingLost
