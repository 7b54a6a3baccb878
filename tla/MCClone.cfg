CONSTANTS
  MaxTasks = 3
  MaxFrames = 3
  UserBodies = {1, 2}
  Syscalls = {"clone", "other"}
  FreshWords = {0, 4}
SPECIFICATION Spec
INVARIANTS
  RingOrder

