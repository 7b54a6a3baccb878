CONSTANTS
  MaxKeys = 4
  Mapped = {1, 3, 4}
  FlushLimit = 3
  FileSize = 1
SPECIFICATION Spec
CHECK_DEADLOCK FALSE
INVARIANTS StatusIsConfig HandlerHasFile
PROPERTIES NewestKey
