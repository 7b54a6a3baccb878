CONSTANTS
  MaxObjects = 8
  Direct = 1
  BlockSizes = {1024, 2048, 4096}
  InodesPerGroup = 5
  InodesRead = 4
  GroupsRead = 2
  Names <- MCNames
  NameLength <- MCLength
  Disks <- MCDisks
SPECIFICATION MountSpec
CHECK_DEADLOCK FALSE
INVARIANTS
  TreeOfDisk
  StopsBeyondLimits
