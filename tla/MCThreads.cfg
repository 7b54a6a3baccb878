\* Kernel threads and one program: the tasks the boot code and task1 make.
CONSTANTS
  MaxTasks = 3
  MaxFrames = 3
  UserBodies = {2}
  Syscalls = {"other"}
  FreshWords = {0}
SPECIFICATION FairSpec
INVARIANTS
  SwitchAtomic
  ContextIsCurrent
  SavedStacks
  GsBase
PROPERTIES
  ImplementsRoundRobin
  EveryoneRuns
