CONSTANTS
  Busses = 4
  Slots = 2
  Functions = 2
  Machines <- MCMachines
SPECIFICATION FairPciSpec
INVARIANTS ListedPerEntry SearchFinds
PROPERTY WalkEnds
