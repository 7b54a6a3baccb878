CONSTANTS
  kprint = kprint  init = init  itoa = itoa
  Names <- MCNames
  KernelNames <- MCKernelNames
  Modules <- MCModules
  MaxLoads = 2
  Span = 4
SPECIFICATION Spec
CHECK_DEADLOCK FALSE
INVARIANTS Relocated
PROPERTIES ImplementsTable
