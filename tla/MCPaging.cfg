CONSTANTS
  Depth = 4
  Slots = {0, 1, 2, 3}
  KernelSlots = {2, 3}
  MaxFrames = 11
  Text <- MCText
  Trampoline <- MCTrampoline
  Registers <- MCRegisters
  BufferPages <- MCBufferPages
  LibraryPages <- MCLibraryPages
  ProgramPages <- MCProgramPages
SPECIFICATION Spec
CHECK_DEADLOCK FALSE
INVARIANTS OneRole KernelEverywhere UserReaches
PROPERTIES OnlyUnmapped
