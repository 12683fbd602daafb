SPECIFICATION Spec
CONSTANTS
  Word = 32
  PageSize = 2
  ProgramMin = 8
  HeapLimit = 16
  HeapBase = 12
  StackPages = {11}
  PagesPerTable = 4
  NFrames = 7
  KernelFrames = {0}
  MaxPid = 3
  Increments <- MCIncrements
  Files <- MCFiles
  Headers <- MCHeaders
INVARIANTS
  TypeOK
  FramesOwnedOnce
  BlocksAccounted
  HeapMapped
  ElfCheckExact
PROPERTIES
  FailedCallsChangeNothing
  PrivatePagesKept
  FreshMemory
CHECK_DEADLOCK FALSE
