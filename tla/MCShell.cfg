SPECIFICATION Spec
CONSTANTS
  MaxComponents = 2
  NameLength = 1
  MaxFiles = 2
  MaxNameBytes = 3
  MaxImage = 4
  MaxFds = 5
  SeekMax = 3
  Offsets <- MCOffsets
  Counts = {2}
  MaxPid = 4
  MaxNodes = 7
  MaxOpen = 2
  CatCount = 2
  Archives <- MCArchives
  Explored <- MCExplored
  Paths <- MCPaths
  Probes <- MCProbes
  ShellPaths <- MCShellPaths
  ShellPath <- MCShellPath
CHECK_DEADLOCK FALSE
INVARIANT TypeOK
INVARIANT TreeWellFormed
INVARIANT LookupExact
INVARIANT GetcwdExact
INVARIANT DescriptorsConsistent
INVARIANT LseekExact
INVARIANT CallsAgree
INVARIANT BootExact
INVARIANT ListingComplete
INVARIANT CatPrintsFile
INVARIANT PromptClean
PROPERTY CommandEnds
