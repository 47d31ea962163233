CONSTANTS
  MaxProc = 3
  NFrames = 12
  NStacks = 3
  TableFrames = 2
  StackFrames = 1
  ElfPages = {1}
  MaxSleep = 2
  BootSpawns = 2
SPECIFICATION Spec
INVARIANTS
  TypeOK RunningIsCur FramesExclusive StacksExclusive PidsUnique MappedIffLive CountMatches
PROPERTIES
  OnlyOwnMemory NoEarlyWake
