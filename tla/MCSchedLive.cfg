CONSTANTS
  MaxProc = 4
  NFrames = 8
  NStacks = 4
  TableFrames = 1
  StackFrames = 1
  ElfPages = {}
  MaxSleep = 2
  BootSpawns = 2
SPECIFICATION Spec
PROPERTIES ReadyRuns SleeperWakes
