CONSTANTS
  MaxProc = 2
  NFrames = 4
  NStacks = 2
  TableFrames = 1
  StackFrames = 1
  ElfPages = {1}
  MaxSleep = 1
  BootSpawns = 1
SPECIFICATION ShSpec
INVARIANT VictimNotRunning
