CONSTANTS
  NBlocks = 6
  NIno = 4
  MaxDirect = 1
  MaxIndirect = 1
  IndPtrs = 2
  DePerBlk = 3
  BlkSize = 2
  Names = {"sys", "a", "b"}
  SysDirs <- MCSysDirs
  Paths <- MCPaths
  MaxDepth = 2
  Contents <- MCContents
SPECIFICATION Spec
INVARIANT
  LastTwoAreTables
