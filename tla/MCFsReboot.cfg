CONSTANTS
  NBlocks = 6
  NIno = 4
  MaxDirect = 2
  MaxIndirect = 1
  IndPtrs = 2
  DePerBlk = 4
  BlkSize = 2
  Names = {"sys", "a", "b"}
  SysDirs <- MCSysDirs
  Paths <- MCPaths
  MaxDepth = 1
  Contents <- MCContents
SPECIFICATION RebootSpec
INVARIANT
  InUseIsMarked
