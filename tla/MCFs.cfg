CONSTANTS
  NBlocks = 7
  NIno = 4
  MaxDirect = 2
  MaxIndirect = 1
  IndPtrs = 2
  DePerBlk = 3
  BlkSize = 2
  Names = {"sys", "a", "b"}
  SysDirs <- MCSysDirs
  Paths <- MCPaths
  MaxDepth = 2
  Contents <- MCContents
SPECIFICATION ViewSpec
INVARIANTS
  TypeOK BlocksExclusive InUseIsMarked NoLeak Tree SmallDirs

  
