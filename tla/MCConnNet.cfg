CONSTANTS
  c1 = c1
  c2 = c2
  Conn <- MCConn
  Scenarios <- MCScenarios
  OtherOps <- MCOtherOps
  MaxConn = 1
  RecvCap = 1
  SndCap = 1
  ClientCap = 1
  BatchCap = 1
  NetCap = 4
  MaxPkgLen = 9
  CacheBase = 2
  ShrinkFactor = 2
SPECIFICATION FairSpec
INVARIANTS SlotsMatch InOrder OutOrder CloseLast KeysAgree
PROPERTY CloseFrees
CHECK_DEADLOCK FALSE
