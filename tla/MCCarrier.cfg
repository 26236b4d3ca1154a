CONSTANTS
  Target = {t1}
  Unseen = {}
  PackLen = 2
  Packed = 3
  Mega = 9
  SendBuff = 3
  ChanRoom = 6
  Client = {"c1", "c2"}
  MaxPkg = 2
  MaxClientBuff = 5
  CacheLen = 3
  RecvRoom = 2
  VerifyTime = 0
  LastSecond = 1
  Plans <- MCPlans
SPECIFICATION MCSpec
INVARIANTS
  NotFilled
  NeverFull
  BlockedHasData
  Listed
  InTurn
  Accounted
PROPERTY
  Lifted
