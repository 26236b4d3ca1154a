CONSTANTS
  c = c
  l = l
  d = d
  s1 = s1
  s2 = s2
  r1 = r1
  r2 = r2
  n1 = n1
  n2 = n2
  Conn = c
  Db = d
  Logic = l
  Disps <- MCDisps
  Peer = peer
  NoServ = NoServ
  NoReq = NoReq
  Req = {r1, r2}
  Name = {n1, n2}
  HeartPeriod = 2
  RedisPeriod = 1
  InitAfter = 0
  ChanCap = 2
  StartTs = 3
  MaxTime = 8
  MaxExpire = 99
  InitUid = 2
  UidIncr = 1
  RedisMethod = "SM"
  Clients = 2
  Scenarios <- MCScenarios
SPECIFICATION FairSpec
INVARIANTS
  OnTime
  SuccessIsComplete
  NoNameStranded
PROPERTIES
  DeadShunned
  NeverOverwritten
  Answered
CHECK_DEADLOCK FALSE
