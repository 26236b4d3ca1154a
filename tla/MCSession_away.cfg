CONSTANTS
  k1 = k1
  k2 = k2
  g1 = g1
  g2 = g2
  u1 = u1
  u2 = u2
  NoUid = NoUid
  NoKey = NoKey
  NoGroup = NoGroup
  NoInfo = NoInfo
  Off = Off
  Group = {g1, g2}
  Key = {k1, k2}
  Uid = {u1}
  ConnOf <- AwayConnOf
  Knows <- TwoHomesKnows
  Versions = 1
  ChanCap = 3
  MayStop = {g1}
  Slot = {s1}
  LockOutlives = TRUE
  RedisFails = FALSE
  MaxLoad = 1
  Separate = FALSE
SPECIFICATION AwaySpec
PROPERTY KickedThenLetIn
CHECK_DEADLOCK FALSE
