CONSTANTS
  k1 = k1
  k2 = k2
  g1 = g1
  g2 = g2
  u1 = u1
  u2 = u2
  NoUid = NoUid
  NoKey = NoKey
  NoGroup = NoGroup
  NoInfo = NoInfo
  Off = Off
  Group = {g1, g2}
  Key = {k1, k2}
  Uid = {u1}
  ConnOf <- TwoHomesConnOf
  Knows <- TwoHomesKnows
  Versions = 2
  ChanCap = 5
  MayStop = {g1, g2}
  Slot = {s1, s2}
  LockOutlives = TRUE
  RedisFails = TRUE
  MaxLoad = 2
  Separate = TRUE
SPECIFICATION Spec
SYMMETRY GroupSymmetry
INVARIANT OnlineCount
INVARIANT OneHome
INVARIANT OwnSave
INVARIANT LoginExclusive
PROPERTY NoSteal
CHECK_DEADLOCK FALSE
