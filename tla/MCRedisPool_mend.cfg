CONSTANTS
  NoConn = NoConn
  Cmd = {c1, c2}
  Conn = {k1, k2, k3}
  Limit = 2
  MaxConn = 2
  NormalConn = 2
  Tries = 2
  ResetTo = {}
  MaxResets = 0
  MaxFails = 2
SPECIFICATION FairSpec
PROPERTY Served
PROPERTY KeepsNormal
PROPERTY ImplementsLending
INVARIANT CountExact
