CONSTANTS
  NoConn = NoConn
  Cmd = {c1, c2}
  Conn = {k1, k2, k3, k4}
  Limit = 2
  MaxConn = 1
  NormalConn = 1
  Tries = 2
  ResetTo <- Resets
  MaxResets = 2
  MaxFails = 1
SPECIFICATION Spec
SYMMETRY PoolSymmetry
INVARIANT CountCovers
CHECK_DEADLOCK FALSE
