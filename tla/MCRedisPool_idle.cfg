CONSTANTS
  NoConn = NoConn
  Cmd = {c1, c2}
  Conn = {k1, k2, k3, k4}
  Limit = 2
  MaxConn = 2
  NormalConn = 1
  Tries = 2
  ResetTo <- Resets
  MaxResets = 1
  MaxFails = 0
SPECIFICATION Spec
INVARIANT IdleIsIdle
