CONSTANTS
  p1 = p1
  p2 = p2
  p3 = p3
  NoPkg = NoPkg
  Pkg = {p1, p2, p3}
  DataLen <- MCDataLen
  HeadLen = 2
  Size = 8
  RecvLen = 2
  Sender = {s1, s2}
  MayRestart = {"writer", "reader"}
  MaxCount = 1
SPECIFICATION FairSpec
PROPERTY ImplementsFifo
PROPERTY Progress
