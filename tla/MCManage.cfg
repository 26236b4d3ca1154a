CONSTANTS
  InfoCap = 1
  SigCap = 1
  SendCap = 1
  RecvCap = 2
  RecvBatch = 2
  MaxTime = 3
  Requests = {"r1", "r2"}
  CmdCap = 1
  AuthExpire = 1
  Scenarios <- MCScenarios
SPECIFICATION FairSpec
INVARIANTS OneAnswer DoneIsDone
CHECK_DEADLOCK FALSE
PROPERTIES PanelReturns StopObeyed RunningShown
