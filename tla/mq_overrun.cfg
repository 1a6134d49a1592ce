CONSTANTS
  p1 = p1
  p2 = p2
  NoProc = NoProc
  Procs = {p1}
  Modes = {"d"}
  MaxMsgs = {2}
  Depth = 1
  WLens = {2}
  RLens = {1}
  Waits <- Blocking
  Now0 = 5000
  MaxTime = 0
  MaxQueues = 1
  MaxSends = 1
SPECIFICATION Spec
PROPERTY NoOverrun
CHECK_DEADLOCK FALSE
