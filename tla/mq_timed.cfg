CONSTANTS
  p1 = p1
  p2 = p2
  NoProc = NoProc
  Procs <- TwoProcs
  Depth = 1
  Now0 = 5000
  MaxQueues = 1
  MaxSends = 2
  Modes = {"d"}
  MaxMsgs = {2}
  WLens = {2}
  RLens = {2}
  Waits <- BlockOrTimed
  MaxTime = 3
SPECIFICATION Spec
PROPERTY TimedWaitHonoured
CHECK_DEADLOCK FALSE
