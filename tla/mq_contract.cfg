CONSTANTS
  p1 = p1
  p2 = p2
  NoProc = NoProc
  Procs <- TwoProcs
  Modes = {"r", "d"}
  MaxMsgs = {2}
  Depth = 1
  WLens = {2}
  RLens = {2, 3}
  Waits <- BlockOrTimed
  Now0 = 5000
  MaxTime = 1
  MaxQueues = 2
  MaxSends = 2
SPECIFICATION Spec
PROPERTY MessagesAccounted
CHECK_DEADLOCK FALSE
SYMMETRY ProcSymmetry
