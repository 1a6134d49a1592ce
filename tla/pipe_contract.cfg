CONSTANTS
  w = w
  r = r
  p1 = p1
  p2 = p2
  Procs <- SharedProcs
  WriteProcs <- SharedProcs
  ReadProcs <- SharedProcs
  Slots = 1
  PipeBuf = 2
  WLens = {1, 2}
  RLens = {1, 2}
  Waits <- BoundedWaits
  MaxBytes = 3
  SigpipeIgnored = {p1}
SPECIFICATION Spec
PROPERTY ChannelSpec
CHECK_DEADLOCK FALSE
