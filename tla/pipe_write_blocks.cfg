CONSTANTS
  w = w
  r = r
  p1 = p1
  p2 = p2
  Procs <- RacingProcs
  WriteProcs <- RacingWriters
  ReadProcs = {r}
  Slots = 1
  PipeBuf = 2
  WLens = {2}
  RLens = {2}
  Waits <- BoundedWaits
  MaxBytes = 4
  SigpipeIgnored = {}
SPECIFICATION Spec
INVARIANT TimeoutHonoured
