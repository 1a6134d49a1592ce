CONSTANTS
  p1 = p1
  p2 = p2
  Procs <- TwoProcs
  Modes <- AllModes
  Cap = 2
  Umask = 18
  Privileged = {}
SPECIFICATION Spec
INVARIANT CreatorMayOpen
