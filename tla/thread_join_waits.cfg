CONSTANTS
  c1 = c1
  c2 = c2
  Callers <- TwoCallers
  Tid = 7
  NDEBUG = FALSE
SPECIFICATION Spec
PROPERTY JoinWaits
