CONSTANTS
  s1 = s1
  s2 = s2
  Insts <- TwoInsts
  Modes = {"r", "d", "x"}
SPECIFICATION Spec
INVARIANT NoDescriptorLeak
