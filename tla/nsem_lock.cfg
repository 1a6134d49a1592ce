CONSTANTS
  p1 = p1
  p2 = p2
  p3 = p3
  s1 = s1
  s2 = s2
  Procs <- ThreeProcs
  Servers = {p1}
  MaxSems = 2
SPECIFICATION SemsSpec
INVARIANT TypeOK
INVARIANT UnitsConserved
INVARIANT SemExclusion
