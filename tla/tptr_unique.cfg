CONSTANTS
  i1 = i1
  i2 = i2
  o1 = o1
  o2 = o2
  o3 = o3
  Null = Null
  Tids <- TwoTids
  Objs <- ThreeObjs
  TidReuse = FALSE
SPECIFICATION Spec
INVARIANT NoDoubleDelete
INVARIANT NoLeak
