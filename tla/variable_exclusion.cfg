SPECIFICATION Spec
CONSTANTS
  m = m
  a = a
  b = b
  c = c
  x = x
  y = y
  k = k
  NoOwner = NoOwner
  Main = m
  Threads = {m, a, b, c}
  Vars = {x}
  Consts = {}
  Scripts <- ThreeLockers
  Spurious = FALSE
CHECK_DEADLOCK FALSE
INVARIANT MutualExclusion
