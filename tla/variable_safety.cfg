SPECIFICATION Spec
CONSTANTS
  m = m
  a = a
  b = b
  c = c
  x = x
  y = y
  k = k
  NoOwner = NoOwner
  Main = m
  Threads = {m, a, b}
  Vars = {x, k}
  Consts = {k}
  Scripts <- AnyClient
  Spurious = TRUE
SYMMETRY ClientSymmetry
CHECK_DEADLOCK FALSE
INVARIANT TypeOK
INVARIANT MutexDiscipline
INVARIANT OwnerNeverWaits
INVARIANT FreshAccess
PROPERTY TakeoverOnlyAfterWait
PROPERTY ConstantsKeepValue
