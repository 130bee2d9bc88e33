SPECIFICATION FairSpec
CONSTANTS
  m = m
  a = a
  b = b
  c = c
  x = x
  y = y
  k = k
  NoOwner = NoOwner
  Main = m
  Threads = {m, a, b}
  Vars = {x}
  Consts = {}
  Scripts <- OneLockerWaits
  Spurious = FALSE
CHECK_DEADLOCK FALSE
PROPERTY ReleasedWaitersGo
