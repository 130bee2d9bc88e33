SPECIFICATION FairSpec
CONSTANTS
  m = m
  a = a
  b = b
  c = c
  x = x
  y = y
  k = k
  NoOwner = NoOwner
  Main = m
  Threads = {m, a, b}
  Vars = {x, y}
  Consts = {}
  Scripts <- OneShotClient
  Spurious = FALSE
CHECK_DEADLOCK FALSE
INVARIANT MutualExclusion
INVARIANT NoLostUpdate
PROPERTY CountsUnderLock
PROPERTY NobodyStuckOnMutex
