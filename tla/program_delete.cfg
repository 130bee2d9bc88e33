SPECIFICATION Spec
CONSTANTS
  Programs <- MainErrorPrograms
  Flags <- DeleteFlags
  MaxExec = 6
  MaxThreadExec = 6
  WordSize = 1000
  CreateFails = FALSE
CHECK_DEADLOCK FALSE
INVARIANT DeletedAfterThreads
