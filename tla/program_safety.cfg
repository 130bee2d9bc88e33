SPECIFICATION FairSpec
CONSTANTS
  Programs <- AllPrograms
  Flags <- AllFlags
  MaxExec = 6
  MaxThreadExec = 6
  WordSize = 1000
  CreateFails = TRUE
CHECK_DEADLOCK FALSE
INVARIANT JoinedBeforeReply
INVARIANT ThreadOwnLines
INVARIANT ThreadErrorReported
INVARIANT BarrierOrdersOutput
PROPERTY ForksAndJoins
PROPERTY EveryRequestEnds
PROPERTY ThreadJumpsLikeMain
