SPECIFICATION Spec
CONSTANTS
  t1 = t1
  t2 = t2
  Threads = {t1, t2}
  NoOwner = NoOwner
  Type <- VarTypes
  Size <- VarSizes
  Consts = {"k", "l"}
  Starts <- AllStarts
  MaxNumber = 16
  Mantissa = 4
  Unit = 128
  IntRange = 16
  LongMax = 100
  LongGarbage <- Garbage
CHECK_DEADLOCK FALSE
INVARIANT BuffersPrivate
INVARIANT LockedStringsSafe
INVARIANT NoDivisionByZero
PROPERTY CharactersNotLost
PROPERTY OutPrintsHeldString
PROPERTY IntegerArithmetic
