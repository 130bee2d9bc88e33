SPECIFICATION Spec
CONSTANTS
  MaxArguments = 5
  MaxLiteral = 4
  Files <- AllFiles
  Digits <- DigitValues
  Capitals = {"VAR", "OUT", "NUMERIC", "REAL", "CHAR", "STRING"}
  Dollars = {"$s", "$t"}
  MaxString = 3
  MaxDigits = 3
  MaxIntDigits = 1
  Garbage = {"n", "q"}
CHECK_DEADLOCK FALSE
INVARIANT TokensAreArguments
INVARIANT PrintsWhatIsWritten
INVARIANT ReadersAgree
INVARIANT LinesKeepNumbers
