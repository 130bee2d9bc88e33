SPECIFICATION FairSpec
CONSTANTS
  Names = {"a", "b"}
  MaxLines = 3
  MaxPlainLines = 5
  Files <- AllFiles
CHECK_DEADLOCK FALSE
INVARIANT TypeOK
INVARIANT LabelsCutProgram
INVARIANT InstructionsInOrder
INVARIANT VerdictIsRight
PROPERTY ParsingEnds
