SPECIFICATION FairSpec
CONSTANTS
  Nets <- MCNets
  Flags <- MCFlags
  Sizes = {0, 2, 3}
  MaxSize = 2
  Texts <- MCTexts
  LongTexts <- MCLong
  HugeTexts <- MCHuge
  BangAt4 <- MCBangAt4
  BangAt260 <- MCBangAt260
  Replies <- MCReplies
  ReadError = "failed"
  Sentinel = "sentinel"
  NotYet = NotYet
CHECK_DEADLOCK FALSE
INVARIANT TypeOK
INVARIANT FilesKeptApart
INVARIANT PrintedInOrder
PROPERTY ExchangeImplemented
 
