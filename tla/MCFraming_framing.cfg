SPECIFICATION FairSpec
CONSTANTS
  Prefix = 4
  SockBuf = 5
  Frames = 4
  Doubtful = {3}
  Length <- Lengths
  Start <- Starts
  ReplyLength <- ReplyLengths
  ReplyStart <- ReplyStarts
INVARIANTS
  TypeOK
  WholeFrames
  RepliesInOrder
PROPERTIES
  ImplementsExchange
  EveryFrameServed
CHECK_DEADLOCK FALSE
