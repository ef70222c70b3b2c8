SPECIFICATION CodecSpec
CONSTANTS
  Bits = 10
  HalfBits = 5
  Group = 3
  Base = 2
  Null = Null
INVARIANTS
  VarintComesBack
  VarlongComesBackUnlessSmallest
  ShiftDefined
  ReaderTypeOK
  WholeFrameIsRead
  CutFrameIsRefused
PROPERTIES
  ReadsWhatWasWritten
CHECK_DEADLOCK FALSE
