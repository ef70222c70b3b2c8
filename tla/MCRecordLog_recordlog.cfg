SPECIFICATION Spec
CONSTANTS
  Bits = 10
  HalfBits = 8
  Files <- LogFiles
  BatchAt <- LogBatchAt
  RecordAt <- LogRecordAt
INVARIANTS
  TypeOK
  CopyButForEdges
PROPERTIES
  ImplementsBatchReader
  ReadingEnds
CHECK_DEADLOCK FALSE
