SPECIFICATION FairSpec
CONSTANTS
  foo = foo
  u1 = u1
  u2 = u2
  Name = {foo}
  Id = {u1, u2}
  Pid = {0, 1}
  MetaLog <- GrowingLog
  BatchEnd <- GrowingEnds
  Thread = {t1, t2}
  MaxCalls = 2
  None = None
  Unknown = Unknown
  Unloaded = Unloaded
INVARIANTS
  TypeOK
  NobodySeesHalfBuiltMaps
  ReadsEveryBatch
PROPERTIES
  ImplementsView
  EveryLookupEnds
CHECK_DEADLOCK FALSE
