SPECIFICATION Spec
CONSTANTS
  foo = foo
  u1 = u1
  u2 = u2
  Name = {foo}
  Id = {u1, u2}
  Pid = {0, 1}
  MetaLog <- KeyedLog
  BatchEnd <- KeyedEnds
  Thread = {t1}
  MaxCalls = 2
  None = None
  Unknown = Unknown
  Unloaded = Unloaded
INVARIANTS
  ReadsEveryBatch
CHECK_DEADLOCK FALSE
