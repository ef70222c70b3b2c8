SPECIFICATION Spec
CONSTANTS
  u1 = u1
  u2 = u2
  Name <- Names
  Id = {u1, u2}
  Pid = {0, 1}
  MetaLog <- ShortLog
  BatchEnd <- ShortEnds
  Client = {c1, c2, c3}
  Fd = {f1, f2, f3}
  LogFile <- FooLogs
  Request <- FdRequests
  Departing = {c1, c2, c3}
  Backlog = 2
  MaxThreads = 2
  MaxSent = 1
  MaxStarts = 2
  None = None
  Free = Free
  Unloaded = Unloaded
SYMMETRY Symmetric
INVARIANTS
  TypeOK
  DescriptorOwnership
  NoDescriptorLeak
CHECK_DEADLOCK FALSE
