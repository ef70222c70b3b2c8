SPECIFICATION FairSpec
CONSTANTS
  u1 = u1
  u2 = u2
  Name <- Names
  Id = {u1, u2}
  Pid = {0, 1}
  MetaLog <- RecreatedLog
  BatchEnd <- RecreatedEnds
  Client = {c1, c2}
  Fd = {f1, f2, f3, f4, f5}
  LogFile <- FooLogs
  Request <- DescribeFoo
  Departing = {c2}
  Backlog = 2
  MaxThreads = 2
  MaxSent = 1
  MaxStarts = 1
  None = None
  Free = Free
  Unloaded = Unloaded
PROPERTIES
  EveryRequestAnswered
CHECK_DEADLOCK FALSE
