SPECIFICATION Spec
CONSTANTS
  u1 = u1
  u2 = u2
  Name <- Names
  Id = {u1, u2}
  Pid = {0, 1}
  MetaLog <- RecreatedLog
  BatchEnd <- RecreatedEnds
  Client = {c1}
  Fd = {f1, f2, f3}
  LogFile <- PartLogs
  Request <- FetchFoo
  Departing = {}
  Backlog = 2
  MaxThreads = 2
  MaxSent = 1
  MaxStarts = 1
  None = None
  Free = Free
  Unloaded = Unloaded
INVARIANTS
  UnknownTopicIdMeansNotHosted
CHECK_DEADLOCK FALSE
