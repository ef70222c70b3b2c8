SPECIFICATION Spec
CONSTANTS
  u1 = u1
  u2 = u2
  Name <- Names
  Id = {u1, u2}
  Pid = {0, 1}
  MetaLog <- RecreatedLog
  BatchEnd <- RecreatedEnds
  Client = {c1, c2}
  Fd = {f1, f2, f3}
  LogFile <- PartLogs
  Request <- CatalogueRequests
  Departing = {}
  Backlog = 2
  MaxThreads = 2
  MaxSent = 2
  MaxStarts = 2
  None = None
  Free = Free
  Unloaded = Unloaded
SYMMETRY Symmetric
INVARIANTS
  DescribeAgree
PROPERTIES
  ImplementsBroker
CHECK_DEADLOCK FALSE
