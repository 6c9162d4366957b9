CONSTANTS
  p1 = p1
  p2 = p2
  p3 = p3
  NoPid = NoPid
  Pid = {p1, p2, p3}
  Type = "SIMPLE"
  Methods = {"PRESTART", "START", "POSTSTART", "STOP"}
  IsRepository = FALSE
  Threads = {p1}
  FailLimit = 1
  RetryLimit = 15
  MaxReady = 1
  MaxForks = 2
SPECIFICATION FairSpec
INVARIANTS Purged Watched
PROPERTIES Settles
CHECK_DEADLOCK FALSE
