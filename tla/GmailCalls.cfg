CONSTANTS
  Call = {c1, c2}
  Message = {m1}
  MaxItems = 2
  Request <- CallRequests
  NoRequest = NoRequest
  MaxDownloaders = 2
  MaxBatch = 2
  SpeedLimits = {1}
  RefreshWindow = 1
  TokenLife = 2
  MaxReplyDelay = 0
  CanRefresh = {TRUE}
  GivenLife = {0}
SPECIFICATION GmailFairSpec
INVARIANTS
  GmailTypeOK
  GroupCountsPool
  ReturnsOnce
  NilErrorIsComplete
  SearchIsExact
PROPERTIES
  EveryCallReturns
  Spec
CHECK_DEADLOCK FALSE
