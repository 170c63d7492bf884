CONSTANTS
  Call = {c1, c2}
  Message = {m1, m2}
  MaxItems = 2
  Request <- CallRequests
  NoRequest = NoRequest
  MaxDownloaders = 2
  MaxBatch = 2
  SpeedLimits = {0}
  RefreshWindow = 1
  TokenLife = 2
  MaxReplyDelay = 0
  CanRefresh = {FALSE}
  GivenLife = {0}
SPECIFICATION GmailSpec
INVARIANT EmptyMeansEmpty
CHECK_DEADLOCK FALSE
