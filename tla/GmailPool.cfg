CONSTANTS
  r1 = r1
  r2 = r2
  r3 = r3
  NoRequest = NoRequest
  Request <- ThreeRequests
  MaxDownloaders = 2
  SpeedLimits = {1}
  MaxBatch = 2
  RefreshWindow = 2
  TokenLife = 3
  MaxReplyDelay = 1
SPECIFICATION FairSpec
INVARIANTS
  TypeOK
  DownloadersAccounted
  RequestsAccounted
PROPERTIES
  SpeedLimitKept
  NoRequestLost
  SkippedRefreshIsSafe
  EveryRequestAnswered
  ImplementsService
CHECK_DEADLOCK FALSE
