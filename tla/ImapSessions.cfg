SPECIFICATION FairSpec
CONSTANTS
  inbox = inbox
  archive = archive
  Folder <- TwoFolders
  Inbox = inbox
  MaxCalls = 4
  MaxTimeouts = 2
  CanDrop = TRUE
  CanReportNews = TRUE
  CanCutLiteral = FALSE
INVARIANT TypeOK
INVARIANT NilIsThisCommand
INVARIANT DataFromFolderInStep
INVARIANT AppendedMeansStored
INVARIANT LoggedInMeansAuthenticated
PROPERTY EveryBehaviourReturns
CHECK_DEADLOCK FALSE
