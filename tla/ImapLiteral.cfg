SPECIFICATION FairSpec
CONSTANTS
  inbox = inbox
  archive = archive
  Folder <- TwoFolders
  Inbox = inbox
  MaxCalls = 3
  MaxTimeouts = 0
  CanDrop = TRUE
  CanReportNews = TRUE
  CanCutLiteral = TRUE
PROPERTY EveryBehaviourReturns
CHECK_DEADLOCK FALSE
