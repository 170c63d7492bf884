SPECIFICATION Spec
CONSTANTS
  inbox = inbox
  archive = archive
  Folder <- TwoFolders
  Inbox = inbox
  MaxCalls = 5
  MaxTimeouts = 1
  CanDrop = FALSE
  CanReportNews = TRUE
  CanCutLiteral = FALSE
INVARIANT DataFromFolder
CHECK_DEADLOCK FALSE
