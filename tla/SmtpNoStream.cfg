SPECIFICATION Spec
CONSTANTS
  Send = {s1, s2}
  MaxRecipients = 1
  MaxConnects = 2
  MaxTimeouts = 0
  CanDrop = FALSE
  Refuses <- AllRefusals
  Capabilities <- UsualCapabilities
  NestedMailRefused = TRUE
  CallersAsk = "info"
INVARIANT NeverCrashes
