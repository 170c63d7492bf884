SPECIFICATION Spec
CONSTANTS
  Send = {s1, s2}
  MaxRecipients = 1
  MaxConnects = 1
  MaxTimeouts = 0
  CanDrop = FALSE
  Refuses <- AllRefusals
  Capabilities <- UsualCapabilities
  NestedMailRefused = TRUE
  CallersAsk = "result"
PROPERTY ErrorMeansNotDelivered
