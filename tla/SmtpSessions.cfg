SPECIFICATION FairSpec
CONSTANTS
  Send = {s1, s2}
  MaxRecipients = 2
  MaxConnects = 2
  MaxTimeouts = 4
  CanDrop = TRUE
  Refuses <- AllRefusals
  Capabilities <- UsualCapabilities
  NestedMailRefused = TRUE
  CallersAsk = "result"
INVARIANT TypeOK
INVARIANT NilMeansDelivered
INVARIANT ConnectedMeansAuthenticated
INVARIANT EnvelopesUnmixed
INVARIANT CredentialsUnderTLS
INVARIANT NeverCrashes
PROPERTY EsmtpErrorMeansNotDelivered
PROPERTY EveryBehaviourReturns
