SPECIFICATION Spec
CONSTANTS
  FoldWidth = 8
  WordBytes = 3
  WordOverhead = 2
  LineLimit = 3
  Base64Line = 2
  Bytes <- Utf8Length
  Character <- Typed
  Boundary <- Boundaries
  MaxText = 3
INVARIANT HeaderReadsAsComposed
INVARIANT PartsReadAsComposed
INVARIANT EnvelopeMatchesHeader
