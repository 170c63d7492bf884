SPECIFICATION Spec
CONSTANTS
  Byte <- AllBytes
  LineFeed = 10
  BufferSize = 6
  FoldWidth = 8
  WordBytes = 3
  WordOverhead = 2
  WordLimit = 7
  LineLimit = 2
  Base64Line = 2
  Bytes <- Utf8Length
  Character <- Characters
  RawCharacter <- RawCharacters
  ExtraMessages <- LongMessages
  HeaderNames <- ShortAndLong
  Replies <- SomeReplies
  MaxText = 4
  MaxSent = 3
  MaxCommands = 1
INVARIANT TypeOK
INVARIANT TakenIsWritten
INVARIANT OkMeansSent
INVARIANT NeverEndsEarly
INVARIANT SameLinesArrive
INVARIANT LinesFit
INVARIANT RepliesInOrder
PROPERTY UsesTheStream
CHECK_DEADLOCK FALSE
