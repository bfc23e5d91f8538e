CONSTANTS
  Patterns <- NoneOf
  Elements <- NoneOf
  MaxPatterns = 1
  Reads = {0}
  Dialers <- OneDialer
  Records <- NoneOf
  Links <- NoneOf
  Transcripts <- NoneOf
  Addresses <- NoneOf
  Parts <- NoneOf
  MaxPart = 2
  MaxChanges = 1
  Texts <- LongText
  Room = 128
  Headers <- NoneOf
  StanzaErrors <- NoneOf
  Before <- NoneOf
  Fields <- NoneOf
  Values <- NoneOf
  MaxFields = 1
  Documents <- NoneOf
  Pieces = {1, 2, 20}
SPECIFICATION Spec
CHECK_DEADLOCK FALSE
INVARIANT Unescaped
