CONSTANTS
  Patterns <- AllPatterns
  Elements <- AllElements
  MaxPatterns = 2
  Reads = {0, 3, 9}
  Dialers <- AllDialers
  Records <- AllRecords
  Links <- AllLinks
  Transcripts <- AllTranscripts
  Addresses <- AllAddresses
  Parts <- AllParts
  MaxPart = 2
  MaxChanges = 3
  Texts <- AllTexts
  Room = 9
  Headers <- AllHeaders
  StanzaErrors <- AllErrors
  Before <- AllBefore
  Fields <- AllFields
  Values <- AllValues
  MaxFields = 1
  Documents <- AllDocuments
  Pieces = {1, 2, 20}
SPECIFICATION Spec
CHECK_DEADLOCK FALSE
INVARIANTS Dispatched Dialed ComponentReady RoundTrip Styled
