CONSTANTS
  Routines = {"g", "h"}
  Scenarios <- AllScenarios
  Cancels = TRUE
SPECIFICATION FairSpec
CHECK_DEADLOCK FALSE
INVARIANTS PanicNeedsEnd ReceiptFound Agreed HistoryComplete
PROPERTIES HandlersReturn CancelReturns
