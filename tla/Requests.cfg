CONSTANTS
  Calls <- Functions
  MayFail <- Safe
  Bodies <- AllBodies
  Requested <- AllRequests
  MaxCalls = 2
  MaxPages = 2
SPECIFICATION FairSpec
CHECK_DEADLOCK FALSE
INVARIANTS ErrorReported AllItems ClosedOnce
PROPERTIES Implements Served
