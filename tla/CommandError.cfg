CONSTANTS
  Calls <- OneCommand
  MayFail <- OneCommand
  Bodies <- FewBodies
  Requested <- PingRequest
  MaxCalls = 1
  MaxPages = 0
SPECIFICATION FairSpec
CHECK_DEADLOCK FALSE
PROPERTY Served
