CONSTANTS
  Callers = {a, b}
  Serve = Serve
  None = None
  Ops = {"iq", "writerto", "close"}
  MaxOps = 1
  Inputs = {"resp", "end", "fail"}
  MaxIn = 2
  Handler = {"read"}
  MaxWrites = 2
  BufCap = 2
  WritesFail = FALSE
  BadPayload = FALSE
SPECIFICATION FairSpec
CHECK_DEADLOCK FALSE
PROPERTIES ServeEnds CallsReturn
