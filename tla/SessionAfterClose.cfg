CONSTANTS
  Callers = {a, b}
  Serve = Serve
  None = None
  Ops = {"send", "close"}
  MaxOps = 1
  Inputs = {"msg", "end"}
  MaxIn = 1
  Handler = {"read"}
  MaxWrites = 1
  BufCap = 2
  WritesFail = FALSE
  BadPayload = FALSE
SPECIFICATION Spec
CHECK_DEADLOCK FALSE
INVARIANT NothingAfterClose
