CONSTANTS
  Callers = {a, b}
  Serve = Serve
  None = None
  Ops = {"iq", "tokens", "close"}
  MaxOps = 1
  Inputs = {"resp", "get", "msg", "ws"}
  MaxIn = 2
  Handler = {"reply", "other"}
  MaxWrites = 2
  BufCap = 2
  WritesFail = FALSE
  BadPayload = FALSE
SPECIFICATION Spec
CHECK_DEADLOCK FALSE
SYMMETRY Symmetry
INVARIANTS TypeOK LockInv Answered OfferTaken NoStaleEntry SerialResponse
