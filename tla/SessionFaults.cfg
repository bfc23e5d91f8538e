CONSTANTS
  Callers = {a, b}
  Serve = Serve
  None = None
  Ops = {"encode", "tokens", "close", "deadline", "read"}
  MaxOps = 1
  Inputs = {"get", "getbad", "error", "end", "fail"}
  MaxIn = 1
  Handler = {"read", "reply", "other", "err", "eof"}
  MaxWrites = 2
  BufCap = 1
  WritesFail = TRUE
  BadPayload = TRUE
SPECIFICATION Spec
CHECK_DEADLOCK FALSE
SYMMETRY Symmetry
INVARIANTS CloseTagOnce WholeElements NoRawAfterClose
