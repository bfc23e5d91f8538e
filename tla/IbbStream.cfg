CONSTANTS
  Writers = {"opener"}
  Readers = {"acceptor"}
  Streams <- AllStreams
  SeqCount = 65536
  FirstSeq = 65535
  MaxBufSize = 3
  Limits = {1}
  Timeouts = TRUE
SPECIFICATION Spec
CHECK_DEADLOCK FALSE
INVARIANTS InOrder SeqAgrees EofIsComplete PanicOnlyIfBothClose
