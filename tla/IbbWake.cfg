CONSTANTS
  Writers = {"opener"}
  Readers = {"acceptor"}
  Streams <- UnclosedStreams
  SeqCount = 65536
  FirstSeq = 0
  MaxBufSize = 4
  Limits = {}
  Timeouts = FALSE
SPECIFICATION FairSpec
CHECK_DEADLOCK FALSE
PROPERTY ReadResumes
