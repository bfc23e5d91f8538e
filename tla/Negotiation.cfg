CONSTANTS
  Configs <- AllConfigs
  MaxReads = 10
SPECIFICATION FairSpec
CHECK_DEADLOCK FALSE
INVARIANTS TypeOK BitsAgree RestartDone NoStandstill SecureIsTLS ServerAuthenticates TlsTried
PROPERTIES Established 
