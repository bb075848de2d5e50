SPECIFICATION FairSpec
CONSTANTS
  EvidenceEnabled = TRUE
  BusMessages = {"eos", "error"}
INVARIANT TypeOK
INVARIANT NoUseAfterFree
INVARIANT CleanExit
PROPERTY QuietShutdown
PROPERTY ShutdownEnds
PROPERTY ErrorEndsProgram
CHECK_DEADLOCK FALSE
