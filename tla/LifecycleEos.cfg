SPECIFICATION Spec
CONSTANTS
  EvidenceEnabled = FALSE
  BusMessages = {"eos"}
INVARIANT NoAbort
CHECK_DEADLOCK FALSE
