SPECIFICATION MessagingSpec
CONSTANTS
  Publishers = {p1, p2}
  MaxFailures = 2
  BaseBackoff = 5
  MaxBackoff = 12
  MaxEntries = 3
INVARIANTS TypeOK ContextMatchesFlag NoGaps
PROPERTY Recovers
CHECK_DEADLOCK FALSE
