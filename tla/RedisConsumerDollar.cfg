SPECIFICATION Spec
CONSTANTS
  MaxEntries = 4
INVARIANTS SeesEverythingSince
CHECK_DEADLOCK FALSE
