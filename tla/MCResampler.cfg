\* 44.1 kHz to 16 kHz: steps of 441/160.
CONSTANTS
  InRate = 441
  OutRate = 160
  MaxFed = 60
SPECIFICATION Spec
CHECK_DEADLOCK FALSE
INVARIANTS
  NeverPanics
  PhaseLocked
  EmitsAllDue
