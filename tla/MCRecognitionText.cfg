\* The default mode and results without utterances.
CONSTANTS
  Unset = Unset
  Modes = {Unset}
  MaxUtterances = 1
  MaxResponses = 2
SPECIFICATION Spec
CHECK_DEADLOCK FALSE
INVARIANT TextOnce
