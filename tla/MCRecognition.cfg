\* Two utterances and three responses before the final one; a mode that
\* commits whole texts and one that commits what is new.
CONSTANTS
  Unset = Unset
  Modes = {Unset, "nostream"}
  MaxUtterances = 2
  MaxResponses = 3
SPECIFICATION Spec
CHECK_DEADLOCK FALSE
INVARIANTS
  TypeOK
  CommittedOnceInOrder
  TextSpelledOut
  NothingLostAtEnd
  NoCommittedPreedit
PROPERTY EndsAfterStop
