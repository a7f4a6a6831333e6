\* A patient user: one key at a time, five keys, three sessions.
CONSTANTS
  Clients = {me}
  Me = me
  NoClient = NoClient
  NoSession = NoSession
  NoIC = NoIC
  MaxSessions = 3
  MaxLines = 5
  Lines = {"start", "stop"}
  MaxUnread = 1
  MaxTexts = 3
  RespCap = 1
  ICs = {x, y}
SPECIFICATION DictationSpec
CHECK_DEADLOCK FALSE
SYMMETRY Symmetry
INVARIANTS
  LabelsAgree
  TextFollowsFocus
