\* Two connections that share the microphone and the pool.
CONSTANTS
  Clients = {c1, c2}
  NoClient = NoClient
  NoSession = NoSession
  MaxSessions = 2
  MaxLines = 2
  Lines = {"start", "stop"}
  MaxUnread = 0
  MaxTexts = 0
  RespCap = 1
SYMMETRY Symmetry
SPECIFICATION Spec
CHECK_DEADLOCK FALSE
INVARIANTS
  MicFollowsSession
  NoStraySession
  DaemonInv
