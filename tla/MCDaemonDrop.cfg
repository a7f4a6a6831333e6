\* The audio of a client whose connection is reset.
CONSTANTS
  Clients = {c1}
  NoClient = NoClient
  NoSession = NoSession
  MaxSessions = 1
  MaxLines = 1
  Lines = {"start", "stop"}
  MaxUnread = 1
  MaxTexts = 0
  RespCap = 1
SPECIFICATION Spec
CHECK_DEADLOCK FALSE
INVARIANT AudioStopsWithClient
