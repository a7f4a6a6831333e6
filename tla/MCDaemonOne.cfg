\* One connection: three lines of any kind, two sessions, one text, and an
\* answer channel and a socket that are full after one message.
CONSTANTS
  Clients = {c1}
  NoClient = NoClient
  NoSession = NoSession
  MaxSessions = 2
  MaxLines = 3
  Lines = {"start", "stop", "cancel", "other", "garbled"}
  MaxUnread = 1
  MaxTexts = 1
  RespCap = 1
SPECIFICATION FairSpec
CHECK_DEADLOCK FALSE
INVARIANTS
  OneHandleAtATime
  LastFrameIsLast
  ActiveHasMic
  IdleIsLast
PROPERTIES
  ImplementsLifecycle
  ReleasedSessionsEnd
  Settles
