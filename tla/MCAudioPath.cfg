\* Three sessions, chunks of three samples, a channel of one chunk, callbacks
\* of up to seven samples.
CONSTANTS
  MaxSessions = 3
  NoSession = NoSession
  ChunkSamples = 3
  ChanCap = 1
  MaxBurst = 7
  MaxCaptured = 12
SPECIFICATION Spec
CHECK_DEADLOCK FALSE
INVARIANTS
  TypeOK
  NoSplice
  InOrder
  StaleOnlyAtHead
PROPERTY TailLostShort
