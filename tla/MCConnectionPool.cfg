\* Two handlers compete for the spare, over four dials.
CONSTANTS
  Handlers = {h1, h2}
  MaxDials = 4
SPECIFICATION FairSpec
INVARIANTS
  NoLostWakeup
  PoolInv
PROPERTIES
  Replenished
  ImplementsSpareLifecycle
