SPECIFICATION CardFairSpec
CONSTANTS
  Cards = {"m", "s", "t", "h"}
  Kind <- Kinds
  Contents <- Data
  BLOCK = 2
  Sectors = {1}
  Counts = {1, 2}
  Payloads <- Writes
  TOKEN_TICKS = 2
  READY_TICKS = 2
  INIT_TICKS = 2
  TRIES = 2
  CRC = 100
  MaxCalls = 3
  FRAME = 1
  MaxMishaps = 1
INVARIANTS OwnAnswer TypeMatchesCard
PROPERTIES StoreSpec CallReturns
CHECK_DEADLOCK FALSE
