SPECIFICATION KbFairSpec
CONSTANTS
  Keys <- FiveKeys
  Struck <- ThreeStruck
  Cuts = {9, 11}
  DELAY_BITS = 2
  MaxEvents = 4
  MaxLamps = 1
  MaxResets = 0
INVARIANTS MatrixMatches OsdKeysHeld
PROPERTIES Listens LampShowsOsd
