SPECIFICATION FatFairSpec
CONSTANTS
  SS = 4
  BLOCK = 8
  Files = {0, 1}
  Cards = {"a", "b"}
  Volume <- Volumes
  Contents <- Image
  Chain <- Chains
  Size <- Sizes
  ID_MOD = 2
  Positions = {0, 1, 2, 4}
  MaxRequests = 2
  MaxFaults = 1
  MaxSwaps = 1
INVARIANTS WindowCoherent PositionMatches OkIsDone
PROPERTIES WritesInPlace Recovers
