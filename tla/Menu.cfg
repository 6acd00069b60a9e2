SPECIFICATION MenuFairSpec
CONSTANTS
  ENTRIES = 4
  Cards = {"a", "b", "c"}
  Disk <- Disks
  Link <- Links
  Home <- Homes
  Keys <- Sticks
  FSEL_NLINES = 2
  INACTIVITY = 2
  UINT8 = 256
  Title <- Titles
  MaxKeys = 5
  MaxSwaps = 1
  MaxFaults = 1
INVARIANTS PageShown HighlightIsSelection ChosenIsOpened OpenedIsListed
PROPERTIES ListCloses
