SPECIFICATION FairSpec
CONSTANTS
  SECTOR_SIZE = 2
  READADDR_LEN = 1
  READ_TIME = 1
  WATCHDOG_TIME = 2
  MaxByte = 255
  FDD_NSIDES = 2
  FDD_NSECTORS = 2
  NBLOCKS = 4
  CPU_GAP = 3
  Images = {f1}
  HostCommands <- Transfers
  HostBytes = {0}
  HostSectors = {1}
  HostTracks = {0}
  HostSides = {0}
  HostDrives = {0}
  Patience = {"poll", "none"}
  AbortOf <- NoCommands
  Original <- PlaceBytes
  Written <- CommandBytes
  MaxCommands = 2
  Faults = {"F11"}
  MaxFaults = 1
INVARIANTS NeverDead NoStaleAnswer
PROPERTIES ReadAddressStable FailureReported
