SPECIFICATION PortsSpec
CONSTANTS
  SECTOR_SIZE = 2
  READADDR_LEN = 1
  READ_TIME = 0
  WATCHDOG_TIME = 1
  MaxByte = 1
  HostBytes = {0}
  HostSides = {0}
  HostDrives = {0}
  HostCommands <- MCCommands
  Routines <- MCRoutines
  MaxRoutines = 2
  MaxResets = 1
  UINT8 = 4
INVARIANTS TypeOK TransferCounted RequestMatchesState BusyHeld AccessMeetsTick LatchReads OutOnTime
PROPERTIES FourPhase
