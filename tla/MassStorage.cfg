SPECIFICATION Spec
CONSTANTS
  MaxNest = 2
  MaxFaults = 2
INVARIANTS
  Exclusive
  HostUpToDate
  FirmwareUpToDate
  FilesReachable
  HandedBack
