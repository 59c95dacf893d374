SPECIFICATION FairSpec
CONSTANTS
  ClockMod = 14
  Interval <- MCInterval
  HeadStart = 3
  WatchdogMs = 2
  BootMs = 1
  MaxOwed = 4
  MaxFed = 1
INVARIANTS
  NotEarly
  OnTime
PROPERTIES
  CatchesUp
