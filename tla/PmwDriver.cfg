SPECIFICATION FairSpec
CONSTANTS
  MaxCommands = 3
  MaxNest = 2
  MaxUpsets = 1
INVARIANTS
  BusUnshared
  AxesAgree
  InitConfigures
  FrameCaptureEnds
  IrqOnAtRest
  AxesRepaired
PROPERTIES
  IrqComesBack
