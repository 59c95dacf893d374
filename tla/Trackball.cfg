SPECIFICATION TrackballSpec
CONSTANTS
  Int16 = 64
  Int8 = 16
  Motions <- MCOne
  MaxIrqs = 0
  ScrollReduce = 2
  MinSuppress = 1
  ClickTime = 1
  Ids = {}
  Invert = {}
  MaxEvents = 0
  MaxResets = 1
  N = 2
  ClockMod = 4
  Delay = 1
  MaxGap = 1
INVARIANTS
  SwitchesShown
PROPERTIES
  WireReachesHost
