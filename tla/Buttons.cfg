SPECIFICATION Spec
CONSTANTS
  N = 2
  ClockMod = 9
  Delay = 2
  MaxGap = 2
INVARIANTS
  InTime
PROPERTIES
  Debounced
