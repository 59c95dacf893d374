SPECIFICATION Spec
CONSTANTS
  BuffSize = 4
  FifoSize = 2
  LogSize = 5
  Lengths = {2, 3}
  NoteLen = 1
  TitleLen = 1
  MaxCalls = 3
  MaxNest = 2
INVARIANTS
  PrintIsNotStored
