SPECIFICATION FairSpec
CONSTANTS
  BuffSize = 4
  FifoSize = 2
  LogSize = 5
  Lengths = {3, 4}
  NoteLen = 1
  TitleLen = 1
  MaxCalls = 3
  MaxNest = 3
INVARIANTS
  LastTextIsKept
  OpenIsReplayed
PROPERTIES
  OutputEnds
