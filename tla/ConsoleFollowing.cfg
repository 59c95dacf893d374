SPECIFICATION Spec
CONSTANTS
  a = a
  r = r
  Backspace = Backspace
  CR = CR
  LF = LF
  Nul = Nul
  Letters <- MCLetters
  RepeatLine <- MCRepeat
  Chunks <- MCKeys
  Quiet = FALSE
  Size = 6
  MaxInputs = 4
  MaxNest = 2
  MaxConnects = 0
PROPERTY FollowingDataKept
