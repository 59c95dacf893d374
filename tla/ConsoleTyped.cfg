SPECIFICATION Spec
CONSTANTS
  a = a
  r = r
  Backspace = Backspace
  CR = CR
  LF = LF
  Nul = Nul
  Letters <- MCLetters
  RepeatLine <- MCRepeat
  Chunks <- MCKeys
  Quiet = TRUE
  Size = 4
  MaxInputs = 8
  MaxNest = 2
  MaxConnects = 1
INVARIANTS
  TypeOK
  RepeatsACommand
PROPERTIES
  EditorImplemented
  
