SPECIFICATION Spec
CONSTANTS
  LogSize = 3
  c1 = c1
  c2 = c2
  Char = {c1, c2}
  Nul = Nul
  Msgs <- MCMsgs
  ErrMsg <- MCErr
INVARIANTS
  TypeOK
  TwoShapes
  ReplayFaithful
PROPERTIES
  SavedLogExact
  KeepsNewest
