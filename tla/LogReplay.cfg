SPECIFICATION Spec
CONSTANTS
  LogSize = 3
  c1 = c1
  c2 = c2
  Char = {c1, c2}
  Nul = Nul
  Msgs <- MCMsgs
  ErrMsg <- MCErr
PROPERTY LogIsReplayed
