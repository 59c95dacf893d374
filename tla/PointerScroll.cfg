SPECIFICATION Spec
CONSTANTS
  Int16 = 16
  Int8 = 8
  Motions <- MCMotions
  MaxIrqs = 3
  ScrollReduce = 2
  MinSuppress = 2
  ClickTime = 2
  Ids = {1, 2}
  Invert <- MCInvert
  MaxEvents = 4
  MaxResets = 1
INVARIANTS
  TypeOK
  ClickCounted
  Accounted
  Conserved
  NoTearing
PROPERTIES
  ClickUnlessScrolled
  ClickLongEnough
  ButtonsReachHost
  MotionIsTaken
