SPECIFICATION Spec
CONSTANTS
  t1 = t1
  t2 = t2
  Threads = {t1, t2}
  Texts <- MCTexts
  MaxSent = 2
  PipeCap = 2
  NoFile = NoFile
  Bad = Bad
  Header = Header
INVARIANTS IdentifiersAreOwn
CHECK_DEADLOCK FALSE
