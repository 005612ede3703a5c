SPECIFICATION FairSpec
CONSTANTS
  t1 = t1
  t2 = t2
  Threads = {t1, t2}
  Texts <- MCTexts
  MaxSent = 2
  PipeCap = 2
  NoFile = NoFile
  Bad = Bad
  Header = Header
INVARIANTS
  AloneIsFaithful
  AnnotationsOfMet
PROPERTIES AnsweredUnlessPipeFull
CHECK_DEADLOCK FALSE
