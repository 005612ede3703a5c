SPECIFICATION Spec
CONSTANTS
  None = None
  Names <- MCNames
  Texts <- MCTexts
  Options <- MCOptions
  OldGraphs <- MCOldGraphs
  Width = 2
  MaxLines = 3
INVARIANTS
  RelationsKept
  ConversionKeeps
  CutRefused
  DumpKeepsEdges
CHECK_DEADLOCK FALSE
