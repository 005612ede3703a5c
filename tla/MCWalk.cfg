SPECIFICATION Spec
CONSTANTS
  Names <- MCNames
  Pos <- MCPos
  PosOrder <- MCPosOrder
  Setups <- MCSetups
  Loaders <- MCLoaders
  Noise <- MCNoise
  Garbage = Garbage
  Rows <- MCRows
  RankVectors <- MCRankVectors
  RankOne = 6
  WalkOptions <- MCWalkOptions
  LangOf <- MCLangOf
  None = None
  MaxSteps = 2
INVARIANTS
  DictIsFiles
  ImageKeeps
  SamplerDivides
  DrawsByWeight
PROPERTIES
  DeepWalkEnds
CHECK_DEADLOCK FALSE
