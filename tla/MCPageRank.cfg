SPECIFICATION PrSpec
CONSTANTS
  Vertices <- MCVertices
  Graphs <- MCGraphs
  Ppvs <- MCPpvs
  PpvUnit = 6
  Unit <- MCUnit
  Denominator = 12
  DampNum = 1
  DampDen = 2
  IterOptions = {0, 1, 2, 4}
  ThrOptions <- MCThrs
  Defaults <- MCDefaults
  MaxInt = 6
  Calls = 2
INVARIANTS
  IsPowerMethod
  MassKept
  StopPolicy
PROPERTIES
  Contracts
CHECK_DEADLOCK FALSE
