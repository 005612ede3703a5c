SPECIFICATION DgSpec
CONSTANTS
  Vertices <- MCVertices
  Graphs <- MCGraphs
  Contexts <- MCContexts
  Unknown = Unknown
  Asked <- MCAsked
  Limits = {0, 1, 2, 3, 4}
  Depths = {1, 2, 4}
  Unit = 12
INVARIANTS
  PathsAreShortest
  SubgraphIsNearest
  BfsJoinsSenses
  DfsJoinsSenses
PROPERTIES
  QueriesEnd
CHECK_DEADLOCK FALSE
