SPECIFICATION Spec
CONSTANTS
  c1 = c1
  c2 = c2
  Clients = {c1, c2}
  Inputs <- MCParsed
  Nobody = Nobody
INVARIANTS StillAlive
CHECK_DEADLOCK FALSE
