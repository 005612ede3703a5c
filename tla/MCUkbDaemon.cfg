SPECIFICATION FairSpec
CONSTANTS
  c1 = c1
  c2 = c2
  Clients = {c1, c2}
  Inputs <- MCInputs
  Nobody = Nobody
INVARIANTS
  TypeOK
  AnswersAligned
  CompleteOrBroken
  DiesKilledOrOverrun
PROPERTIES
  StopHonoured
  ClientsReturn
CHECK_DEADLOCK FALSE
