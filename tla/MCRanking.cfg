SPECIFICATION Spec
CONSTANTS
  Synsets <- MCSynsets
  Contexts <- MCContexts
  Ties = FALSE
  Mono = TRUE
INVARIANTS
  OwnRanks
  AnswersHaveReason
  AllRanked
CHECK_DEADLOCK FALSE
