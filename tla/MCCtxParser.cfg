SPECIFICATION Spec
CONSTANTS
  bank = bank
  foo = foo
  bar = bar
  c1 = c1
  c2 = c2
  cx = cx
  Lemmas <- MCLemmas
  Concepts <- MCConcepts
  Kb <- MCKb
  Dict <- MCDict
  Weights = {0, 1}
  MaxTokens = 4
INVARIANTS
  TokensAgree
  Divisible
  OwnWeight
CHECK_DEADLOCK FALSE
