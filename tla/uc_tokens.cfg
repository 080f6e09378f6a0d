SPECIFICATION Spec
CONSTANTS
  w1 = w1
  w2 = w2
  r1 = r1
  r2 = r2
  None = None
  Workers = {w1, w2}
  Runs = {r1, r2}
  Budgeted = {r1}
  MaxTokens = 2
  MaxDepth = 2
  MaxCalls = 5
  MaxAgain = 1
INVARIANTS TokensConserved
PROPERTIES BudgetStops
CHECK_DEADLOCK FALSE
