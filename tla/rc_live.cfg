SPECIFICATION FairSpec
CONSTANTS
  r1 = r1
  r2 = r2
  c1 = c1
  Runs = {r1, r2}
  Clients = {c1}
  Actions = {"delete"}
  OnlyIdle = FALSE
  MaxNodes = 3
  MaxKids = 1
  MaxDepth = 2
  MaxWorkers = 1
  MaxAsks = 1
  MaxJobs = 2
  MaxCrashes = 0
  MaxStops = 1
  Durable = TRUE
  BudgetFails = FALSE
PROPERTIES EveryRunSettles ClaimIsReleased
CHECK_DEADLOCK FALSE
