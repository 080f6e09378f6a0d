SPECIFICATION FairSpec
CONSTANTS
  r1 = r1
  c1 = c1
  Runs = {r1}
  Clients = {c1}
  Actions = {"retry"}
  OnlyIdle = TRUE
  MaxNodes = 5
  MaxKids = 2
  MaxDepth = 2
  MaxWorkers = 1
  MaxAsks = 3
  MaxJobs = 4
  MaxCrashes = 0
  MaxStops = 0
  Durable = TRUE
  BudgetFails = TRUE
INVARIANTS StackIsRunning BlockedRunIsActionable
PROPERTY ClaimIsReleased
CHECK_DEADLOCK FALSE
