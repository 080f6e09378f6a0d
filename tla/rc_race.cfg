SPECIFICATION Spec
CONSTANTS
  r1 = r1
  c1 = c1
  c2 = c2
  Runs = {r1}
  Clients = {c1, c2}
  Actions = {"retry", "skip", "delete"}
  OnlyIdle = FALSE
  MaxNodes = 3
  MaxKids = 2
  MaxDepth = 1
  MaxWorkers = 1
  MaxAsks = 2
  MaxJobs = 3
  MaxCrashes = 1
  MaxStops = 1
  Durable = TRUE
  BudgetFails = TRUE
SYMMETRY ClientSymmetry
INVARIANTS TypeOK OneWorkerPerRun WorkerSeesRunning CompletedRunIsComplete
PROPERTIES LeaseSpec
CHECK_DEADLOCK FALSE
