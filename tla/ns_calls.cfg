SPECIFICATION FairSpec
CONSTANTS
  Scores = {1, 2}
  Candidates = {1, 2, 3}
  MaxSchemaRetries = 1
  Chains <- TwoChains
  MaxSteps = 2
  Plans <- SmallPlans
  MaxChildren = {2, 3}
  Backends = {"local", "docker"}
  MaxValidationRetries = 1
  MaxCases = 2
  MaxRounds = 1
INVARIANTS TypeOK BestIsTaken StepsArePaired PlanIsFollowed FailIsEarned
PROPERTY ServicesEnd
CHECK_DEADLOCK FALSE
