SPECIFICATION FairSpec
CONSTANTS
  Threshold = 3
  MaxRetries = 3
  MaxHuman = 2
INVARIANTS TypeOK HumanAfterThreshold 
PROPERTIES LifeSpec ExecutionEnds
CHECK_DEADLOCK FALSE
