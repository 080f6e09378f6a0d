SPECIFICATION FairSpec
CONSTANTS
  w = w
  h = h
  root = root
  kid = kid
  None = None
  Workers = {w}
  Handlers = {h}
  Nodes = {root, kid}
  Root = root
  Targets = {"running", "error"}
  RunTargets = {"failed"}
  MaxCalls = 3
INVARIANTS TypeOK EventNumbers AckedEventIsDurable OnlyRollbackLoses
PROPERTIES LegalMoves EveryCallReturns
CHECK_DEADLOCK FALSE
