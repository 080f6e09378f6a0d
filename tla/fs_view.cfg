SPECIFICATION Spec
CONSTANTS
  root = root
  kid = kid
  first = first
  second = second
  None = None
  Nodes = {root, kid, first, second}
  Root = root
  ParentOf <- Fork
  HeadStarts <- Started
  LeftOver = {2}
  MaxPrograms = 4
  MaxCalls = 1
INVARIANTS TypeOK ViewIsTree SettledViewIsTrue
CHECK_DEADLOCK FALSE
SYMMETRY Symmetry
