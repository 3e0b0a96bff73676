CONSTANTS
  MaxUInt = 7
  Problems <- MCProblems
  NodeLimits = {0}
  SeedsOf <- MCSeedsOf
SPECIFICATION Spec
INVARIANTS LexicographicOptimum
