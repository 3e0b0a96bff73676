CONSTANTS
  MaxUInt = 7
  Problems <- MCProblems
  NodeLimits = {0, 2, 5}
  SeedsOf <- MCSeedsOf
SPECIFICATION Spec
INVARIANTS IInv PoolOptimum TimeoutKeepsSeed
PROPERTIES AnswersExactly Terminates
