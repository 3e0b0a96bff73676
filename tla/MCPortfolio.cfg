CONSTANTS
  MaxUInt = 63
  Problems <- MCProblems
  Options <- MCOptions
SPECIFICATION Spec
INVARIANTS IInv MatchingIsCheapest EliminationKeepsOptimum TimeoutKeepsBest
PROPERTIES AnswersExactly
