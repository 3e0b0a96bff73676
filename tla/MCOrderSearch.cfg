CONSTANTS
  MaxUInt = 15
  Problems <- MCProblems
  Options <- MCOptions
SPECIFICATION Spec
INVARIANTS IInv
PROPERTIES BestIsKept Terminates
