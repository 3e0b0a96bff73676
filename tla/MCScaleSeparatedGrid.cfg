CONSTANTS
  MaxUInt = 11
  Problems <- MCProblems
  Options <- MCOptions
SPECIFICATION Spec
INVARIANTS IInv BoundsHold
