CONSTANTS
  MaxUInt = 15
  Problems <- MCTopProblems
SPECIFICATION Spec
PROPERTIES EndsWithPlacement
