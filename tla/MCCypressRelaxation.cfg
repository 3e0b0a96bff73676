CONSTANTS
  MaxUInt = 63
  Problems <- MCProblems
SPECIFICATION Spec
INVARIANTS IInv AnswersExactly AliasesAreCounted
PROPERTIES EndsWithPlacement
