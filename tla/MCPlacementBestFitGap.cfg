CONSTANTS
  MaxUInt = 7
  Problems <- MCProblems
  Priorities <- MCPriorities
SPECIFICATION Spec
INVARIANT FiniteChunkWins
