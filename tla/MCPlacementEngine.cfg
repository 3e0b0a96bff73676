CONSTANTS
  MaxUInt = 7
  Problems <- MCProblems
  Priorities <- MCPriorities
SPECIFICATION Spec
INVARIANTS IInv BlockersDisjoint InfeasibleProvenSound FeasibleIsValid
PROPERTIES TightestChunk ImplementsGreedy Terminates
