CONSTANTS
  MaxUInt = 5
  Edges <- MCEdges
  Cost <- MCCost
  Weight <- MCWeight
  CoreFamilies <- MCCoreFamilies
  NodeLimits = {0, 4}
SPECIFICATION Spec
INVARIANTS IInv MinimumFound FirstOfEquals
