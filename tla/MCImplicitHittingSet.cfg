CONSTANTS
  Edges <- MCEdges
  Cost <- MCCost
  Problems <- MCProblems
  MaxIterations = 3
SPECIFICATION Spec
INVARIANTS IInv EveryIterationLearns QuestionsAreFresh CoresAreMinimal TimeoutKeepsBest
PROPERTIES AnswersExactly Terminates
