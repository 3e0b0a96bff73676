CONSTANTS
  MaxUInt = 15
  Cases <- MCCases
SPECIFICATION Spec
INVARIANTS IInv OutputIsBest AnswersHold
PROPERTIES Terminates
