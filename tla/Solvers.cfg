CONSTANTS
  Var = {1, 2, 3, 4}
  Problems <- MCProblems
  Interval = 1
  MaxCalls = 2
  XorVar = {1, 2, 3}
  Formulas <- MCFormulas
  Systems <- MCSystems
  Instances <- MCInstances
  PmlProblems <- MCPmlProblems
  MaxRefines = 2
SPECIFICATION FairSpec
CHECK_DEADLOCK FALSE
INVARIANTS AnswersRight LearnedImplied LemmasFollow RecordChecks EliminationSound
PROPERTIES RefineAnswers SolveReturns
