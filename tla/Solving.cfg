CONSTANTS
  Relation <- MCRelation
  Schema <- MCSchema
  Keys <- MCKeys
  Null = Null
  Failure = Failure
  Declared <- MCDeclared
  Limits <- MCLimits
  CaseSplits = 4
  Problems <- MCProblems
  Domain <- MCDomain
  Multiplicities <- MCCopies
  MaxBranches = 3
  Restarts = 2
  MaxExponent = 1
SPECIFICATION Spec
INVARIANTS IntegrityExact UnsatIsProved SolutionsHold
PROPERTIES SolvingEnds AnswersAsPromised
