CONSTANTS
  Relation <- MCRelation
  Schema <- MCSchema
  Keys <- MCKeys
  Null = Null
  Failure = Failure
  Unbound = Unbound
  Budget = 3
  ColumnNames <- MCNames
  Statements <- MCStatements
  Instances <- MCInstances
  Domain <- MCDomain
SPECIFICATION Spec
CHECK_DEADLOCK FALSE
INVARIANTS CompilesTheQuery FormsAreSound MeansTheQuery SymbolicAgrees ConditionsReplay BoundsHold NullabilityHolds
