CONSTANTS
  Relations <- MCRelations
  Rows <- MCRows
  Instances <- MCInstances
SPECIFICATION FairSpec
INVARIANTS TypeOK LoadInvariant AllOrNothing BackendAccepts
PROPERTIES EndsRight
