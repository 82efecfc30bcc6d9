CONSTANTS
  Problems = {"keyed"}
  Solver <- MCSolver
  Interrupted <- MCInterrupted
  MaxCopies = 2
  MaxOpen = 3
  Capped <- MCCapped
  OUTPUT = 0
  Relations <- MCRelations
  Rows <- MCRows
  Home <- MCHome
  Databases <- MCDatabases
  Empty <- MCEmpty
  Plus <- MCPlus
  Seeds <- MCSeeds
  Outcomes <- MCOutcomes
  Bindings <- MCBindings
  Storable <- MCStorable
  Keyed <- MCKeyed
  Owes <- MCOwes
  Involves <- MCInvolves
SPECIFICATION Spec
PROPERTY DemandMet
