CONSTANTS
  Problems = {"groups", "average", "join", "parity"}
  Solver <- MCSolver
  Interrupted <- MCInterrupted
  MaxCopies = 3
  MaxOpen = 4
  Capped <- MCCapped
  OUTPUT = 0
  Relations <- MCRelations
  Rows <- MCRows
  Home <- MCHome
  Databases <- MCDatabases
  Empty <- MCEmpty
  Plus <- MCPlus
  Seeds <- MCSeeds
  Outcomes <- MCOutcomes
  Bindings <- MCBindings
  Storable <- MCStorable
  Keyed <- MCKeyed
  Owes <- MCOwes
  Involves <- MCInvolves
SPECIFICATION FairSpec
INVARIANTS GivenUpWithReason Exhausted AttemptOnVersion
PROPERTIES Ends GrowsByVersions Advances
