CONSTANTS
  OUTPUT = 0
  Empty = 0
  Failed = Failed
  None = None
  Databases <- MCDatabases
  Seeds <- MCSeeds
  Additions <- MCAdditions
  Plus <- MCPlus
  Covered <- MCCovered
  Lists <- MCLists
SPECIFICATION Spec
INVARIANT EqWithoutTimeout
