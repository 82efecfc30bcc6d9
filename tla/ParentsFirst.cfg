CONSTANTS
  Null = Null
  MaxRows = 3
  Rows <- MCRows
  Tables <- MCTables
  Links <- MCLinks
  TargetOf <- MCTargetOf
  Ref <- MCRef
  Key <- MCKey
SPECIFICATION FairSpec
INVARIANTS RowsKept
PROPERTIES OrdersReferencesFirst EndsRight
