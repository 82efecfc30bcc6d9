CONSTANT Nodes = {a, b, c}
SPECIFICATION FairSpec
INVARIANT SearchInvariant
PROPERTIES OrdersReferencesFirst EndsRight
