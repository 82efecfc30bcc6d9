CONSTANT N = 3
SPECIFICATION Spec
INVARIANTS TypeOK OnlyOverrunsDisturb
PROPERTY EveryStatementEnds
