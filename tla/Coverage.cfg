CONSTANTS
  Targets = {t1}
  Holding <- MCHolding
  Failing <- MCFailing
  LIMIT = 2
SPECIFICATION Spec
INVARIANTS TypeOK CoveredCanBeKept NotCrowdedOut
