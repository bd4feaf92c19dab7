CONSTANTS
  d1 = d1
  d2 = d2
  Dpps <- MCDpps
  NoDpp = NoDpp
  MaxLag = 1
  MaxVersion = 2
  MaxTime = 3
SYMMETRY MCSymmetry
SPECIFICATION Spec
INVARIANT TypeOK
INVARIANT CaughtUpIsCurrent
INVARIANT ReadsSeeFinishedWrites
PROPERTY ProjectionsAdvance
PROPERTY StaleOnlyWithinLimit
