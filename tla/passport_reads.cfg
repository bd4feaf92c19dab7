CONSTANTS
  Dpps = {1, 2, 3}
  NoDpp = NoDpp
  Callers <- MCCallers
  PageLimit = 1
  MaxVersion = 2
  MaxTime = 2
SPECIFICATION Spec
INVARIANT CompleteUnlessCursorMoves
INVARIANT NoVersionTwice
INVARIANT NothingBeyondGrants
