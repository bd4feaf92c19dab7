CONSTANTS
  t1 = t1
  t2 = t2
  Threads <- MCThreads
  Calls <- MCCalls
  Keys = {"k1"}
  NoKey = "none"
  Bodies = {"b1", "b2"}
  MaxSends = 4
SPECIFICATION Spec
SYMMETRY MCSymmetry
INVARIANT TypeOK
INVARIANT KeyWritesOnce
INVARIANT SameAnswer
INVARIANT IdentifiersOnce
INVARIANT AnswersAreTrue
INVARIANT PatchesBuildOnRead
\* The bound on requests stops the instance; clients do not stop.
CHECK_DEADLOCK FALSE
