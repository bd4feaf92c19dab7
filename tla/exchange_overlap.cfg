CONSTANTS
  t1 = t1
  t2 = t2
  Threads <- MCThreads
  Calls <- MCOneCall
  Keys = {"k1"}
  NoKey = "none"
  Bodies = {"b1", "b2"}
  MaxSends = 2
SPECIFICATION Spec
SYMMETRY MCSymmetry
INVARIANT RetriesNeverDuplicate
\* The bound on requests stops the instance; clients do not stop.
CHECK_DEADLOCK FALSE
