CONSTANTS
  MaxAttempts = 2
  SubmitStates = {"submitted"}
  MaxEntries = 2
SPECIFICATION Spec
INVARIANT DrainCompletes
