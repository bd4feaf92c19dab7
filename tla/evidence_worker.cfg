CONSTANTS
  MaxAttempts = 3
  SubmitStates <- MCEither
  MaxEntries = 2
SPECIFICATION FairSpec
INVARIANT OneAnchor
INVARIANT ConfirmedIsAnchored
INVARIANT ReasonTellsOutcome
PROPERTY StatesAdvance
PROPERTY EventuallyTerminal
