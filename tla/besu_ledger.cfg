CONSTANTS
  MaxAttempts = 2
  MaxEntries = 2
SPECIFICATION FairSpec
INVARIANT ConfirmedIsMined
INVARIANT TransactionsBounded
PROPERTY TerminalUnlessReverted
