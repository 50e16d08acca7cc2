\* Two events: every interleaving of claims, expiries, failures, late ACKs and requeues; attempts may hang for ever.
SPECIFICATION FairSpec
CONSTANTS
  RowCount = 2
  Observer = {o1}
  Limit = 2
  MaxVersion = 0
  MaxDeleted = 0
  MaxIssues = 1
  MaxAttempts = 2
  InitialDelay = 1
  Multiplier = 2
  MaxDelay = 2
  RetryDelay <- MCRetryDelay
  LeaseDuration = 1
  TotalAttempts = 4
INVARIANTS TypeOK OpenAttemptIsCurrent HistoryExplainsStatus RetryBudget
PROPERTIES HistoryIsKept EventuallySettled
CHECK_DEADLOCK FALSE
