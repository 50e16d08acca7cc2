\* Two observers race over rows that are joined late, edited and deleted.
SPECIFICATION DiscoverySpec
CONSTANTS
  RowCount = 2
  Observer = {o1, o2}
  Limit = 1
  MaxVersion = 1
  MaxDeleted = 1
  MaxIssues = 1
  MaxAttempts = 1
  InitialDelay = 1
  Multiplier = 1
  MaxDelay = 1
  RetryDelay <- MCRetryDelay
  LeaseDuration = 1
  TotalAttempts = 1
INVARIANTS CursorNeverAhead
PROPERTIES DiscoveryIsMonotone
SYMMETRY ObserverSymmetry
CHECK_DEADLOCK FALSE
