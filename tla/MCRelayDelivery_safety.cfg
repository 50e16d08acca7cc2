\* Two senders over one store, requeued twice; a kiosk that is lost twice or holds another content, a reconciler.
SPECIFICATION RelaySpec
CONSTANTS
  RowCount = 1
  Observer = {o1}
  Limit = 1
  MaxVersion = 0
  MaxDeleted = 0
  MaxIssues = 1
  MaxAttempts = 1
  Delay = 1
  RetryDelay <- MCRetryDelay
  LeaseDuration = 1
  TotalAttempts = 3
  Sender = {s1, s2}
  PageSize = 1
  Month = {{1}}
  Edited = {1}
  Old = {1}
  MaxRequests = 3
  MaxLosses = 2
INVARIANTS RelayTypeOK
PROPERTIES KeepsPromise
SYMMETRY SenderSymmetry
CHECK_DEADLOCK FALSE
