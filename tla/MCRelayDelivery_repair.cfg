\* Two events on two pages, one of which ages; one sender, a kiosk that is lost once, fair reconciliation.
SPECIFICATION FairRelaySpec
CONSTANTS
  RowCount = 2
  Observer = {o1}
  Limit = 1
  MaxVersion = 0
  MaxDeleted = 0
  MaxIssues = 1
  MaxAttempts = 1
  Delay = 1
  RetryDelay <- MCRetryDelay
  LeaseDuration = 1
  TotalAttempts = 1
  Sender = {s1}
  PageSize = 1
  Month = {}
  Edited = {}
  Old = {1}
  MaxRequests = 1
  MaxLosses = 1
PROPERTIES HeldIsAcknowledged
CHECK_DEADLOCK FALSE
