SPECIFICATION FairSpec
CONSTANTS
  Requests = {r1, r2}
  MaxAttempts = 3
  Statuses <- MCStatuses
  RetryOnStatus <- MCRetryOnStatus
INVARIANTS
  TypeOK
  OutcomeIsLastResult
  RetryJustified
  OverlapOnlyAfterReadTimeout
PROPERTY EventuallyAnswered
CHECK_DEADLOCK FALSE
