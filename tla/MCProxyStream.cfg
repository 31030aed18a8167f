SPECIFICATION FairSpec
INVARIANTS
  TypeOK
  HeldOnlyIfNeverIterated
  StreamedOnlyOnSuccess
PROPERTY ExchangeEnds
CONSTANTS
  Requests = {r1, r2}
  OkStatuses <- MCOkStatuses
  ErrStatuses <- MCErrStatuses
  MaxChunks = 2
CHECK_DEADLOCK FALSE
