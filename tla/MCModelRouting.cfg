SPECIFICATION FairSpec

CONSTANTS
  m1 = m1
  m2 = m2
  a = a
  p = p
  None = None
  Names = {m1, m2, a}
  Paths = {p}
  Catalogs <- AllCatalogs
  Requests = {r1}

INVARIANT TypeOK

PROPERTY RightModel
PROPERTY MissingIsMissing
PROPERTY LaunchedIsConnected
PROPERTY PollingEnds

CHECK_DEADLOCK FALSE
