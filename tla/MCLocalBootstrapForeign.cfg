SPECIFICATION FairSpec

CONSTANTS
  Pids = {p1, p2, p3}
  MaxScripts = 2
  ForeignRay = TRUE

PROPERTY ForeignRayLeftAlone

CHECK_DEADLOCK FALSE
