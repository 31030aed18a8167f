SPECIFICATION FairSpec

CONSTANTS
  Pids = {p1, p2, p3}
  MaxScripts = 4
  ForeignRay = TRUE

INVARIANT TypeOK
INVARIANT Tracked
INVARIANT StopLeavesNothing
PROPERTY OwnDeploymentReported
PROPERTY ScriptEnds

CHECK_DEADLOCK FALSE
