SPECIFICATION FairSpec

CONSTANTS
  s1 = s1
  p1 = p1
  Streams <- OneStream
  Plains <- OnePlain
  Models <- AllModels
  MaxText = 1
  MaxAhead = 1
  MaxCrashes = 1
  MaxFrames = 2

INVARIANT TypeOK
INVARIANT NativeNeverLocal
PROPERTY AdapterLostOnlyByFailure
PROPERTY EveryCallEnds

CHECK_DEADLOCK FALSE
