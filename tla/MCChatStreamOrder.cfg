SPECIFICATION Spec

CONSTANTS
  s1 = s1
  p1 = p1
  Streams <- OneStream
  Plains <- NoPlain
  Models <- OnlyBestEffortServing
  MaxText = 2
  MaxAhead = 2
  MaxCrashes = 0
  MaxFrames = 0

INVARIANT StreamOrderKept

CHECK_DEADLOCK FALSE
