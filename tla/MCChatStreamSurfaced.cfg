SPECIFICATION Spec

CONSTANTS
  s1 = s1
  p1 = p1
  Streams <- OneStream
  Plains <- OnePlain
  Models <- OnlyNative
  MaxText = 2
  MaxAhead = 2
  MaxCrashes = 0
  MaxFrames = 0

INVARIANT NativeErrorSurfaced

CHECK_DEADLOCK FALSE
