SPECIFICATION Spec

CONSTANTS
  s1 = s1
  p1 = p1
  Streams <- OneStream
  Plains <- NoPlain
  Models <- AllModels
  MaxText = 3
  MaxAhead = 2
  MaxCrashes = 1
  MaxFrames = 5

INVARIANT LegalUnlessRetold
INVARIANT DoneOnlyIfConcluded
INVARIANT EarlyErrorIsNotAStream

PROPERTY KeepsPromise

CHECK_DEADLOCK FALSE
