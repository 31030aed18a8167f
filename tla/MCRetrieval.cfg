SPECIFICATION RSpec

CONSTANTS
  Specs <- AnySpec
  MaxReplicas = 2
  Calls = {c1}
  MaxTexts = 3
  MaxScore = 2

INVARIANT RTypeOK
INVARIANT UpIsWhole
INVARIANT UpIsStarted
INVARIANT AdapterHasEngine
INVARIANT ShortcomingsExplained
INVARIANT RankedByScore
INVARIANT MisconfiguredOnlyIfForeign

CHECK_DEADLOCK FALSE
