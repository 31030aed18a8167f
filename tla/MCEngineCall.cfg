SPECIFICATION FairSpec

CONSTANT Topics <- AllTopics

INVARIANTS
  TypeOK
  PolicyHolds
  StatedValuesArrive

PROPERTY RequestEnds

CHECK_DEADLOCK FALSE
