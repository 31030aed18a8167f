SPECIFICATION Spec

CONSTANT Topics <- LimitTopics

INVARIANT DefaultsNeverOverride

CHECK_DEADLOCK FALSE
