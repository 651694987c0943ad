SPECIFICATION Spec
CONSTANTS
  IndexSpan = 4
  RecycleSpan = 4
  Tags <- ThreeTags
  NoTag = NoTag
  MaxEvents = 3
INVARIANTS LivesLinked KillersLinked
PROPERTY RoundTripExact
