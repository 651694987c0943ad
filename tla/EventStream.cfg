CONSTANTS
  ByteBits = 2
  BigEndian = TRUE
  Word = 4
  NoCall = NoCall
  Streams <- SomeStreams
  TypeInfos <- Types
  LastType = 15
  EventTypes <- SomeEvents
  SVarUint32TypeId = 11
  ReplayUserIdTypeId = 12
  EventIdTypeId = 1
  MaxInt = 3
SPECIFICATION FairSpec
INVARIANT NumbersExact
PROPERTIES ImplementsBlizzard DecodeEnds
\* A stream ends.
CHECK_DEADLOCK FALSE
