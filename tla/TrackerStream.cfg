CONSTANTS
  TypeInfos <- Table
  EventTypes <- Events
  Written <- NewerTable
  WrittenEvents <- NewerEvents
  SVarUint32TypeId = "delta"
  TrackerEventIdTypeId = "number"
  Opaque = Opaque
  Ints <- SmallInts
  TagBytes <- Forms
  MaxInt = 2147483647
  MaxEvents = 2
  MaxDepth = 4
SPECIFICATION Spec
 
PROPERTY ImplementsWire
\* A stream ends.
CHECK_DEADLOCK FALSE
