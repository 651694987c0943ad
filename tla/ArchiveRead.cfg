CONSTANTS
  Tasks = {t1, t2}
  Buffers = {b1, b2}
  NoBuffer = NoBuffer
  NoBlock = NoBlock
  Nobody = Nobody
  Blocks <- BufferBlocks
  MaxReads = 2
  Names = {n1, n2, n3}
  Slots = 4
  MaxChanges = 4
  IntSpan = 4
  EntrySize = 2
  PositionSize = 1
SPECIFICATION Spec
SYMMETRY ReadSymmetry
INVARIANTS  OneOwner ResultsStable DecodesOwnBytes NothingLeaked
PROPERTY ImplementsOwnership
\* Tasks stop when they have made their reads, or when every array is held.
CHECK_DEADLOCK FALSE
