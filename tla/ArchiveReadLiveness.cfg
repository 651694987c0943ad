CONSTANTS
  Tasks = {t1, t2}
  Buffers = {b1, b2}
  NoBuffer = NoBuffer
  NoBlock = NoBlock
  Nobody = Nobody
  Blocks <- EndingBlocks
  MaxReads = 1
  Names = {n1, n2, n3}
  Slots = 4
  MaxChanges = 4
  IntSpan = 4
  EntrySize = 2
  PositionSize = 1
SPECIFICATION FairSpec
PROPERTY ReadsEnd
\* Tasks stop when they have made their reads.
CHECK_DEADLOCK FALSE
