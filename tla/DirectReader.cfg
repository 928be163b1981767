SPECIFICATION FairSpec
CONSTANTS
  Block = 3
  MaxSize = 8
  MaxOffset = 8
  Grows = TRUE
  Shrinks = TRUE
INVARIANTS
  TypeOK
PROPERTIES
  TransfersExact
  EmptyOnlyAtEnd
  NeverMisaligned
  CallsReturn
