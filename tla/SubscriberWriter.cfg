SPECIFICATION FairSpec
CONSTANTS
  MaxBytes = 3
  MaxMessages = 2
  Coalesce = 2
  Window = 3
  Chunks <- MCChunks
  MaxOffered = 6
  MaxStatuses = 1
INVARIANTS
  TypeOK
  CountersExact
  UnackedBounded
  NothingLostSilently
PROPERTIES
  OutputDrains
  ImplementsStream
CHECK_DEADLOCK FALSE
