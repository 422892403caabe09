SPECIFICATION FairSpec
CONSTANTS
  Ids = {1, 2, 4, 5, 7}
  PerPage = 2
  BufferSize = 2
  MaxDeletes = 1
INVARIANTS StreamComplete NoSilentTruncation
PROPERTIES StreamEnds
CHECK_DEADLOCK FALSE
