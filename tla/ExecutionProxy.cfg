SPECIFICATION FairSpec
CONSTANTS
  Provider = {p1, p2, p3}
  principal = p1
  CHUNK_SIZE = 1
  MAX_RETRIES = 1
  MaxBlock = 3
  None = None
INVARIANTS TypeOK WindowCovered FailoverInOrder RequestsBounded
PROPERTIES QueryEnds
CHECK_DEADLOCK FALSE
