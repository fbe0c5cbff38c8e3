SPECIFICATION ServiceSpec
CONSTANTS
  Requests = {r1, r2}
  MaxChunks = 2
INVARIANTS StoresAreReleased
PROPERTIES StreamsEnd
CHECK_DEADLOCK FALSE
