SPECIFICATION Spec
CONSTANTS
  Callers = {c1}
  Transports = 2
  Timeout = 2
  None = None
INVARIANTS TypeOK DecoderAlive ClosedForGood
PROPERTIES NeverHasty CloseReturns Recovers
