SPECIFICATION Spec
CONSTANTS
  Subs = {s1, s2}
  BufferSize = 1
  MaxPTS = 1
  None = None
INVARIANTS TypeOK SilentWhenTerminated
PROPERTIES DisabledTerminates SubscribeReturns
CHECK_DEADLOCK FALSE
