SPECIFICATION Spec
CONSTANTS
  Subs = {s1}
  BufferSize = 1
  MaxPTS = 1
  None = None
INVARIANTS OnlyBFramesDisable
CHECK_DEADLOCK FALSE
