SPECIFICATION Spec
CONSTANTS
  Sizes = {sd, hd}
  BadSPS = BadSPS
  NoSPS = NoSPS
  NoSize = NoSize
  Closed = Closed
  Timestamps = {0, 1, 2, 4}
  MaxDTS = 3
INVARIANTS TypeOK SegmenterMatches NoCodecMismatch
PROPERTIES PacketsOrdered StartsAtRandomAccess
SYMMETRY Symmetry
