SPECIFICATION Spec
CONSTANTS
  Cams = {k1, k2}
  Muxes = {m1, m2}
  None = None
INVARIANTS TypeOK RequestIsWatched StartedTogether
PROPERTIES ReRegisters
