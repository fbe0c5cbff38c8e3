SPECIFICATION Spec
CONSTANTS
  Frames = {f1, f2, f3}
  NoFrame = NoFrame
  Receiver = recv
  Callers = {c1, c2}
  Formats = {sd, hd}
  NoFormat = NoFormat
  MaxNumFrames = 1
  MaxGeneration = 2
INVARIANTS TypeOK NoPanic NoUseAfterFree WriterIsAlone PutNeverRefused PoolConsistent RefsAreExact
PROPERTIES OwnsFrames
SYMMETRY Symmetry
