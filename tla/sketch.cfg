CONSTANTS
  N = 3
  Worker = {w1, w2}
  NumSamples = 2
  ColsPerSample = 1
  NumBits = 3
  Hashes <- SomeHashes
  Builds = {TRUE, FALSE}
  Free = Free
  MaxUpdates = 3
SPECIFICATION Spec
INVARIANTS
  TypeOK
  SketchesAreSums
  SampleRight
SYMMETRY Symmetry
