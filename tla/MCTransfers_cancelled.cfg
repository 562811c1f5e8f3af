\* The same; the core may cancel a download before its first chunk.
CONSTANTS
  Threads = {w1, w2}
  MaxChunks = 2
  MaxPuts = 2
SPECIFICATION Spec
SYMMETRY Symmetry
INVARIANTS
  FailureBeforeDataIsError
