\* Two threads load and save one file of up to two chunks; uploads and downloads
\* fail, answers are lost, clients hang up.
CONSTANTS
  Threads = {w1, w2}
  MaxChunks = 2
  MaxPuts = 2
SPECIFICATION Spec
SYMMETRY Symmetry
INVARIANTS
  TypeOK
  AcknowledgedIsWhole
  ShortBodyWasCut
  BodyIsNoOlderThanEtag
  SavedEtagIsNoOlder
