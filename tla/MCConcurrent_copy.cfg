\* A renaming COPY on one thread, a PUT next to it on the other.
CONSTANTS
  Root = Root
  d1 = d1
  f1 = f1
  f2 = f2
  f3 = f3
  a = a
  b = b
  c = c
  Uids <- CopyUids
  Names = {a, b, c}
  Paths <- CopyPaths
  InitTree <- CopyTree
  Requests <- CopyRequests
  Workers = {w1, w2}
  UniqueNames = TRUE
  RpcFaults = FALSE
  MaxForeign = 0
SPECIFICATION Spec
INVARIANTS
  CopyRenamesItsCopy
