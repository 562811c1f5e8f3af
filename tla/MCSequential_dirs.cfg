\* One thread, no other client, no faults: a directory is moved.
CONSTANTS
  Root = Root
  d1 = d1
  f1 = f1
  f2 = f2
  f3 = f3
  a = a
  b = b
  c = c
  Uids <- DirUids
  Names = {a, b, c}
  Paths <- DirPaths
  InitTree <- DirTree
  Requests <- DirRequests
  Workers = {w1}
  UniqueNames = TRUE
  RpcFaults = FALSE
  MaxForeign = 0
SPECIFICATION SequentialSpec
INVARIANTS
  RestingCacheIsRight
