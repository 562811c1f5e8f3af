\* Two threads create, write, list and delete; RPCs fail and answers are lost.
CONSTANTS
  Root = Root
  d1 = d1
  f1 = f1
  f2 = f2
  f3 = f3
  a = a
  b = b
  c = c
  Uids <- StillUids
  Names = {a, b}
  Paths <- StillPaths
  InitTree <- StillTree
  Requests <- StillRequests
  Workers = {w1, w2}
  UniqueNames = TRUE
  RpcFaults = TRUE
  MaxForeign = 0
SPECIFICATION Spec
INVARIANTS
  CacheIsExact
  SavedIsThere
  DeletedIsGone
PROPERTIES
  RemovesOnlyItsSubject
