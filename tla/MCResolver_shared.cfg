\* Two threads share the map, another client changes the tree twice, RPCs may fail.
CONSTANTS
  Root = Root
  d1 = d1
  f1 = f1
  f2 = f2
  a = a
  b = b
  Uids <- MCUids
  Names <- MCNames
  Paths <- MCPaths
  InitTree <- MCInitTree
  Workers = {w1, w2}
  UniqueNames = TRUE
  RpcFaults = TRUE
  MaxForeign = 2
SPECIFICATION Spec
SYMMETRY Symmetry
INVARIANTS
  TypeOK
  ResolvedWasNamed
  WalkWasThere
  NotFoundIsJustified
PROPERTIES
  ImplementsNameService
