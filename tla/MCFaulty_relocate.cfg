\* One thread; RPCs fail, answers are lost and another client changes the tree.
CONSTANTS
  Root = Root
  d1 = d1
  f1 = f1
  f2 = f2
  f3 = f3
  a = a
  b = b
  c = c
  Uids <- FaultUids
  Names = {a, b}
  Paths <- FaultPaths
  InitTree <- FaultTree
  Requests <- FaultRequests
  Workers = {w1}
  UniqueNames = TRUE
  RpcFaults = TRUE
  MaxForeign = 1
SPECIFICATION HandlerSpec
PROPERTIES
  OverwriteFalseIsGentle
  EveryRequestIsAnswered
