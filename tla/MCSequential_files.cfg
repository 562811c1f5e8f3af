\* One thread, no other client, no faults: files are created, written, copied, moved, deleted.
CONSTANTS
  Root = Root
  d1 = d1
  f1 = f1
  f2 = f2
  f3 = f3
  a = a
  b = b
  c = c
  Uids <- FileUids
  Names = {a, b}
  Paths <- FilePaths
  InitTree <- FileTree
  Requests <- FileRequests
  Workers = {w1}
  UniqueNames = TRUE
  RpcFaults = FALSE
  MaxForeign = 0
SPECIFICATION SequentialSpec
INVARIANTS
  JobTypeOK
  OutcomeIsAllowed
