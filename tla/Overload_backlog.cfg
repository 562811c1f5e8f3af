\* Three threads, of which up to two get stuck; shedding above three queued
\* connections, refusing above six.  When the last connection the bounds allow
\* has been served, all threads are back in the pool and nothing is left to do.
CONSTANTS
  thread_pool = 3
  ShedFactor = 1
  QueueFactor = 2
  MaxStuck = 2
  MaxConns = 11
  MaxRequests = 4
SPECIFICATION FairSpec
CHECK_DEADLOCK FALSE
INVARIANTS
  TypeOK
PROPERTIES
  TurnedAwayOnlyWhenSaturated
  EveryConnectionIsTaken
