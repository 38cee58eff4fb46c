SPECIFICATION FairSpec
CONSTANTS
  Timeouts = {t1, t2}
  WHEELSIZE = 2
  Requests = {0, 1, 3, 6}
  Adjustments = {4}
  MaxLag = 1
  None = None
INVARIANTS
  QueuesConsistent
PROPERTIES
  DueRuns
