SPECIFICATION FairSpec
CONSTANTS
  Tasks = {t1, t2}
  Callers = {c1, c2}
  Threads = {w1, w2, w3}
  Queues <- MCQueues
  Creator = Creator
  Destroyer = Destroyer
  None = None
CHECK_DEADLOCK FALSE
INVARIANTS
  TypeOK
  FlagsMatchList
  NoUseAfterFree
PROPERTIES
  DrainedFirst
  AddLeadsToCall
  DestroyEnds
