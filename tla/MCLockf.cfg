SPECIFICATION Spec
CONSTANTS
  p1 = p1
  p2 = p2
  f1 = f1
  t1 = t1
  t2 = t2
  t3 = t3
  Threads = {t1, t2, t3}
  Procs = {p1, p2}
  Files = {f1}
  Requests <- MCRequests
  FileSize = 3
  maxlocksperuid = 4
  maxlockdepth = 3
  IdIsProc = FALSE
  LastByte = 3
INVARIANTS
  ListSound
  NobodySleepsFree
  ClosedHoldsNothing
PROPERTIES
  ImplementsLocks
