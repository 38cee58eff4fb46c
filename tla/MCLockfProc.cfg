SPECIFICATION Spec
CONSTANTS
  p1 = p1
  p2 = p2
  f1 = f1
  t1 = t1
  t2 = t2
  t3 = t3
  Threads = {t1, t2}
  Procs = {p1, p2}
  Files = {}
  Requests <- TwoBytes
  FileSize = 3
  maxlocksperuid = 4
  maxlockdepth = 3
  IdIsProc = TRUE
  LastByte = 3
INVARIANTS
  NoDeadlock
