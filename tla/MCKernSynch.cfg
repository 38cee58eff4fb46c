SPECIFICATION Spec
CONSTANTS
  Threads = {t1, t2}
  Wakers = {w1}
  Idents = {i1, i2}
  LOOKUP <- OneQueue
  Protect <- Mixed
  Calls <- SleepCalls
  Signals = {"intr", "stop"}
  First = "intr"
  WakeOne = {i2}
  Softclock = Softclock
  Sender = Sender
  NONE = NONE
  i1 = i1
  i2 = i2
SYMMETRY Symmetry
INVARIANTS
  TypeOK
  QueuesAgree
  NoPanic
  NoLostWakeup
  NoSignalSlept
  ReturnsTruth
