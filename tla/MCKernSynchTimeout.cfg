SPECIFICATION Spec
CONSTANTS
  Threads = {t1}
  Wakers = {w1}
  Idents = {i1}
  LOOKUP <- OneQueue
  Protect <- Mutex
  Calls <- UnlockedCalls
  Signals = {}
  First = "intr"
  WakeOne = {}
  Softclock = Softclock
  Sender = Sender
  NONE = NONE
  i1 = i1
  i2 = i2
INVARIANTS
  ReturnsTruth
