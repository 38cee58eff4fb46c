SPECIFICATION Spec
CONSTANTS
  Threads = {t1}
  Wakers = {w1}
  Idents = {i1}
  LOOKUP <- OneQueue
  Protect <- Kernel
  Calls <- TsleepCalls
  Signals = {"intr", "stop"}
  First = "stop"
  WakeOne = {}
  Softclock = Softclock
  Sender = Sender
  NONE = NONE
  i1 = i1
  i2 = i2
INVARIANTS
  NoSignalSlept
