SPECIFICATION FairSpec
CONSTANTS
  Threads = {t1, t2}
  Wakers = {w1}
  Idents = {i1}
  LOOKUP <- OneQueue
  Protect <- Mutex
  Calls <- MsleepCalls
  Signals = {"intr"}
  First = "intr"
  WakeOne = {}
  Softclock = Softclock
  Sender = Sender
  NONE = NONE
  i1 = i1
  i2 = i2
PROPERTIES
  TimedSleepEnds
  EventWakes
