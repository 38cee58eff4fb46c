SPECIFICATION TSOSpec
CONSTANTS
  Srps = {head}
  Inside <- JustHead
  Vals = {v1, v2}
  Readers = {r1}
  NUM = 1
  Writers = {w1}
  Softclock = Softclock
  NULL = NULL
  TSO = TRUE
  MaxStores = 2
  head = head
  next = next
  v1 = v1
  v2 = v2
CHECK_DEADLOCK FALSE
INVARIANTS
  HeldAlive
