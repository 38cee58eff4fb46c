SPECIFICATION Spec
CONSTANTS
  Srps = {head, next}
  Inside <- List
  Vals = {v1, v2}
  Readers = {r1}
  NUM = 1
  Writers = {w1}
  Softclock = Softclock
  NULL = NULL
  TSO = FALSE
  MaxStores = 2
  head = head
  next = next
  v1 = v1
  v2 = v2
CHECK_DEADLOCK FALSE
INVARIANTS
  FollowedAlive
