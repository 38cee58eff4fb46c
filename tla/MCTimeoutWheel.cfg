SPECIFICATION Spec
CONSTANTS
  Timeouts = {t1}
  WHEELSIZE = 4
  Requests = {0, 1, 4, 5, 16, 17, 65, 300}
  Adjustments = {20}
  MaxLag = 1
  None = None
INVARIANTS
  TypeOK
  BucketInTime
PROPERTIES
  ImplementsTimers
