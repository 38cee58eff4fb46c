SPECIFICATION Spec
CONSTANTS
  Timeouts = {t1}
  WHEELSIZE = 4
  Requests = {1}
  Adjustments = {127}
  MaxLag = 3
  None = None
PROPERTIES
  DueStaysDue
