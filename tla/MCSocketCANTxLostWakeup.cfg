SPECIFICATION Spec
CONSTANTS
  p1 = p1
  p2 = p2
  l1 = l1
  Callers = {p1, p2}
  Loops = {l1}
  TxQueueSize = 2
  MaxRetryCount = 1
  MaxOneShots = 2
PROPERTIES
  OneShotsSettle
CHECK_DEADLOCK FALSE
