SPECIFICATION Spec
CONSTANTS
  p1 = p1
  p2 = p2
  l1 = l1
  Callers = {p1, p2}
  Loops = {l1}
  TxQueueSize = 2
  MaxRetryCount = 2
  MaxOneShots = 3
INVARIANTS
  TypeOK
  OneShotsAccounted
  NoSilentFailure
PROPERTIES
  SettlesWhileNotified
  CloseReturns
  ClosesWithinFrame
  ImplementsChannel
CHECK_DEADLOCK FALSE
