SPECIFICATION Spec
CONSTANTS
  w1 = w1  w2 = w2
  c1 = c1  c2 = c2
  t1 = t1  t2 = t2  t3 = t3
  None = None
  Worker <- MCWorker
  Client <- MCClient
  Task <- MCTask
  MaxWaits = 1
  MaxSpurious = 1
PROPERTIES
  WaitIdleMeansIdle
  WaiterIsWoken
  ShutdownEnds
  ImplementsPool
CHECK_DEADLOCK FALSE
