SPECIFICATION Spec
CONSTANTS
  t1 = t1
  t2 = t2
  NoThread = NoThread
  Threads <- MCThreads
  Addrs = {1, 2}
  Calls = {1}
  Behind <- MCBehind
  MaxCommands = 5
  MaxSuspend = 2
SYMMETRY Symmetry
INVARIANTS
  DetachedIsRestored
CHECK_DEADLOCK FALSE
