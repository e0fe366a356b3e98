CONSTANTS
  Strands = {s1, g1}
  Threads = {t1, t2}
  Modes = {TRUE}
  InlineStrands = {s1}
  GuardedStrands = {g1}
  Ends = {"shutdown"}
  MaxSpurious = 2
  Free = Free
  None = None
  Lost = Lost
SPECIFICATION GFairSpec
INVARIANT OpsOutliveShutdown
PROPERTIES
  OnlyShutdownInterrupts
  EveryWaiterIsServed
  ShutdownEndsSleep
CHECK_DEADLOCK FALSE
