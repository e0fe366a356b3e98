CONSTANTS
  Strands = {s1, g1, g2}
  Threads = {t1}
  Modes = {TRUE, FALSE}
  InlineStrands = {}
  GuardedStrands = {g1, g2}
  Ends = {"shutdown", "destroy"}
  MaxSpurious = 0
  Free = Free
  InitialCount = 1
  MaxSignals = 1
SPECIFICATION GFairSpec
INVARIANTS
  TypeOK
  PermitsConserved
  WaitersAreQueued
  ParallelismIsBounded
PROPERTIES
  ImplementsFifoSemaphore
  EveryWaiterIsServed
CHECK_DEADLOCK FALSE
