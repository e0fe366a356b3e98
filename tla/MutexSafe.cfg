CONSTANTS
  Strands = {s1, g1, g2}
  Threads = {t1, t2}
  Modes = {TRUE, FALSE}
  InlineStrands = {s1}
  GuardedStrands = {g1, g2}
  Ends = {"shutdown", "destroy"}
  MaxSpurious = 0
  Free = Free
  None = None
  Lost = Lost
SPECIFICATION GSpec
INVARIANTS
  TypeOK
  MutualExclusion
  LockedHasOwner
  WaitersAreQueued
  GuardedOpsRunAlone
PROPERTIES
  ResultIsFinal
  ImplementsFifoLock
CHECK_DEADLOCK FALSE
