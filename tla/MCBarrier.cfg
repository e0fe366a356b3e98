CONSTANTS
  Strands = {s1, s2}
  Threads = {t1}
  Modes = {TRUE, FALSE}
  InlineStrands = {s1}
  Ends = {"shutdown", "destroy"}
  MaxSpurious = 0
  Free = Free
  InitCount = 3
  MaxRounds = 2
  MaxDeficit = 1
SPECIFICATION FairSpec
INVARIANTS
  LastArrivalEndsPhase
  PartiesStayInStep
  WaitersAreQueued
PROPERTIES
  ImplementsPhaseBarrier
  EveryPhaseEnds
CHECK_DEADLOCK FALSE
