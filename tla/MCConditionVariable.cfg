CONSTANTS
  Strands = {s1, s2, s3}
  Threads = {t1}
  Modes = {TRUE, FALSE}
  InlineStrands = {}
  Ends = {"shutdown", "destroy"}
  MaxSpurious = 0
  Free = Free
  Plain = {s1}
  Throwing = {s3}
SPECIFICATION FairSpec
INVARIANT WaitersAreQueued
PROPERTIES
  NotifiedByCondition
  OnlyRefusalHoldsUp
CHECK_DEADLOCK FALSE
