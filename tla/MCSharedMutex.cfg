CONSTANTS
  Strands = {r1, w1}
  Threads = {tr, tw}
  Modes = {TRUE, FALSE}
  InlineStrands = {}
  Ends = {"shutdown", "destroy"}
  MaxSpurious = 0
  Free = Free
  Readers = {r1, tr}
  GuardUsers = {w1, tr}
  Slots = {x1, x2, y1, y2}
  SharedSlots = {y1, y2}
  Dead = Dead
  Empty = Empty
SPECIFICATION LFairSpec
INVARIANTS
  WritersExclude
  LocksHaveOwners
  WaitersAreQueued
  GuardsOwnTheLocks
PROPERTY EveryReaderIsServed
CHECK_DEADLOCK FALSE
