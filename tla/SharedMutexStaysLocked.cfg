CONSTANTS
  Strands = {}
  Threads = {tr, tw}
  Modes = {TRUE}
  InlineStrands = {}
  Ends = {}
  MaxSpurious = 0
  Free = Free
  Readers = {tr}
  GuardUsers = {}
  Slots = {}
  SharedSlots = {}
  Dead = Dead
  Empty = Empty
SPECIFICATION LSpec
INVARIANT GivenBackIsFree
CHECK_DEADLOCK FALSE
