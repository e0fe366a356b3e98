CONSTANTS
  Strands = {s1, s2}
  Threads = {}
  Modes = {TRUE}
  InlineStrands = {}
  Ends = {}
  MaxSpurious = 0
  Free = Free
  InitCount = 2
  MaxRounds = 1
  MaxDeficit = 1
SPECIFICATION Spec
INVARIANT AllArrivedMeansPassed
