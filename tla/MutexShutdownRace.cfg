CONSTANTS
  Strands = {}
  Threads = {t1, t2}
  Modes = {TRUE}
  InlineStrands = {}
  Ends = {"shutdown"}
  MaxSpurious = 1
  Free = Free
  None = None
  Lost = Lost
SPECIFICATION Spec
PROPERTY LockBlocksUntilUnlocked
CHECK_DEADLOCK FALSE
