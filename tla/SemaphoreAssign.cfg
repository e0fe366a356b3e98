CONSTANTS
  Holders = {s1, s2, tmp}
  Tmp = tmp
  Ops = {o1, o2}
SPECIFICATION ASpec
INVARIANT DestroyedMeansCompleted
