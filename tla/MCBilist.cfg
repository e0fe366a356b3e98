CONSTANTS
  Holders = {h1, h2}
  Ops = {o1, o2, o3}
SPECIFICATION ArriveSpec
INVARIANTS
  TypeOK
  WellLinked
  FrontIsOperation
  NoOrphan
PROPERTY ImplementsQueues
