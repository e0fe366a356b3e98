CONSTANTS
  Holders = {x, y, e}
  Ops = {m1, m2, m3}
  e = e
  nullptr = nullptr
SPECIFICATION SFairSpec
INVARIANTS
  ServiceOutlivesMembers
  RegistryStaysLinked
PROPERTY EveryMemberIsShutDown
CHECK_DEADLOCK FALSE
