SPECIFICATION Spec
CONSTANTS
  None = None
  a1 = a1
  a2 = a2
  a3 = a3
  k1 = k1
  k2 = k2
  Agents = {a1, a2, a3}
  Rank <- InOrder
  Skills = {"s1", "s2", "s3"}
  StickyKeys = {k1, k2}
  Settings <- FiveSettings
INVARIANT CapacityKept
INVARIANT Distributed
PROPERTY StrategiesKept
CHECK_DEADLOCK FALSE
