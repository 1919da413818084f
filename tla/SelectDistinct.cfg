SPECIFICATION Spec
CONSTANTS
  NULL = NULL
  SelectsDistinct = TRUE
  k1 = k1
  k2 = k2
  l1 = l1
  l2 = l2
INVARIANT VisibleWhileCounted
CHECK_DEADLOCK FALSE
