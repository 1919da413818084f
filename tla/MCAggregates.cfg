SPECIFICATION Spec
CONSTANTS
  NULL = NULL
  SelectsDistinct = FALSE
  k1 = k1
  k2 = k2
  l1 = l1
  l2 = l2
SYMMETRY LocalSymmetry
INVARIANTS
  AggregatesAreExact
  StagesAgree
  FramesAreExact
CHECK_DEADLOCK FALSE
