SPECIFICATION Spec
CONSTANTS
  k1 = k1
  k2 = k2
SYMMETRY Symmetry
INVARIANTS
  KeepsOneRow
  TopIsExact
  ReleasedInOrder
  NormalizedTableIsCurrent
CHECK_DEADLOCK FALSE
