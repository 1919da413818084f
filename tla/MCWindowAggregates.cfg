SPECIFICATION Spec
CONSTANTS
  k1 = k1
  k2 = k2
SYMMETRY Symmetry
INVARIANTS
  
  SessionsAreMerged
  SessionRowsAreComplete
CHECK_DEADLOCK FALSE
