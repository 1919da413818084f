SPECIFICATION SuiteSpec
CONSTANTS
  Readers = {1, 2, 3}
  MaxBatches = 3
  Stages = {"s1", "s2"}
  MaxTime = 3
  MaxArrivals = 3
INVARIANTS
  ReadersShareTheSource
  NoneIsStranded
PROPERTIES
  
  AllReadersEnd
  DueIsCalled
CHECK_DEADLOCK FALSE
