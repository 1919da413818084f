SPECIFICATION SuiteSpec
CONSTANTS
  MaxStages = 3
  MaxBatches = 2
INVARIANTS
  OnlyWholeState
  ControlsInOrder
  ReuseMapsAreCurrent
  NativeFollowsTree
  ExitsAgree
PROPERTIES
  OutputInOrder
CHECK_DEADLOCK FALSE
