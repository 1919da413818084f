SPECIFICATION SuiteSpec
CONSTANTS
  s1 = s1
  s2 = s2
  Records <- JoinRows
  Keys = {1, 2}
  Ends = {2, 3}
  KeyGroup <- JoinGroups
  MaxTime = 3
  ZoneOffset = 1
  MaxRows = 2
  PageRows = 2
SYMMETRY Symmetry
INVARIANTS
  WindowsAreExact
  ArrivalsAreCounted
  SelectedOnClose
  TimersMatchIndex
PROPERTY ImplementsResult
CHECK_DEADLOCK FALSE
