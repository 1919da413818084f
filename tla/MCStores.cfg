SPECIFICATION Spec
CHECK_DEADLOCK FALSE
INVARIANT StoresAgree
INVARIANT TimersDrainInOrder
INVARIANT RowsReachTheirOwner
