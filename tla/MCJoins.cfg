SPECIFICATION Spec
CHECK_DEADLOCK FALSE
INVARIANT JoinIsExact
INVARIANT IntervalJoinIsExact
INVARIANT JoinsValidVersion
INVARIANT JoinsAllInputs
