SPECIFICATION Spec
CONSTANTS
    Operators = {o1, o2}
    Limit = 3
    Slot = 4
INVARIANTS
    ExactAccounting
    LeaseCoversMemory
PROPERTIES
    LeaseReturned
CHECK_DEADLOCK FALSE
