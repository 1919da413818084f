SPECIFICATION Spec
CONSTANTS
    Work = {f1, f2}
    LocalBackup = TRUE
INVARIANTS
    NothingOrphaned
    PublishedComplete
PROPERTIES
    ImplementsAttempt
CHECK_DEADLOCK FALSE
