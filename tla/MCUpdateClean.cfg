\* An existing object moves to a new spec; a failed operation leaves nothing behind.
SPECIFICATION FairSpec
CONSTANTS
    f1 = f1
    f2 = f2
    f3 = f3
    Content <- Files2
    FirstVersion = FALSE
    SpecChange = TRUE
    GoLimit = 2
    AtomicWrites = FALSE
    FailLeaves <- Clean
INVARIANTS
    RevertOkRestores
PROPERTIES
    AtomicallyUpdates
