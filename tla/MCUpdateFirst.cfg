\* The first version of an object: writes and removals can be broken off halfway.
SPECIFICATION FairSpec
CONSTANTS
    f1 = f1
    f2 = f2
    f3 = f3
    Content <- Files2
    FirstVersion = TRUE
    SpecChange = TRUE
    GoLimit = 2
    AtomicWrites = FALSE
    FailLeaves <- PartialBoth
INVARIANTS
    TypeOK
    RevertOkRestores
PROPERTIES
    CallsReturn
