\* One goroutine: no copy is under way when another one fails.
SPECIFICATION FairSpec
CONSTANTS
    f1 = f1
    f2 = f2
    f3 = f3
    Content <- Files2
    FirstVersion = FALSE
    SpecChange = FALSE
    GoLimit = 1
    AtomicWrites = FALSE
    FailLeaves <- Clean
PROPERTIES
    ExecutionStops
