\* An existing object: any write can be broken off halfway.
SPECIFICATION Spec
CONSTANTS
    f1 = f1
    f2 = f2
    f3 = f3
    Content <- Files3
    FirstVersion = FALSE
    SpecChange = TRUE
    GoLimit = 2
    AtomicWrites = FALSE
    FailLeaves <- PartialApply
SYMMETRY Perms
INVARIANTS
    PrefixCompleted
    CommitPoint
    ApplyOkIsComplete
    ErrTellsFailure
PROPERTIES
    CompletionFinal
