\* A write of Apply is broken off, and the plan is reverted.
SPECIFICATION Spec
CONSTANTS
    f1 = f1
    f2 = f2
    f3 = f3
    Content <- Files2
    FirstVersion = FALSE
    SpecChange = FALSE
    GoLimit = 2
    AtomicWrites = FALSE
    FailLeaves <- PartialApply
INVARIANTS
    RevertOkReopens
