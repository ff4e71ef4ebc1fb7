\* Updates, crashes, resumed and reverted plans, damage, and validation of all that.
CONSTANTS
    Stages <- MCStages
    Specs = {10, 11}
    MaxHead = 3
    MaxCrashes = 1
    Rot = TRUE
SPECIFICATION Spec
INVARIANTS
    OpenedObjectIsWhole
    AckedKept
    ResolvedIsValid
    ValidatorExact
CHECK_DEADLOCK FALSE
