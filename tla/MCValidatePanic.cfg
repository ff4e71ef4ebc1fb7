\* Validation of what a broken off update leaves.
CONSTANTS
    Stages <- MCStages
    Specs = {10, 11}
    MaxHead = 2
    MaxCrashes = 1
    Rot = FALSE
SPECIFICATION Spec
INVARIANT ValidationReturns
CHECK_DEADLOCK FALSE
