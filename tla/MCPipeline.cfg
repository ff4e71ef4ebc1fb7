\* Five tasks and two workers: the result channel fills while both workers hold
\* another result and the feeder offers the next task.
SPECIFICATION FairSpec
CONSTANTS
    Tasks = {t1, t2, t3, t4, t5}
    Workers = {w1, w2}
INVARIANTS
    NoGoroutineLeft
    EveryResultYielded
PROPERTIES
    NoNewWork
    Terminates
CHECK_DEADLOCK FALSE
