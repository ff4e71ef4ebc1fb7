\* A file laid over a directory of the same name.
CONSTANTS
    Dirs <- MCConflictDirs
    Mutations = {}
    Options <- MCOptions
    Initial <- MCConflictInitial
    Others = {}
    MaxSources = 2
SPECIFICATION Spec
INVARIANT NoPathConflict
CHECK_DEADLOCK FALSE
