\* Stages, overlays, mutations and updates of an object.
CONSTANTS
    Dirs <- MCDirs
    Mutations <- MCMutations
    Options <- MCOptions
    Initial <- MCInitial
    Others <- MCOthers
    MaxSources = 2
SPECIFICATION Spec
INVARIANTS
    StageHoldsWhatWasMeant
    HistoryKept
    ContentInPlace
    VersionReadsBack
    ContentProvided
    UnchangedExact
CHECK_DEADLOCK FALSE
