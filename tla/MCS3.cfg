\* Calls of BucketFS on a bucket that another client may write to.
CONSTANTS
    Keys <- MCKeys
    Buckets <- MCBuckets
    Dirs <- MCDirs
    Targets <- MCTargets
    Sizes = {2}
    MaxKeys = 2
    MaxCopy = 3
    MinRange = 2
    PartSize = 0
    MinPartSize = 2
    DefaultPartSize = 2
    Increment = 1
    MaxParts = 3
    Concurrency = 0
    DefaultConcurrency = 2
    MaxOther = 2
SPECIFICATION Spec
INVARIANT FilesWhole
INVARIANT UploadsEnded
INVARIANT CopiesWhatItCan
INVARIANT RemovedAll
INVARIANT ListsAll
INVARIANT ReadsWhatWasOpened
PROPERTY CallsReturn
CHECK_DEADLOCK FALSE
