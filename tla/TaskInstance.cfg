\* Three tasks under four tasksets; requests of mutex 3 may fail.  Lists in
\* opposite orders really stop their tasks.
SPECIFICATION FairSpec
CONSTANTS
    Task <- MC_Task
    Lock <- MC_Lock
    LockLists <- MC_LockLists
    MayRefuse = {3}
    LockingModes = {0, 1}
    Utility <- MC_Utility
    MaxReleases <- MC_MaxReleases
    ExtraRelease <- MC_ExtraRelease
    MaxLateness = 1
    MaxGarbage = 0
    NoTask = NoTask
INVARIANTS
    UnlocksOnlyOwn
    NoLockLeak
    DeadlockNeedsConflict
PROPERTIES
    JobsImplemented
    JobsFinish
CHECK_DEADLOCK FALSE
