\* A task without locks, with locking enabled.
SPECIFICATION Spec
CONSTANTS
    Task <- MC_TwoTasks
    Lock <- MC_Lock
    LockLists <- MC_one_without
    MayRefuse = {}
    LockingModes = {1}
    Utility <- MC_TwoUtility
    MaxReleases <- MC_TwoReleases
    ExtraRelease <- MC_TwoExtra
    MaxLateness = 1
    MaxGarbage = 0
    NoTask = NoTask
INVARIANTS
    NoFault
