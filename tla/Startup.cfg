\* Every command line with every file.
SPECIFICATION AppSpec
CONSTANTS
    num_processors = 2
    TaskLines <- MC_TaskLines
    LockCounts <- MC_LockCounts
    Groups = {1, 2}
    WssValues = {1, 9}
    MinWss = 2
    MaxWss = 8
    GroupWssCap = TRUE
    LockingModes = {0, 1, 3}
    MaxTasks = 3
    IntMax = 11999
    KnownScheduler = {"EDF"}
    KnownWorkload = {"burn_loop", "bst"}
    KnownTiming = {"average", "wcet", "timer"}
    CommandLines <- MC_CommandLines
    LongMax = 239
    NoHyperPeriod = NoHyperPeriod
INVARIANTS
    OneLeaderPerGroup
    DomainsMatchTasks
    GroupWssAtLeader
    ReadyIsRunnable
    HyperPeriodLeast
