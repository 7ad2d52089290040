\* One run in which a group process may be killed by a signal.
SPECIFICATION Spec
CONSTANTS
    NumTasks <- MC_NumTasks
    Leader <- MC_Leader
    Period <- MC_Period
    Utility <- MC_Utility
    RunTime <- MC_RunTime
    CpuUsage = 50
    EndUsage = 50
    Interval = 50
    MaxClock = 1
    MaxLateness = 1
    Faults = {"signal"}
INVARIANTS
    ReportOnlyAfterSuccess
CHECK_DEADLOCK FALSE
