\* Two runs of a batch in which processes may fail or be killed.
SPECIFICATION FairSpec
CONSTANTS
    NumTasks <- MC_NumTasks
    Leader <- MC_Leader
    Period <- MC_Period
    Utility <- MC_Utility
    RunTime <- MC_RunTime
    CpuUsage = 50
    EndUsage = 100
    Interval = 50
    MaxClock = 1
    MaxLateness = 1
    Faults = {"fatal", "signal"}
INVARIANTS
    TypeOK
    BarrierSafe
    GroupDataLive
    StartTimePublished
    ReportComplete
    ReportSound
    FailedRunNeverStarts
PROPERTIES
    StartTimeFixed
    RunCompletes
