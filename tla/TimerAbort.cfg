\* Timer-based timing, the default, and an abort.
SPECIFICATION Spec
CONSTANTS
    THOUSAND = 2
    MILLION = 4
    Scale = 81
    clock_res = 1
    ULongSize = 4096
    UIntSize = 16
    run_time = 3
    Periods = {5}
    exec_time = 4
    Options <- MC_TimerOptions
    Slopes <- MC_OneSlope
    Starts = {0}
    ChunkCosts = {54, 81, 162}
    Durations = {1}
    Oversleeps = {0}
INVARIANTS
    AbortPrompt
