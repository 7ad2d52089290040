\* Both timing methods, with and without locked work, at three slopes.
SPECIFICATION FairSpec
CONSTANTS
    THOUSAND = 2
    MILLION = 4
    Scale = 81
    clock_res = 1
    ULongSize = 4096
    UIntSize = 16
    run_time = 3
    Periods = {4, 5}
    exec_time = 4
    Options <- MC_Options
    Slopes <- MC_Slopes
    Starts = {0, 5}
    ChunkCosts = {54, 81, 162}
    Durations = {1, 9, 10, 11, 14}
    Oversleeps = {0, 1}
INVARIANTS
    MetIffInTime
    EarlyOnlyAfterAbort
    WorkExact
    PieceBounded
PROPERTIES
    JobsEnd
