SPECIFICATION Spec
CONSTANTS
    t1 = t1
    t2 = t2
    Thread <- MC_Thread
    MaxNodes = 4
    MaxValue = 2
    STRIDE = 4
    IntSize = 4
    ULongSize = 4096
    ArraySizes <- MC_ArraySizes
INVARIANTS
    CursorLive
    Built
    SearchOnPath
    WalkCovers
    AllFreed
