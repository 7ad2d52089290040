\* Any pattern of calls, in a heap that can run full and grow once.
SPECIFICATION Spec
CONSTANTS
    Words = 24
    MaxGrowths = 1
    Requests = {1, 3, 6, 19, 23}
    MaxAllocs = 5
    WordSize = 65536
INVARIANTS
    BlocksTile
    FreeListExact
    FullyCoalesced
    SafeUntilGrowth
PROPERTIES
    RegionsUntouched
    RegionsDisjoint
