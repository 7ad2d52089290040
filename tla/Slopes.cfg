SPECIFICATION FairSpec

CONSTANTS
    Gen = {g1, g2}
    WorkloadOrder <- MC_Order
    NoVariation = {"burn"}
    MinWss <- MC_Min
    MaxWss <- MC_Max
    DefaultMinWss = 1
    DefaultMaxWss = 8
    WssSamples = 2
    Iterations = 1
    Cpus = 4
    MaxInvalidators = 2
    Slope = {10, 20}

INVARIANTS
    MeasuredUnderLoad
    WorkloadDataLive
    PartialOnlyWhileRewritten
    LookupBracketed

PROPERTIES
    EveryRunEnds
