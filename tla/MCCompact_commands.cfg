SPECIFICATION FairSpec
CONSTANTS
    tiny = tiny  dense = dense  loose = loose  odd = odd
    p1 = p1  p2 = p2  none = none
    Procs = {p1, p2}
    Keys <- MCKeys
    Payload <- MCPayload
    SizeOf <- MCSizeOf
    ZstdSizeOf <- MCZstdSizeOf
    RoundTrips = {tiny, dense, loose}
    MinSize = 2
    BatchSize = 1
    MaxFailures = 1
    NoKey = none
INVARIANTS ReportIsExact NothingLeftOver CountedOnce
PROPERTIES PayloadsKept EventuallyCompact
