CONSTANTS
    Frames <- EightFrames
    ScanAt = 2
    TunnelAt = 1
    MaxSources = 2
    Limit = 3
    MaxFrames = 6
    MaxBuckets = 2
    Clock = {3}
SPECIFICATION IngestionSpec
INVARIANTS FindingsAreNewest ReportedOnce StreakIsReported TimelineIsNewest
CHECK_DEADLOCK FALSE
