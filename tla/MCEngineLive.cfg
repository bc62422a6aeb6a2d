CONSTANTS
    h1 = h1
    w1 = w1
    Rows <- Rows2
    MaxPending = 1
    HasHub = TRUE
    Mode = "file"
    Kernel = FALSE
    Record = FALSE
    MaxPackets = 0
    MaxStore = 4
    Ctl <- Callers
    WSReaders <- Readers
    MaxCalls = 2
    Joins = FALSE
SPECIFICATION FairSpec
PROPERTIES StopEnds LastFlushHappens
CHECK_DEADLOCK FALSE
