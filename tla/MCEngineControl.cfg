CONSTANTS
    h1 = h1
    w1 = w1
    Rows <- Rows2
    MaxPending = 1
    HasHub = TRUE
    Mode = "iface"
    Kernel = TRUE
    Record = TRUE
    MaxPackets = 0
    MaxStore = 4
    Ctl <- Callers
    WSReaders <- Readers
    MaxCalls = 3
    Joins = FALSE
SPECIFICATION Spec
INVARIANTS PauseAlmostFreezes PanicNeedsOverlap
CHECK_DEADLOCK FALSE
