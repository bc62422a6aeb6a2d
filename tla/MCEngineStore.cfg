CONSTANTS
    h1 = h1
    w1 = w1
    Rows <- Rows5
    MaxPending = 2
    HasHub = TRUE
    Mode = "file"
    Kernel = FALSE
    Record = FALSE
    MaxPackets = 0
    MaxStore = 4
    Ctl <- NoCallers
    WSReaders <- NoCallers
    MaxCalls = 0
    Joins = TRUE
SPECIFICATION Spec
INVARIANTS RowsAccounted NewestRowsShown StoreKeepsNewest RowsOpenable FinalStatsComplete
PROPERTIES ImplementsLossyFeed
CHECK_DEADLOCK FALSE
