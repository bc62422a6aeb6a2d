CONSTANTS
    Frames <- EightFrames
    TrackerLimit = 2
    PlayerLimit = 1
    MaxEv = 1
    MaxFr = 2
    MaxFrames = 6
SPECIFICATION ConvSpec
INVARIANTS TablesAreFifo FlowCountsItsFrames TimelineIsPrefix TablesAgree
CHECK_DEADLOCK FALSE
