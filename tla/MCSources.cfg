SPECIFICATION SourcesSpec
CONSTANTS
    RcvBuf = 2
    MaxArrivals = 4
    MaxDowns = 1
    MaxRecords = 3
    Ethernet = "ethernet"
    OtherLinks = {"raw", "null"}
    NullLink = "null"
    Wrap = 6
    EpbFixed = 2
    MaxData = 3
    Bytes = {0, 4}
    MaxBlocks = 3
    MaxFails = 1
CHECK_DEADLOCK FALSE
INVARIANTS LostOnlyByWait RecordingReadsBack ClaimsFit
PROPERTIES ImplementsPacketSource StopTakesNextPacket DownEndsNothing NoLeftovers ExitEndsRun
