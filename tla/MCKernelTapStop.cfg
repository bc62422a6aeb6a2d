CONSTANTS
    RcvBuf = 2
    MaxArrivals = 4
    MaxDowns = 1
SPECIFICATION TapFairSpec
PROPERTIES StopIsResponsive
CHECK_DEADLOCK FALSE
