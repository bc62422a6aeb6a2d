CONSTANTS
    Findings <- TwoFindings
    Alerts = {1, 2, 3}
    Window = 2
    Timeout = 1
    MaxKeys = 1
SPECIFICATION NotifierFairSpec
PROPERTIES SpacedOut NotifyEnds
CHECK_DEADLOCK FALSE
