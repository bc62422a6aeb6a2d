CONSTANTS
    h1 = h1
    Frames <- ThreeFrames
    Filters <- TwoFilters
    Match <- FilterMatch
    Handlers <- OneHandler
    MaxFrames = 3
    ExportLimit = 1
    StoryLimit = 1
    HelloLimit = 1
    Conditions <- FourConditions
SPECIFICATION ReportsSpec
INVARIANTS ReportIsBacked ChapterHasSession NewTableIsCurrent FilterAsGrammar
CHECK_DEADLOCK FALSE
