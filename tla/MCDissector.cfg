SPECIFICATION DissectorSpec
CONSTANTS
    Sizes = {0, 13, 14, 17, 34, 42, 46, 54, 66}
    LinkTypes = {"ethernet", "sll", "sll2", "raw", "usb"}
    Few = {0, 1, 4}
    MaxRecords = 2
    HelloFixed = 2
    DhcpFixed = 10
    MaxVisited = 3
    Counts = {0, 2}
    Lengths = {0, 1, 192}
    Pointers = {0, 12}
    RecordTypes = {2, 15}
    HeaderWords = {4, 5, 6, 15}
    MaxH2Frames = 3
CHECK_DEADLOCK FALSE
INVARIANTS PanicOnlyAtLastOption LayersTile Ja3PerHello
PROPERTIES EntriesAdvance DissectionEnds
