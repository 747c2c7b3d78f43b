SPECIFICATION ServerSpec
CONSTANTS
    Keys = {k1}
    Compensation = 0
    GatherTime = 1
    GatherCompensation = 0
    MaxDelay = 1
    FullBase = 1
    FullMax = 1
    History = 2
    Objects = {1, 2, 3}
    SubDirs = 2
    Size <- MCSize
    Capacity = 2
    MaxEntries = 2
    ListBatch = 1
    DeleteBatch = 1
    Listers = {rebuild}
    MaxPuts = 3
    MaxFaults = 1
    EntryKeys = {e1}
    Sizes = {1}
    MaxSize = 1
PROPERTIES ReaderLearns OverflowPurged
