SPECIFICATION ServerSafety
CONSTANTS
    Keys = {k1}
    Compensation = 1
    GatherTime = 2
    GatherCompensation = 1
    MaxDelay = 2
    FullBase = 2
    FullMax = 2
    History = 3
    Objects = {1, 2, 3}
    SubDirs = 2
    Size <- MCSize
    Capacity = 2
    MaxEntries = 2
    ListBatch = 1
    DeleteBatch = 1
    Listers = {rebuild}
    MaxPuts = 3
    MaxFaults = 1
    EntryKeys = {e1, e2, e3}
    Sizes = {0, 1, 2, 4}
    MaxSize = 3
INVARIANTS  PurgesOldest BooksExact
PROPERTIES RefinesAbstractCache
