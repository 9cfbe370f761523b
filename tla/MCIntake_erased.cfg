SPECIFICATION MCSpec
CONSTANTS
    Cli = {c1, c2}
    Photos = {p1}
    Rows <- MCRows
    Free = Free
    Eraser = Eraser
    MaxErasures = 1
    MaxFaults = 1
    None = None
    Unlocated = Unlocated
    Garbage = Garbage
    BadTime = BadTime
    Nowhere = Nowhere
    MaxEntries = 8
    OffsetMax = 4
    DayLength = 8
    PlainFiles <- MCPlainFiles
    PlainBatches <- MCPlainBatches
    RichFiles <- MCRichFiles
    RichBatches <- MCRichBatches
    Windows <- MCWindows
    Limit = 2
SYMMETRY Alike
INVARIANTS
    SkippedCostsOnlyItself
    PhotosKeepToThemselves
    MalformationIsAbsence
    StoredOnce
    CompletedIsWhole
    ErasureNeverDeadlocks
PROPERTIES
    ErasedIsGone
CHECK_DEADLOCK FALSE
