SPECIFICATION Spec
CONSTANTS
    march = march
    june = june
    p1 = p1
    p2 = p2
    restore1 = restore1
    restore2 = restore2
    Anchors = {march, june}
    Hashes = {p1, p2}
    Restores = {restore1, restore2}
    Ids = {1, 2}
    MaxStops = 1
    Live = TRUE
    DiskMayFill = TRUE
INVARIANTS
    ArchiveIsRestorable
    Recovers
    RowHasThumb
CHECK_DEADLOCK FALSE
