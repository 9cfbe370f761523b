SPECIFICATION Spec
CONSTANTS
    attachA = attachA
    importA = importA
    importB = importB
    removeA = removeA
    removeB = removeB
    eraseA = eraseA
    alice = alice
    bob = bob
    h1 = h1
    h2 = h2
    h3 = h3
    h4 = h4
    Free = Free
    Users = {alice, bob}
    Hashes = {h1, h2, h3, h4}
    UserOf <- MCUserOf
    Carries <- MCCarries
    Existing <- MCExisting
    DropsAccount = TRUE
    Attaches = {attachA}
    PhotoImports = {importA, importB}
    PhotoDeletes = {removeA}
    AccountDeletes = {eraseA}
    MaxCrashes = 1
    MaxFaults = 1
INVARIANTS
    RowHasThumb
    ErasedStaysErased
    FilesEndWithRows
CHECK_DEADLOCK FALSE
