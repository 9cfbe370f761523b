SPECIFICATION Spec
CONSTANTS
    attachA = attachA
    importA = importA
    importB = importB
    removeA = removeA
    removeB = removeB
    eraseA = eraseA
    alice = alice
    bob = bob
    h1 = h1
    h2 = h2
    h3 = h3
    h4 = h4
    Free = Free
    Users = {alice, bob}
    Hashes = {h1}
    UserOf <- MCUserOf
    Carries <- MCCarries
    Existing <- MCBothHave1
    DropsAccount = TRUE
    Attaches = {}
    PhotoImports = {}
    PhotoDeletes = {removeB}
    AccountDeletes = {}
    MaxCrashes = 0
    MaxFaults = 0
INVARIANTS
    RowHasThumb
CHECK_DEADLOCK FALSE
