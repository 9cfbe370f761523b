SPECIFICATION Spec
CONSTANTS
    upA = upA
    upB = upB
    photosB = photosB
    delA = delA
    delB = delB
    importA = importA
    detectA = detectA
    alice = alice
    self = self
    bob = bob
    export = export
    other = other
    photos = photos
    shared = shared
    point = point
    position = position
    fix = fix
    record = record
    BytesOf <- MCBytesOf
    Content <- MCContent
    TableOf <- MCTableOf
    Exports = {export, other, photos}
    Observations = {shared, point, position, fix, record}
    NoRun = NoRun
    Free = Free
    Users = {alice}
    Self = alice
    UserOf <- MCUserOfOff
    DropsAccount = FALSE
    Uploads = {upA}
    PhotoBatches = {photosB}
    Deletes = {delA}
    CliImports = {importA}
    CliDetects = {detectA}
    MaxFileParts = 1
    MaxCrashes = 1
    MaxFaults = 1
    ClientsMayLeave = FALSE
    DetectMayPanic = FALSE
INVARIANTS
    HistoryIsCompleted
    EvidenceIsStored
PROPERTIES
    ImplementsLedger
CHECK_DEADLOCK FALSE
