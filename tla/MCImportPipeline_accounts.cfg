SPECIFICATION Spec
CONSTANTS
    upA = upA
    upB = upB
    photosB = photosB
    delA = delA
    delB = delB
    importA = importA
    detectA = detectA
    alice = alice
    self = self
    bob = bob
    export = export
    other = other
    photos = photos
    shared = shared
    point = point
    position = position
    fix = fix
    record = record
    BytesOf <- MCBytesOf
    Content <- MCContent
    TableOf <- MCTableOf
    Exports = {export, other, photos}
    Observations = {shared, point, position, fix, record}
    NoRun = NoRun
    Free = Free
    Users = {self, alice, bob}
    Self = self
    UserOf <- MCUserOf
    DropsAccount = TRUE
    Uploads = {upA, upB}
    PhotoBatches = {photosB}
    Deletes = {delB}
    CliImports = {}
    CliDetects = {}
    MaxFileParts = 1
    MaxCrashes = 1
    MaxFaults = 1
    ClientsMayLeave = TRUE
    DetectMayPanic = TRUE
INVARIANTS
    RowHasRetainedFile
    CompletedDetectionSaw
CHECK_DEADLOCK FALSE
