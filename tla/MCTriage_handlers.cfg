SPECIFICATION Spec
CONSTANTS
    decide1 = decide1
    decide2 = decide2
    bulk1 = bulk1
    attach1 = attach1
    mint1 = mint1
    Near <- MCNear
    Detections <- MCDetections
    Singles = {decide1}
    Bulks = {bulk1}
    Attaches = {attach1}
    Mints = {mint1}
    MaxRuns = 2
    MaxActive = 2
INVARIANTS
    BulkAddsNothing
PROPERTIES
    DecideIsLocal
    CarriedByItsTrip
SYMMETRY MCSymmetry
CHECK_DEADLOCK FALSE
