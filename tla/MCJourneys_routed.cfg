SPECIFICATION JourneysSpec
CONSTANTS
    Batches = {b1, b2, b3, b4}
    Refreshing = {b3}
    NullRouted = {b4}
    Keys <- MCKeys
    Roads = {direct, detour}
    Detour = {detour}
    NoRoute = NoRoute
    NoRow = NoRow
    MaxFaults = 1
    MaxFailures = 1
    GapThreshold = 2
    ThinSpacing = 2
    MinStopDwell = 2
    MaxAccuracy = 5
    AirSpeedMin = 8
    MaxSpeed = 30
    ClusterRadius = 2
    DivergenceWarnPct = 15
    FarWarn = 3
    KeyGrid = 5
    DayLength = 4
    OffsetAt <- MCOffsetAt
    NoPlace = NoPlace
    Window <- MCWindow
    MaxEvidence = 4
    MaxBatches = 2
    Options <- MCOptions
    RoutedHistories <- MCRoutedHistories
SYMMETRY MCSymmetry
INVARIANTS
    RecordedIsTrue
    AskedOnce
    RejectionMends
    CoverageHasNoHoles
    RoadsAreInference
    RoutedGapsAreDrawn
PROPERTIES
    RoadsGoOnlyByAnswers
CHECK_DEADLOCK FALSE
