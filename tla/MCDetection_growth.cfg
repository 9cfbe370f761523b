SPECIFICATION HistorySpec
CONSTANTS
    NearKm = 2
    FarKm = 6
    MinObs = 2
    MinHrs = 2
    MinDwell = 2
    MaxKmh = 20
    StayRadius = 1
    StayMin = 1
    StayMaxGap = 3
    HomeMinDays = 1
    CellKm = 5
    MergeKm = 5
    MinVisits = 1
    EraPad = 0
    DayLength = 3
    Horizon = 11
    Begun <- MCBegun
    HomeVisits <- MCHomeVisits
    OtherVisits <- MCOtherVisits
    Activities <- MCActivities
    Points <- MCPoints
    Photos <- MCPhotos
INVARIANTS
    StaysAsWitnessed
    DestinationOnTheTrip
    CandidatesDisjoint
PROPERTIES
    ImportElsewhereChangesNothing
CHECK_DEADLOCK FALSE
