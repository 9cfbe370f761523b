SPECIFICATION ListsSpec
CONSTANTS
    Near <- MCNear
    Horizon = 4
    MaxCandidates = 2
    MaxDecisions = 2
INVARIANTS
    MatchIsTheStableOne
    DriftKeepsIdentity
CHECK_DEADLOCK FALSE
