SPECIFICATION FairSpec
CONSTANTS
    signA1 = signA1
    signA2 = signA2
    signB = signB
    eraseX = eraseX
    eraseY = eraseY
    ann = ann
    ben = ben
    Nobody = Nobody
    SignIns = {signA1, signA2, signB}
    Erasures = {eraseX, eraseY}
    Subjects = {ann, ben}
    SubjectOf <- MCSubjectOf
    Caps = {1, 2}
    MaxRestarts = 1
    MaxFaults = 1
INVARIANTS
    SessionsOpenTheirAccount
PROPERTIES
    AdmittedBelowCap
    EveryoneAnswered
CHECK_DEADLOCK FALSE
