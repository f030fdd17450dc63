SPECIFICATION FairSpec
CONSTANTS
    v1 = v1
    v2 = v2
    v3 = v3
    x3 = x3
    NoFile = NoFile
    Binary <- MCBinary
    Sound <- MCSound
    Level <- MCLevel
    MetricsLevel = 2
    Attempts = 2
INVARIANTS
    TypeOK
    SuccessIsEarned
    FailureRestores
    LastGoodKept
    CleanRunsLeaveVerified
    ServesItsSchema
PROPERTY
    ServiceComesBack
