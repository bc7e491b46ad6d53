SPECIFICATION FairSpec
CONSTANTS
    s1 = s1
    s3 = s3
    Servers = {s1, s3}
    num_workers <- UnequalServers
    QuietStart = TRUE
    Failing = TRUE
    MaxIndex = 3
INVARIANTS
    TypeOK
    TurnInRange
    OneInside
PROPERTIES
    ImplementsRotation
    TurnKeepsMoving
    TurnStopsWhereNobodyRuns
CHECK_DEADLOCK FALSE
