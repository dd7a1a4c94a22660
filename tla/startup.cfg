SPECIFICATION SuiteSpec
CONSTANTS
    None = None
    t1 = t1  t2 = t2  b1 = b1  r1 = r1  r2 = r2
    Thread = {t1, t2}
    Binary = {b1}
    Bad = {}
    HasDisk = TRUE
    Others = TRUE
    Restarts = TRUE
    MaxMade = 2
INVARIANTS
    LaunchSound
    BytesAreRight
    RunReported
PROPERTIES
    ImplementsMemo
    StepsKeep
    StartupEnds
CHECK_DEADLOCK FALSE
