SPECIFICATION Spec
CONSTANTS
    Order <- MCOrder
    DependsOn <- MCDependsOn
    Runs = {r1, r2}
    Jobs <- MCJobs
    Blank = ""
    MaxAttempts = 2
INVARIANTS
    TypeOK
    DoneMeansVisible
    MissesOnlyDeselected
    CleanResume
PROPERTIES
    EveryRunEnds
CHECK_DEADLOCK FALSE
