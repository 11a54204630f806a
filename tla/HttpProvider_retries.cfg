SPECIFICATION Spec
CONSTANTS
    Calls = {c1}
    JsonCalls = {c1}
    MaxRetries = 3
    InitialBackoff = 3
    MaxDuration = 10
INVARIANTS
    TypeOK
    RetryBudget
    OutcomeJustified
    GivesUpOnlyWhenSpent
    ResendOnlyAfterTransient
    PauseSchedule
PROPERTIES
    SilentAfterEnd
    EveryCallEnds
CHECK_DEADLOCK FALSE
