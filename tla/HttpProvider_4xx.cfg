SPECIFICATION Spec
CONSTANTS
    Calls = {c1}
    JsonCalls = {}
    MaxRetries = 2
    InitialBackoff = 1
    MaxDuration = 10
INVARIANTS
    ClientErrorsAreFinal
CHECK_DEADLOCK FALSE
