SPECIFICATION Spec
CONSTANTS
    Calls = {c1, c2}
    JsonCalls = {c1}
    MaxRetries = 1
    InitialBackoff = 0
    MaxDuration = 10
PROPERTIES
    ImplementsRemoteCall
CHECK_DEADLOCK FALSE
