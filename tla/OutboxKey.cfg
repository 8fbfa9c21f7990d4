SPECIFICATION Spec
CONSTANTS
    c1 = c1
    c2 = c2
    c3 = c3
    loop = loop
    endpoint = endpoint
    Calls = {c1, c2, c3}
    Contents = {"same", "other"}
    ContentOf <- ContentOfCalls
    Drainers = {loop, endpoint}
    Loop = loop
    MaxAttempts = 1
    Scenarios <- Double
INVARIANT QueuedIsTracked
CHECK_DEADLOCK FALSE
