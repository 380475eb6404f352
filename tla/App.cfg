SPECIFICATION AppSpec
CONSTANTS
    Callers = {c1, c2, c3}
    Concurrency = 2
    MinInterval = 1
    Threshold = 2
    Window = 1
    OpenFor = 1
    MaxAttempts = 2
    Delays = {1}
    MaxCalls = 5
INVARIANTS RateBound RoundTrip
PROPERTIES CircuitTrips EndIsFinal LogArrives
CHECK_DEADLOCK FALSE
