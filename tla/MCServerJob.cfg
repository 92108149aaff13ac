\* A shutdown of one process with its cleanup job and no request.
SPECIFICATION Spec
CONSTANTS
    Requests = {}
CHECK_DEADLOCK FALSE
INVARIANTS
    ShutdownStopsJob
