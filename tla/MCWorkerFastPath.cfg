CONSTANTS
    WorkerRetries = 2
    MaxPauses = 1
SPECIFICATION WkSpec
CHECK_DEADLOCK FALSE
INVARIANT
    FastPathMeansToolSucceeded
