CONSTANTS
    WorkerRetries = 2
    MaxPauses = 2
    AtomIds <- MCAtomIds
    Decompositions <- MCDecompositions
    AtomicRetries = 1
    Agents = {"a1", "a2"}
    Others = {"o1"}
    MaxTransitions = 2
    MaxClients = 3
SPECIFICATION MCSpec
CHECK_DEADLOCK FALSE
INVARIANTS
    OnlyUnresolvableSkipped
    FailedMeansExhausted
    TrustedOnlyIfAllRan
    ReturnsAnOutcome
    OneLateCall
    LostForKnownReasons
PROPERTIES
    ProcessEnds
    ExecuteEnds
    TransitionEnds
    StopReturns
