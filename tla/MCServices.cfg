CONSTANTS
    Ids <- MCIds
    Requests <- MCRequests
    Plans <- MCPlans
    Reviews <- MCReviews
    MaxRetries = 2
    Budget = 3
    MaxRuns = 2
    Convs = {"c1", "c2"}
    NoConv = "none"
    MaxGoals = 2
    MaxMemory = 4
    Typed <- MCTyped
    HandWritten <- MCHandWritten
    MaxEdits = 2
    MaxWizards = 1
    Threads = {t1, t2}
    ExecRetries = 2
    ApiRetries = 1
    FailureThreshold = 3
    SuccessThreshold = 2
    Responses <- MCResponses
    Addresses = 2
    Callers = {w1, w2}
    Files = {"f"}
    Names = {"read_file", "list_dir", "write_file", "delete_file", "run_command", "create_tool", "dynamic"}
    CacheSize = 2
    MaxSeconds = 2
    MaxWrites = 2
    Learners = {w1, w2}
    ExpKeys = {"exp"}
    Contexts = {"p", "q"}
    Terms = {"x", "y"}
    MaxLines = 3
    MaxRecords = 3
    Lines <- MCLines
    Goals <- MCGoals
    NoLine <- MCNoLine
    MaxTyped = 2
SPECIFICATION MCSpec
SYMMETRY MCSymmetry
CHECK_DEADLOCK FALSE
INVARIANTS
    ReportsInPlace
    RunTwiceAtMost
    RejectionsSettled
    HistoryOfConversation
    MemoryFileKeepsSummaries
    WrittenIsLoaded
    BreakerOnTime
    LossesExplained
    LruMatchesCache
    StaleForKnownReasons
    DfCoversDocs
    NewestTwoKept
    OneGoalOnly
PROPERTIES
    ClosesOnEvidence
