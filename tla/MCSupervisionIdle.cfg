SPECIFICATION FairSpec
CONSTANTS
    w1 = w1
    Director = director
    Sup = supervisor
    Workers <- OneWorker
    StuckAfter = 2
    MaxRetries = 1
    HasAdvisor = TRUE
    LLMRetries = 1
    TaskBound = 2
    Inboxes <- AllInboxes
INVARIANTS
    RunningMeansExecuting
CHECK_DEADLOCK FALSE
