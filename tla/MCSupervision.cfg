SPECIFICATION FairSpec
CONSTANTS
    w1 = w1
    Director = director
    Sup = supervisor
    Workers <- OneWorker
    StuckAfter = 2
    MaxRetries = 1
    HasAdvisor = TRUE
    LLMRetries = 0
    TaskBound = 2
    Inboxes <- SupervisorsInbox
INVARIANTS
    EveryFailureIsHeard
    PromptIsClean
PROPERTIES
    NoHastyCancel
    HangIsCancelled
    RunReturns
CHECK_DEADLOCK FALSE
