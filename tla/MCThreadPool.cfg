SPECIFICATION FairSpec
CONSTANTS
    Threads <- MCThreads
    Tasks <- MCTasks
    Owner = owner
    NoTask = nothing
    th1 = th1
    th2 = th2
    th3 = th3
    a = a
    b = b
    c = c
INVARIANTS
    TypeOK
    OneHolder
    NoLostWakeup
    DrainedWhenDestroyed
PROPERTIES
    FutureResolves
    ImplementsWorkQueue
CHECK_DEADLOCK FALSE
