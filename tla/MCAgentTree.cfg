SPECIFICATION FairSpec
CONSTANTS
    th1 = th1
    th2 = th2
    th3 = th3
    Owner = main
    NoTask = nothing
    Threads <- ThreeThreads
    Count = 2
    Atoms <- MCAtoms
    Plans <- MCPlans
    TypeOf <- MCTypeOf
    MaxRetries = 1
    MaxManagers = 1
INVARIANTS
    ManagerExclusive
    NoManagerLeaked
    WavesInOrder
    NeverStuck
PROPERTIES
    DispatchReturns
