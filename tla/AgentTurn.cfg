SPECIFICATION FairSpec
CONSTANTS
    MaxIterations = 3
    MaxEmptyRounds = 3
    MaxEmptyRetries = 1
    MaxToolCalls = 2
    MaxBatch = 2
    MaxTurnTokens = 9
    InitialTokens = {2, 9}
    t1 = t1
    t2 = t2
    Tenants <- MCTenants
    Budget <- MCBudget
    MaxForeignSpend = 1
INVARIANTS
    TypeOK
    
    UnansweredOnlyIfCut
PROPERTIES
    CallsKept
    TurnEnds
CHECK_DEADLOCK FALSE
