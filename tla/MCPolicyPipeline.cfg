\* Two runs; the budget holds one call; one restart; every thread keeps running.
SPECIFICATION FairSpec
CONSTANTS
    r1 = r1
    r2 = r2
    g1 = g1
    a1 = a1
    g2 = g2
    meals = meals
    taxi = taxi
    Runs = {r1, r2}
    Documents = {g1, a1, g2}
    Rules = {meals, taxi}
    Searchable <- MCSearchable
    K = 1
    Replies <- MCReplies
    Budget = 1
    CallCap = 1
    Estimates = {1, 2}
    Costs = {1}
    FailureBills = {0}
    MaxDay = 1
    MaxRestarts = 1
\* The store stays as it is and every run has ended.
CHECK_DEADLOCK FALSE
INVARIANTS
    TypeOK
    OrderNotNegotiable
    SentIsExplained
    OutcomeMatchesGateway
    GroundedInPermitted
PROPERTIES
    ImplementsService
    EveryRunEnds
