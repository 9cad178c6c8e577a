\* One run; the first document's rule under another document's id.
SPECIFICATION Spec
CONSTANTS
    r1 = r1
    r2 = r2
    g1 = g1
    a1 = a1
    g2 = g2
    meals = meals
    taxi = taxi
    Runs = {r1}
    Documents = {g1, a1, g2}
    Rules = {meals, taxi}
    Searchable <- MCSearchable
    K = 1
    Replies <- MCReplies
    Budget = 1
    CallCap = 1
    Estimates = {1, 2}
    Costs = {1}
    FailureBills = {0}
    MaxDay = 0
    MaxRestarts = 0
\* A process has nothing to do once every run has ended.
CHECK_DEADLOCK FALSE
INVARIANTS
    CitationsResolve
