\* One date, one restart; every call costs at most its estimate.
SPECIFICATION Spec
CONSTANTS
    Calls = {c1, c2, c3}
    Budget = 3
    CallCap = 2
    Estimates = {2}
    Costs = {0, 1}
    FailureBills = {0}
    MaxDay = 0
    MaxRestarts = 1
\* A process has nothing to do once every call has ended and midnight is past.
CHECK_DEADLOCK FALSE
INVARIANTS
    DailyBillWithinBudget
