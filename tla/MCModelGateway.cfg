\* Three calls, two dates, one restart.
SPECIFICATION Spec
CONSTANTS
    Calls = {c1, c2, c3}
    Budget = 3
    CallCap = 2
    Estimates = {1, 2, 3}
    Costs = {0, 1, 3}
    FailureBills = {0, 1}
    MaxDay = 1
    MaxRestarts = 1
SYMMETRY Symmetry
\* The run of a process ends when every call has ended and midnight is past.
CHECK_DEADLOCK FALSE
INVARIANTS
    TypeOK
    LedgerIdentity
    DailyCap
PROPERTIES
    RefusalJustified
