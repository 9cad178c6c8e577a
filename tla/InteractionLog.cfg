\* Two runs of two records, two crashes.
SPECIFICATION Spec
CONSTANTS
    Runs = {r1, r2}
    MaxWrites = 2
    MaxCrashes = 2
\* Nothing is left to do when every run has written its records.
CHECK_DEADLOCK FALSE
INVARIANTS
    TypeOK
    RunInOrder
    BufferIsOnFile
PROPERTIES
    ImplementsAuditLog
    AppendOnly
