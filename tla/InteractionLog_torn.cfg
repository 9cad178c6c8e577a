\* One crash, or none: a write that stops part way is enough.
SPECIFICATION Spec
CONSTANTS
    Runs = {r1, r2}
    MaxWrites = 2
    MaxCrashes = 1
CHECK_DEADLOCK FALSE
INVARIANTS
    AckedIsReadable
