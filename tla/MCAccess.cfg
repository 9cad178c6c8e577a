\* Two tenants, two worlds, two dates, two principals.
SPECIFICATION Spec
CONSTANTS
    Categories = {"meals", "software"}
    AddendumCaps = {"meals"}
    Start = 0
    Switch = 1
    WalkBound = 2
    BatchSize = 2
    Worlds <- MCWorlds
    BadRows = {"none", "role", "scope"}
    Toggles <- MCToggles
    Filings <- MCFilings
    Askers <- MCAskers
    Probed <- MCProbed
    Days = {0, 1}
    K = 5
\* A world that cannot be built ends.
CHECK_DEADLOCK FALSE
INVARIANTS
    TypeOK
    LocalAgreesWithModel
    RaisesOnlyOnCycles
    SeedFollowsRows
    ReportingLineViews
    BlankScopeUnread
    CapIsRetrievable
    OneVersionOneTenant
    PartialFilingDenies
PROPERTIES
    ListingIsExact
    RetryAfterPartIsRejected
