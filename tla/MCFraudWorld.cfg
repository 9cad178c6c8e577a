\* Two honest claims, every one a target; two ids for each.
SPECIFICATION Spec
CONSTANTS
    Users <- MCUsers
    Vendors <- MCVendors
    Grades <- MCGrades
    Amounts <- MCAmounts
    Days = {0, 35}
    MonthLength = 30
    SubmissionLags = {1, 40}
    Hours = {10}
    MaxClaims = 2
    BaseRate = 100
    Ceiling = 12
    Stride = 2
    Threshold = 12
    Weights = {100}
    SplitShifts = {0}
    SplitLags = {1}
    Gaps = {30}
    ResubmitLags = {1}
    Jitters = {98}
    Paddings = {130}
    GhostFactors = {200}
    FineGrid = 5
    CoarseGrid = 20
    CoarseAbove = 30
    DinnerFactors = {110}
    DinnerLags = {1}
    CleanLags = {2}
    AuditLags = {21}
    InjectionRate = 50
    AsOfs = {240, 1000}
\* The world is generated once.
CHECK_DEADLOCK FALSE
INVARIANTS
    TypeOK
    LabelledInPlace
    LegsUnderLimit
    SignalsReachFeatures
    TaintedIffLabelled
    FeaturesAreCausal
    TrainingIsHonest
