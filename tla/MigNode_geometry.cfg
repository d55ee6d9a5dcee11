SPECIFICATION NodeSpec
CONSTANTS
    MigProfiles = {"1g", "2g", "3g"}
    Allowed <- A100
    Sensitive <- A100Sensitive
    GpuCount = 2
    Requests <- SmallRequests
    Gaps = FALSE
INVARIANT NodeTypeOK
INVARIANT SpecKeepsUsed
INVARIANT SpecIsAllowed
INVARIANT InitCoversEveryGpu
INVARIANT ReleasesNoMore
PROPERTY UpdatesIffUseful
CHECK_DEADLOCK FALSE
