SPECIFICATION NodeSpec
CONSTANTS
    MigProfiles = {"1g", "2g", "4g"}
    Allowed <- A30
    Sensitive = {}
    GpuCount = 2
    Requests <- SmallRequests
    Gaps = TRUE
INVARIANT EveryGpuIncluded
CHECK_DEADLOCK FALSE
