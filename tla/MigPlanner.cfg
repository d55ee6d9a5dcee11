SPECIFICATION Spec
CONSTANTS
    GPUs = {0, 1}
    Profiles = {"small", "big"}
    Ids = {1, 2, 3}
    MaxQuantity = 2
INVARIANT PlanReachesSpec
INVARIANT DeletesOnce
INVARIANT UsedOnlyIfForced
INVARIANT SettledGpuUntouched
INVARIANT ClearsBeforeCreate
INVARIANT EmptyIffMatches
CHECK_DEADLOCK FALSE
