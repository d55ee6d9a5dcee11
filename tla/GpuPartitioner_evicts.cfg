SPECIFICATION Spec
CONSTANTS
    MigProfiles = {"big", "small"}
    Allowed <- BigOrSmall
    Sensitive = {}
    Nodes = {"n1", "n2"}
    Pods = {1, 2}
    Request <- BigAndSmall
    Priority <- FirstIsHigh
    Created <- AgeIsNumber
    Jobs = {}
    Pinned <- NoneIsPinned
    Preemption = TRUE
    GpuCount = 1
    MaxFaults = 0
PROPERTY EvictsOnlyIfNeeded
CHECK_DEADLOCK FALSE
