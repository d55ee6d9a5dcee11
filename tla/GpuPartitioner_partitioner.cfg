SPECIFICATION FairSpec
CONSTANTS
    MigProfiles = {"1g", "2g"}
    Allowed <- With2g
    Sensitive = {}
    Nodes = {"n1", "n2"}
    Pods = {1, 2, 3}
    Request <- BothAnd2g
    Priority <- FirstIsHigh
    Created <- AgeIsNumber
    Jobs = {2}
    Pinned <- LastIsPinned
    Preemption = TRUE
    GpuCount = 1
    MaxFaults = 1
PROPERTY FirstIsServed
PROPERTY TaintsGo
PROPERTY EvictsBehindTaint
CHECK_DEADLOCK FALSE
