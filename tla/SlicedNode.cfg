CONSTANTS
    Profiles = {1, 2, 3}
    MemoryGB = 4
    GpuCount = 2
    MaxCalls = 2
    Requests <- MCRequests
SPECIFICATION Spec
INVARIANTS
    MemoryRespected
    UnchangedUnlessUpdated
    AddPodKeepsGeometry
PROPERTY NewSizesStay
CHECK_DEADLOCK FALSE
