SPECIFICATION Spec
CONSTANTS
    GPUs = {0}
    Profiles = {"small", "big"}
    Ids = {1, 2}
    Geometries <- TwoSlices
    Specs <- FullGpus
    MaxPlans = 2
    MaxPods = 1
    MaxFaults = 1
    MaxCrashes = 0
    PluginLag = FALSE
INVARIANT TypeOK
INVARIANT SharedStateInv
PROPERTY ReportIsConsistent
PROPERTY UsedWhenListedSurvives
PROPERTY KeepsContract
