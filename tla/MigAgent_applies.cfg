SPECIFICATION FairSpec
CONSTANTS
    GPUs = {0}
    Profiles = {"small", "big"}
    Ids = {1, 2}
    Geometries <- TwoSlices
    Specs <- FullGpus
    MaxPlans = 2
    MaxPods = 1
    MaxFaults = 0
    MaxCrashes = 1
    PluginLag = FALSE
PROPERTY StatusConverges
PROPERTY AppliesSpecOnce
PROPERTY FailedApplyRestores
