SPECIFICATION FairSpec
CONSTANTS
    GPUs = {0}
    Profiles = {"small", "big"}
    Ids = {1, 2}
    Geometries <- TwoSlices
    Specs <- SmallOrBig
    MaxPlans = 1
    MaxPods = 2
    MaxFaults = 1
    MaxCrashes = 0
    PluginLag = TRUE
PROPERTY StatusConverges
PROPERTY QueuedIsServed
