SPECIFICATION FairSpec
CONSTANTS
    Slices <- TwoGpus
    Sharings <- SmallOrBig
    MaxChanges = 1
    MaxPods = 1
    MaxFaults = 1
    MaxRestarts = 1
INVARIANT CountsOnce
PROPERTY ShowsSlices
