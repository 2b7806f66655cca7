\* One window, nothing fails but one bid that cannot be scored.
SPECIFICATION PipelineSpec
CONSTANTS
    Genesis = 2
    BatchWindow = 6
    AuctionWait = 4
    MaxDelay = 1
    MaxFaults = 1
    LastBatch = 0
    SolutionWindow = 4
    AuctionResolution = 2
    InclusionTime = 1
    MaxLag = 0
    MaxTime = 16
INVARIANT SpoiledEndsToo
CHECK_DEADLOCK FALSE
