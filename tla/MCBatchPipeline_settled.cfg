\* One window, nothing fails, blocks bear the time they are made at.
SPECIFICATION PipelineSpec
CONSTANTS
    Genesis = 2
    BatchWindow = 6
    AuctionWait = 4
    MaxDelay = 1
    MaxFaults = 0
    LastBatch = 0
    SolutionWindow = 4
    AuctionResolution = 2
    InclusionTime = 1
    MaxLag = 0
    MaxTime = 16
PROPERTIES WonIsSettled
CHECK_DEADLOCK FALSE
