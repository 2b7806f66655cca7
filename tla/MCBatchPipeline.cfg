\* Two windows, two faults, blocks dated up to one unit late.
SPECIFICATION PipelineSpec
CONSTANTS
    Genesis = 2
    BatchWindow = 6
    AuctionWait = 4
    MaxDelay = 1
    MaxFaults = 2
    LastBatch = 1
    SolutionWindow = 4
    AuctionResolution = 2
    InclusionTime = 1
    MaxLag = 1
    MaxTime = 21
INVARIANTS EndsInTime
PROPERTIES OpenedOnce BatchLifecycleSpec
CHECK_DEADLOCK FALSE
