\* Two orders, one batch that closes, two broadcasts that can wait, queues of one entry,
\* one break.  Once both orders are over and the batch is dealt with nothing is left to do.
SPECIFICATION SolverSpec
CONSTANTS
    Intents = {1, 2}
    Capacity = 2
    WireSize = 1
    QueueSize = 1
    LastBatch = 0
    MaxBreaks = 1
    Amount <- MCAmount
    MinOutput <- MCMinOutput
    Inventory <- MCInventory
    Prices = {10, 25}
    PriceUnit = 10
    MaxU128 = 45
    PageLimit = 1
INVARIANTS NoOrderForgotten
PROPERTIES BidPaysEveryOrder AnnouncedReachesSolver
CHECK_DEADLOCK FALSE
