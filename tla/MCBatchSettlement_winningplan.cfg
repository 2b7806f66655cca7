\* A solver commits to two plans and wins with the second.
SPECIFICATION SettlementSpec
CONSTANTS
    i1 = i1
    i2 = i2
    user = user
    asset = asset
    full = full
    half = half
    Intents = {i1, i2}
    IntentUser <- MCUser
    IntentNonce <- MCNonce
    AssetIn <- MCAsset
    AssetOut <- MCAsset
    Assets = {asset}
    DeadlineFirst = 4
    DeadlineSecond = 6
    Deadline <- MCDeadline
    MinOutput <- MCMinOutput
    Gives <- MCGives
    Plans = {full, half}
    StartTime = 2
    MaxTime = 5
    Genesis = 1
    BatchWindow = 2
    BatchIds = {0, 1, 2}
    Batches = {0}
    CloseFirst = 3
    CloseTime <- MCCloseTime
    SolutionWindow = 1
    AuctionResolution = 1
    Solvers = {s1}
    NoSolver = zero
    Surpluses = {0, 1}
    Fees = {9999}
    AdminSlashes = {}
    MaxSolutions = 2
    SurplusWeight = 1
    FeeWeight = 1
    ReputationWeight = 1
    MaxU256 = 1000
    Supply = 2
    Amounts = {2}
    WithdrawalDelay = 1
    SlashWindow = 0
    MaxSlashes = 1
    BaseReputation = 100
    MinAttempts = 1
    DecayPeriod = 9
    UserBps = 5000
    TreasuryBps = 4000
    InitialMinimumBond = 1
    MinimumBonds = {}
    MinimumBondDelay = 1
    MaxSlashEvents = 1
    MaxAttempts = 3
    ConstraintBps = 5000
    MismatchBps = 5000
INVARIANT WinningPlanExecuted
