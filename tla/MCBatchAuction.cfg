\* One batch, two solvers with equal bonds, solutions of equal and of different score, graded solvers.
SPECIFICATION AuctionSpec
CONSTANTS
    Solvers = {s1, s2}
    NoSolver = zero
    Batches = {b1}
    CloseAt = 3
    CloseTime <- MCCloseTime
    StartTime = 2
    MaxTime = 4
    SolutionWindow = 1
    AuctionResolution = 0
    Plans = {p}
    Surpluses = {0, 1}
    Fees = {9999}
    AdminSlashes = {}
    MaxSolutions = 2
    SurplusWeight = 1
    FeeWeight = 1
    ReputationWeight = 1
    MaxU256 = 100
    Supply = 1
    Amounts = {1}
    WithdrawalDelay = 0
    SlashWindow = 0
    MaxSlashes = 1
    BaseReputation = 1
    MinAttempts = 1
    DecayPeriod = 9
    UserBps = 5000
    TreasuryBps = 4000
    InitialMinimumBond = 1
    MinimumBonds = {}
    MinimumBondDelay = 1
    MaxSlashEvents = 0
    MaxAttempts = 1
SYMMETRY SolverSymmetry
INVARIANTS WinnerCompeted
PROPERTY DecisionIsFinal
