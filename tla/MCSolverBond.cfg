\* Two solvers share the contract's tokens.
SPECIFICATION BondSpec
CONSTANTS
    Solvers = {s1, s2}
    StartTime = 3
    MaxTime = 5
    Supply = 2
    Amounts = {0, 1, 2}
    WithdrawalDelay = 1
    SlashWindow = 0
    MaxSlashes = 1
    BaseReputation = 50
    MinAttempts = 1
    DecayPeriod = 0
    UserBps = 5000
    TreasuryBps = 4000
    InitialMinimumBond = 1
    MinimumBonds = {2}
    MinimumBondDelay = 1
    MaxSlashEvents = 2
    MaxAttempts = 0
SYMMETRY SolverSymmetry
INVARIANTS BondTypeOK BondBacked NothingStrandedBeforeBlacklist SlashesAccounted TokensConserved
PROPERTIES SlashBeforeWithdraw BlacklistIsPermanent
