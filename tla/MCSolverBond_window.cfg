\* One solver; checks one statement of the documents.
SPECIFICATION BondSpec
CONSTANTS
    Solvers = {s1}
    StartTime = 3
    MaxTime = 8
    Supply = 3
    Amounts = {1, 3}
    WithdrawalDelay = 2
    SlashWindow = 1
    MaxSlashes = 1
    BaseReputation = 50
    MinAttempts = 2
    DecayPeriod = 0
    UserBps = 5000
    TreasuryBps = 4000
    InitialMinimumBond = 1
    MinimumBonds = {2}
    MinimumBondDelay = 1
    MaxSlashEvents = 3
    MaxAttempts = 0
PROPERTY BlacklistNeedsRecentSlashes
