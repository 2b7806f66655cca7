\* Equal scores with different fees, equal solutions, solutions worth nothing and
\* a score that does not fit, which ends the loop in a panic.
SPECIFICATION ScanSpec
CONSTANTS
    Solvers = {s1, s2}
    NoSolver = zero
    SurplusWeight = 1
    FeeWeight = 1
    ReputationWeight = 1
    MaxU256 = 2
    Surpluses = {0, 1}
    Fees = {9999, 10000}
    Times = {1, 2}
    SolutionLists <- MCSolutionLists
    Reputations <- MCReputations
INVARIANTS ScanInv ScanFindsWinner
CHECK_DEADLOCK FALSE
