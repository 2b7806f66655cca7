\* Windows 4..5, 6..7 and 8..9; i1 expires in the last one, i3 as the second opens.
SPECIFICATION RegistrySpec
CONSTANTS
    i1 = i1
    i2 = i2
    i3 = i3
    u1 = u1
    u2 = u2
    a1 = a1
    a2 = a2
    Assets = {a1, a2}
    Intents = {i1, i2, i3}
    IntentUser <- MCUser
    IntentNonce <- MCNonce
    AssetIn <- MCAssetIn
    AssetOut <- MCAssetOut
    Deadline <- MCDeadline
    StartTime = 5
    MaxTime = 9
    Genesis = 4
    BatchWindow = 2
    BatchIds = {0, 1, 2}
INVARIANTS NonceAdmitsOneIntent CommittedIntentsAreListedOnce PendingCanAlwaysEnd
PROPERTIES ClosedBatchIsFrozen LifecycleSpec
