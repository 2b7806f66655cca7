\* Two orders of one account, two requests at a time, one batch that is over.
SPECIFICATION LedgerSpec
CONSTANTS
    i1 = i1
    i2 = i2
    user = user
    asset = asset
    Intents = {i1, i2}
    UserOf <- MCUser
    NonceOf <- MCNonce
    AssetOf <- MCAsset
    AmountOf <- MCAmount
    TxHashes = {tx}
    NoTx = null
    Handlers = {h1, h2}
    LastWindow = 1
SYMMETRY HandlerSymmetry
INVARIANTS LedgerTypeOK NoHoldWithoutOrder OnlyCommittedReachSolvers AuctionedInClosedBatch
