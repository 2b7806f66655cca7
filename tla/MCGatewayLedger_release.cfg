\* Two orders of one account, one request at a time: no overtaking is needed.
SPECIFICATION LedgerSpec
CONSTANTS
    i1 = i1
    i2 = i2
    user = user
    asset = asset
    Intents = {i1, i2}
    UserOf <- MCUser
    NonceOf <- MCNonce
    AssetOf <- MCAsset
    AmountOf <- MCAmount
    TxHashes = {tx}
    NoTx = null
    Handlers = {h1}
    LastWindow = 1
PROPERTY SettlementReleasesOnce
