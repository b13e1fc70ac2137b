CONSTANTS
    alice = alice
    bob = bob
    Accounts = {alice, bob}
    PalletAccount = treasury
    MaxCollectionId = 0
    MaxItemId = 1
    MaxNfts = 2
    MaxMetadata = 256
    Metadata = {9}
    Prices = {3, 4}
    MinimumBalance = 1
    InitialBalance <- MCBalance
    Amounts = {}
    Me = bob
    Artist = alice
    Listed <- OneListed
    Loads = {1}
    Mints = {1}
    QueriesFail = FALSE
    MaxOtherCalls = 0
    MaxReactions = 1
SPECIFICATION MarketSpec
INVARIANTS MintOnlyIfEngaged
CHECK_DEADLOCK FALSE
