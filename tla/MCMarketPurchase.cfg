CONSTANTS
    alice = alice
    bob = bob
    Accounts = {alice, bob}
    PalletAccount = treasury
    MaxCollectionId = 0
    MaxItemId = 2
    MaxNfts = 2
    MaxMetadata = 256
    Metadata = {9}
    Prices = {3, 4}
    MinimumBalance = 1
    InitialBalance <- MCBalance
    Amounts = {}
    Me = bob
    Artist = alice
    Listed <- OneListed
    Loads = {1}
    Mints = {1, 2}
    QueriesFail = FALSE
    MaxOtherCalls = 2
    MaxReactions = 0
SPECIFICATION MarketSpec
INVARIANTS PaidOnce
PROPERTIES PaysPriceOfClick
CHECK_DEADLOCK FALSE
