CONSTANTS
    alice = alice
    bob = bob
    Accounts = {alice, bob}
    PalletAccount = treasury
    MaxCollectionId = 1
    MaxItemId = 1
    MaxNfts = 2
    MaxMetadata = 256
    Metadata = {9}
    Prices = {0}
    MinimumBalance = 1
    InitialBalance <- MCBalance
    Amounts = {110}
    Me = alice
    None = None
    Studio = {0}
    Txs = {1, 2}
    Loads = {1}
    QueriesFail = TRUE
    MaxOtherCalls = 1
    MaxClicks = 2
SPECIFICATION ArtistSpec
INVARIANTS FeePaidOnce BurnedOnce RegisteredOnChain
PROPERTIES ButtonsComeBack
CHECK_DEADLOCK FALSE
