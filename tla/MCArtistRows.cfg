CONSTANTS
    alice = alice
    bob = bob
    Accounts = {alice, bob}
    PalletAccount = treasury
    MaxCollectionId = 2
    MaxItemId = 1
    MaxNfts = 2
    MaxMetadata = 256
    Metadata = {9}
    Prices = {0}
    MinimumBalance = 1
    InitialBalance <- MCBalance
    Amounts = {}
    Me = alice
    None = None
    Studio = {0, 1}
    Txs = {1}
    Loads = {1, 2}
    QueriesFail = FALSE
    MaxOtherCalls = 0
    MaxClicks = 1
SPECIFICATION StudioSpec
INVARIANTS RowsOfSelectedCollection
CHECK_DEADLOCK FALSE
