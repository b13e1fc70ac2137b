CONSTANTS
    alice = alice
    bob = bob
    Accounts = {alice, bob}
    PalletAccount = treasury
    MaxCollectionId = 2
    MaxItemId = 1
    MaxNfts = 2
    MaxMetadata = 256
    Metadata = {9}
    Prices = {0}
    MinimumBalance = 1
    InitialBalance <- MCBalance
    Amounts = {}
    StrictMode = TRUE
    NoApi = NoApi
    Me = alice
    Artist = bob
    Users = {alice, bob}
    MaxCalls = 2
    MaxClicks = 1
SPECIFICATION DashboardSpec
INVARIANTS ShowsWhatIKept ShowsOnlyMine ConnectionShown
PROPERTIES DashboardLoadingEnds
CHECK_DEADLOCK FALSE
