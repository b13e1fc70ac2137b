CONSTANTS
    nova = nova
    subwallet = subwallet
    shared = shared
    own = own
    Wallets = {nova, subwallet}
    AccountsOf <- MCAccountsOf
    None = None
    Calls = {1, 2}
    MaxConnected = 3
SPECIFICATION FairSpec
INVARIANTS TypeOK OffersSelectedWallet SignerSignsForAccount IdleMeansNotConnecting
PROPERTIES ConnectingEnds
CHECK_DEADLOCK FALSE
