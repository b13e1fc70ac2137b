CONSTANTS
    nova = nova
    subwallet = subwallet
    shared = shared
    own = own
    Wallets = {nova, subwallet}
    AccountsOf <- MCAccountsOf
    None = None
    Calls = {1, 2}
    MaxConnected = 3
SPECIFICATION Spec
INVARIANTS PreviousWalletDisconnected
