CONSTANTS
    alice = alice
    bob = bob
    Accounts = {alice, bob}
    PalletAccount = treasury
    MaxCollectionId = 1
    MaxItemId = 1
    MaxNfts = 2
    MaxMetadata = 256
    Metadata = {9, 257}
    Prices = {102}
    MinimumBalance = 2
    InitialBalance <- AliceRich
    Amounts = {204}
SPECIFICATION Spec
INVARIANTS TypeOK IdsBelowCounters ListMatchesStorage ListedOnce TreasuryCoversFees ProceedsAreSpendable
PROPERTIES CollectionIdsUsedOnce OrphansPersist ImplementsRegistry
CHECK_DEADLOCK FALSE
