--------------------------- MODULE TemplatePallet ---------------------------
(***************************************************************************)
(* The NFT pallet, pallets/template/src/lib.rs: artists register for a     *)
(* fee, create collections, create NFTs in them, and NFTs are given away,  *)
(* burned or sold ("minted") once.                                         *)
(*                                                                         *)
(* The chain runs the dispatched calls one after the other.  Each call is  *)
(* an operator <call>_result, the first error of its checks in the order   *)
(* of the code, or "Ok", and an action <call> that is enabled when the     *)
(* result is "Ok" and makes all the writes of the call.  FRAME wraps every *)
(* dispatch in a storage layer: a call that returns an error, even after   *)
(* it has written to storage, leaves no trace, so a rejected call is a     *)
(* stuttering step.                                                        *)
(***************************************************************************)
EXTENDS Naturals, FiniteSets, Functions

CONSTANTS
    Accounts,         \* accounts with a key: the ones that sign extrinsics
    PalletAccount,    \* PalletId.into_account_truncating(): has no key
    MaxCollectionId,  \* u32::MAX as a CollectionId
    MaxItemId,        \* u32::MAX as an ItemId
    MaxNfts,          \* ConstU32<256>, the bound of Collection.nfts
    MaxMetadata,      \* ConstU32<256>, the bound of the metadata vectors
    Metadata,         \* metadata arguments, each abstracted to its length
    Prices,           \* prices an NFT may be created with
    MinimumBalance,   \* the existential deposit
    InitialBalance,   \* free balances at genesis
    Amounts           \* amounts of plain balance transfers

AllAccounts == Accounts \cup {PalletAccount}
CollectionId == 0 .. MaxCollectionId
ItemId == 0 .. MaxItemId

ASSUME AccountsAssumption == IsFiniteSet(Accounts) /\ PalletAccount \notin Accounts
ASSUME BoundsAssumption == /\ MaxCollectionId \in Nat
                           /\ MaxItemId \in Nat
                           /\ MaxNfts \in Nat
                           /\ MaxMetadata \in Nat
ASSUME InputsAssumption == Metadata \subseteq Nat /\ Prices \subseteq Nat /\ Amounts \subseteq Nat
ASSUME BalanceAssumption == /\ MinimumBalance \in Nat
                            /\ InitialBalance \in [AllAccounts -> Nat]

VARIABLES
    Artists,           \* keys of StorageMap Artists (the value is always true)
    Collections,       \* StorageMap CollectionId -> Collection
    Nfts,              \* StorageDoubleMap <<CollectionId, ItemId>> -> NFT
    NextItemId,        \* StorageMap CollectionId -> ItemId, default 0
    NextCollectionId,  \* StorageValue CollectionId, default 0
    balance            \* free balance of every account (pallet_balances)

vars == <<Artists, Collections, Nfts, NextItemId, NextCollectionId, balance>>

NFT == [owner : AllAccounts, metadata : 0 .. MaxMetadata, is_sold : BOOLEAN, price : Prices]

(***************************************************************************)
(* Collection.nfts is a BoundedVec of item ids.  Its order is never read   *)
(* (try_push appends, retain filters, nothing indexes it), so it is a bag: *)
(* how many times each item id is in the vector.                           *)
(***************************************************************************)
Collection == [creator : Accounts, metadata : 0 .. MaxMetadata, nfts : [ItemId -> Nat]]

NftKey == CollectionId \X ItemId

NoNfts == [i \in ItemId |-> 0]
Length(nfts) == SumFunction(nfts)
Push(nfts, item) == [nfts EXCEPT ![item] = @ + 1]
\* Mutant: retain is forgotten.
WithoutNothing(nfts, item) == nfts
Without(nfts, item) == [nfts EXCEPT ![item] = 0]

\* StorageMap::insert and StorageMap::remove.
Insert(map, key, value) == [k \in DOMAIN map \cup {key} |-> IF k = key THEN value ELSE map[k]]
Remove(map, key) == [k \in DOMAIN map \ {key} |-> map[k]]

\* Mutant: wrapping_add(1).
WrappingSucc(id, max) == (id + 1) % (max + 1)

\* u32::saturating_add(1).
SaturatingSucc(id, max) == IF id < max THEN id + 1 ELSE max

------------------------------------------------------------------------------
(***************************************************************************)
(* pallet_balances as the runtime configures it: an account holds nothing  *)
(* or at least the existential deposit, and a remainder below it is burned *)
(* (DustRemoval = ()).  A transfer of nothing or to oneself is Ok and does *)
(* nothing.                                                                *)
(***************************************************************************)
CanTransfer(from, to, amount) ==
    \/ amount = 0
    \/ from = to
    \/ amount <= balance[from] /\ balance[to] + amount >= MinimumBalance

CanTransferKeepAlive(from, to, amount) ==
    /\ CanTransfer(from, to, amount)
    /\ amount = 0 \/ from = to \/ balance[from] >= amount + MinimumBalance

Remainder(amount) == IF amount < MinimumBalance THEN 0 ELSE amount

Transfer(from, to, amount) ==
    balance' = IF amount = 0 \/ from = to
               THEN balance
               ELSE [balance EXCEPT ![from] = Remainder(@ - amount), ![to] = @ + amount]

------------------------------------------------------------------------------
(***************************************************************************)
(* The dispatchable calls.                                                 *)
(***************************************************************************)
registration_fee == MinimumBalance * 100

\* Mutant: whoever is registered already may register again.
register_artist_result_again(who) ==
    IF ~CanTransferKeepAlive(who, PalletAccount, registration_fee) THEN "TokenError" ELSE "Ok"

register_artist_result(who) ==
    IF who \in Artists THEN "AlreadyRegistered"
    ELSE IF ~CanTransferKeepAlive(who, PalletAccount, registration_fee) THEN "TokenError"
    ELSE "Ok"

\* Mutant: the artist is registered and the fee is not taken.
register_artist_free(who) ==
    /\ register_artist_result(who) = "Ok"
    /\ Artists' = Artists \cup {who}
    /\ UNCHANGED <<Collections, Nfts, NextItemId, NextCollectionId, balance>>

register_artist(who) ==
    /\ register_artist_result(who) = "Ok"
    /\ Transfer(who, PalletAccount, registration_fee)
    /\ Artists' = Artists \cup {who}
    /\ UNCHANGED <<Collections, Nfts, NextItemId, NextCollectionId>>

\* Mutant: the metadata is stored whatever its length.
create_collection_result_unbounded(creator, metadata) ==
    IF creator \notin Artists THEN "NotRegisteredArtist" ELSE "Ok"

create_collection_result(creator, metadata) ==
    IF creator \notin Artists THEN "NotRegisteredArtist"
    ELSE IF metadata > MaxMetadata THEN "MetadataInvalid"
    ELSE "Ok"

\* Mutant: the id is the number of collections there are.
create_collection_by_count(creator, metadata) ==
    /\ create_collection_result(creator, metadata) = "Ok"
    /\ Collections' = Insert(Collections, Cardinality(DOMAIN Collections),
                             [creator |-> creator, metadata |-> metadata, nfts |-> NoNfts])
    /\ NextCollectionId' = SaturatingSucc(NextCollectionId, MaxCollectionId)
    /\ UNCHANGED <<Artists, Nfts, NextItemId, balance>>

create_collection(creator, metadata) ==
    /\ create_collection_result(creator, metadata) = "Ok"
    /\ Collections' = Insert(Collections, NextCollectionId,
                             [creator |-> creator, metadata |-> metadata, nfts |-> NoNfts])
    /\ NextCollectionId' = SaturatingSucc(NextCollectionId, MaxCollectionId)
    /\ UNCHANGED <<Artists, Nfts, NextItemId, balance>>

delete_collection_result(who, c) ==
    IF c \notin DOMAIN Collections THEN "CollectionNotFound"
    ELSE IF Collections[c].creator # who THEN "NotCollectionOwner"
    ELSE "Ok"

\* Mutant: NextItemId is reset with the collection.
delete_collection_resets_counter(who, c) ==
    /\ delete_collection_result(who, c) = "Ok"
    /\ Collections' = Remove(Collections, c)
    /\ NextItemId' = [NextItemId EXCEPT ![c] = 0]
    /\ UNCHANGED <<Artists, Nfts, NextCollectionId, balance>>

\* The NFTs of the collection and its NextItemId stay in storage.
delete_collection(who, c) ==
    /\ delete_collection_result(who, c) = "Ok"
    /\ Collections' = Remove(Collections, c)
    /\ UNCHANGED <<Artists, Nfts, NextItemId, NextCollectionId, balance>>

\* A full vector makes try_push fail, which is reported as CollectionNotFound.
create_nft_result(sender, c, metadata, price) ==
    IF c \notin DOMAIN Collections THEN "CollectionNotFound"
    ELSE IF metadata > MaxMetadata THEN "MetadataInvalid"
    ELSE IF Length(Collections[c].nfts) >= MaxNfts THEN "CollectionNotFound"
    ELSE "Ok"

create_nft(sender, c, metadata, price) ==
    LET item_id == NextItemId[c] IN
    /\ create_nft_result(sender, c, metadata, price) = "Ok"
    /\ Nfts' = Insert(Nfts, <<c, item_id>>,
                      [owner |-> sender, metadata |-> metadata, is_sold |-> FALSE, price |-> price])
    /\ Collections' = [Collections EXCEPT ![c].nfts = Push(@, item_id)]
    /\ NextItemId' = [NextItemId EXCEPT ![c] = SaturatingSucc(item_id, MaxItemId)]
    /\ UNCHANGED <<Artists, NextCollectionId, balance>>

transfer_nft_result(sender, key, to) ==
    IF key \notin DOMAIN Nfts THEN "NFTNotFound"
    ELSE IF Nfts[key].owner # sender THEN "NotNFTOwner"
    ELSE "Ok"

\* Mutant: the gift stays on the market.
transfer_nft_still_on_sale(sender, key, to) ==
    /\ transfer_nft_result(sender, key, to) = "Ok"
    /\ Nfts' = [Nfts EXCEPT ![key].owner = to]
    /\ UNCHANGED <<Artists, Collections, NextItemId, NextCollectionId, balance>>

transfer_nft(sender, key, to) ==
    /\ transfer_nft_result(sender, key, to) = "Ok"
    /\ Nfts' = [Nfts EXCEPT ![key] = [@ EXCEPT !.owner = to, !.is_sold = TRUE]]
    /\ UNCHANGED <<Artists, Collections, NextItemId, NextCollectionId, balance>>

\* Mutant: the removal is not rolled back.
burn_nft_result_no_rollback(sender, key) ==
    IF key \notin DOMAIN Nfts THEN "NFTNotFound"
    ELSE IF Nfts[key].owner # sender THEN "NotNFTOwner"
    ELSE IF Nfts[key].is_sold THEN "NFTAlreadySold"
    ELSE "Ok"

\* The NFT is removed before the collection is looked up; when the collection
\* has been deleted the error rolls the removal back.
burn_nft_result(sender, key) ==
    IF key \notin DOMAIN Nfts THEN "NFTNotFound"
    ELSE IF Nfts[key].owner # sender THEN "NotNFTOwner"
    ELSE IF Nfts[key].is_sold THEN "NFTAlreadySold"
    ELSE IF key[1] \notin DOMAIN Collections THEN "CollectionNotFound"
    ELSE "Ok"

\* Mutant: burning the newest NFT gives its id back.
burn_nft_frees_id(sender, key) ==
    /\ burn_nft_result(sender, key) = "Ok"
    /\ Nfts' = Remove(Nfts, key)
    /\ Collections' = [Collections EXCEPT ![key[1]].nfts = Without(@, key[2])]
    /\ NextItemId' = [NextItemId EXCEPT ![key[1]] = IF @ = key[2] + 1 THEN key[2] ELSE @]
    /\ UNCHANGED <<Artists, NextCollectionId, balance>>

burn_nft(sender, key) ==
    /\ burn_nft_result(sender, key) = "Ok"
    /\ Nfts' = Remove(Nfts, key)
    /\ Collections' = [Collections EXCEPT ![key[1]].nfts = Without(@, key[2])]
    /\ UNCHANGED <<Artists, NextItemId, NextCollectionId, balance>>

\* Mutant: an NFT can be bought again.
mint_nft_result_resale(buyer, key) ==
    IF key \notin DOMAIN Nfts THEN "NFTNotFound"
    ELSE IF Nfts[key].owner = buyer THEN "NotNFTOwner"
    ELSE IF ~CanTransferKeepAlive(buyer, Nfts[key].owner, Nfts[key].price) THEN "TokenError"
    ELSE "Ok"

mint_nft_result(buyer, key) ==
    IF key \notin DOMAIN Nfts THEN "NFTNotFound"
    ELSE IF Nfts[key].is_sold THEN "NFTAlreadySold"
    ELSE IF Nfts[key].owner = buyer THEN "NotNFTOwner"
    ELSE IF ~CanTransferKeepAlive(buyer, Nfts[key].owner, Nfts[key].price) THEN "TokenError"
    ELSE "Ok"

mint_nft(buyer, key) ==
    /\ mint_nft_result(buyer, key) = "Ok"
    /\ Transfer(buyer, Nfts[key].owner, Nfts[key].price)
    /\ Nfts' = [Nfts EXCEPT ![key] = [@ EXCEPT !.owner = buyer, !.is_sold = TRUE]]
    /\ UNCHANGED <<Artists, Collections, NextItemId, NextCollectionId>>

\* Balances::transfer_allow_death, the runtime's other way to move funds.
transfer_allow_death(from, to, amount) ==
    /\ CanTransfer(from, to, amount)
    /\ Transfer(from, to, amount)
    /\ UNCHANGED <<Artists, Collections, Nfts, NextItemId, NextCollectionId>>

------------------------------------------------------------------------------
Init ==
    /\ Artists = {}
    /\ Collections = [c \in {} |-> 0]
    /\ Nfts = [k \in {} |-> 0]
    /\ NextItemId = [c \in CollectionId |-> 0]
    /\ NextCollectionId = 0
    /\ balance = InitialBalance

Next ==
    \E who \in Accounts :
        \/ register_artist(who)
        \/ \E m \in Metadata : create_collection(who, m)
        \/ \E c \in CollectionId : delete_collection(who, c)
        \/ \E c \in CollectionId, m \in Metadata, p \in Prices : create_nft(who, c, m, p)
        \/ \E key \in NftKey, to \in AllAccounts : transfer_nft(who, key, to)
        \/ \E key \in NftKey : burn_nft(who, key)
        \/ \E key \in NftKey : mint_nft(who, key)
        \/ \E to \in AllAccounts, amount \in Amounts : transfer_allow_death(who, to, amount)

Spec == Init /\ [][Next]_vars

------------------------------------------------------------------------------
(***************************************************************************)
(* Properties.                                                             *)
(***************************************************************************)
\* Storage holds what its declarations say: bounded metadata, 32-bit ids, owners
\* that are accounts, balances that are never negative.
TypeOK ==
    /\ Artists \subseteq Accounts
    /\ Collections \in [DOMAIN Collections -> Collection]
    /\ DOMAIN Collections \subseteq CollectionId
    /\ Nfts \in [DOMAIN Nfts -> NFT]
    /\ DOMAIN Nfts \subseteq NftKey
    /\ NextItemId \in [CollectionId -> ItemId]
    /\ NextCollectionId \in CollectionId
    /\ balance \in [AllAccounts -> Nat]

(***************************************************************************)
(* The two places that say which NFTs a collection has agree: the ids in   *)
(* the nfts vector of a collection ("List of NFT IDs in the collection")   *)
(* are exactly the item ids stored under it in Nfts.  It rests on ids      *)
(* never being handed out twice, also after burns and deletions, so the    *)
(* one collection id at which the saturating counter stops is excluded.    *)
(***************************************************************************)
ListMatchesStorage ==
    \A c \in DOMAIN Collections \ {MaxCollectionId} : \A i \in ItemId :
        Collections[c].nfts[i] > 0 <=> <<c, i>> \in DOMAIN Nfts

(***************************************************************************)
(* Why ids are never handed out twice: every id in storage is below the    *)
(* counter that hands out the next one, or is the one it stops at.  NFTs   *)
(* of deleted collections included: their NextItemId is never reset.       *)
(***************************************************************************)
IdsBelowCounters ==
    /\ \A c \in DOMAIN Collections :
          /\ c < NextCollectionId \/ c = MaxCollectionId
          /\ \A i \in ItemId : Collections[c].nfts[i] > 0 => i < NextItemId[c] \/ i = MaxItemId
    /\ \A key \in DOMAIN Nfts :
          /\ key[1] < NextCollectionId \/ key[1] = MaxCollectionId
          /\ key[2] < NextItemId[key[1]] \/ key[2] = MaxItemId

\* No id is in the vector twice, as long as the item counter has not stopped.
ListedOnce ==
    \A c \in DOMAIN Collections : \A i \in ItemId \ {MaxItemId} :
        Collections[c].nfts[i] <= 1

(***************************************************************************)
(* Registering always costs the fee: the pallet's account holds the fees   *)
(* of all registered artists, whatever sales and transfers happened since. *)
(***************************************************************************)
TreasuryCoversFees ==
    balance[PalletAccount] >= registration_fee * Cardinality(Artists)

(***************************************************************************)
(* Nobody can sign for the pallet's account, so the proceeds of a sale     *)
(* must never go there: an NFT it was given is off the market.             *)
(***************************************************************************)
ProceedsAreSpendable ==
    \A key \in DOMAIN Nfts : ~Nfts[key].is_sold => Nfts[key].owner \in Accounts

(***************************************************************************)
(* A collection id names one collection for ever: while the id exists its  *)
(* creator is fixed, and once deleted the id never comes back under        *)
(* somebody else's name (below the id at which the counter stops).         *)
(***************************************************************************)
CollectionIdUsedOnce ==
    \A c \in CollectionId \ {MaxCollectionId} :
        c < NextCollectionId /\ c \in DOMAIN Collections' =>
            c \in DOMAIN Collections /\ Collections'[c].creator = Collections[c].creator

CollectionIdsUsedOnce == [][CollectionIdUsedOnce]_vars

(***************************************************************************)
(* Deleting a collection takes nothing from the owners of its NFTs: from   *)
(* then on each of them stays in storage and stays without a collection,   *)
(* because burn_nft of such an NFT fails after it has removed it and is    *)
(* rolled back.                                                            *)
(***************************************************************************)
Orphan(key) == key \in DOMAIN Nfts /\ key[1] \notin DOMAIN Collections

OrphanPersists ==
    \A key \in NftKey : key[1] # MaxCollectionId /\ Orphan(key) => Orphan(key)'

OrphansPersist == [][OrphanPersists]_vars

(***************************************************************************)
(* The pallet implements the life cycle of NftRegistry for every item id   *)
(* below the one at which the item counter stops: such an id that is not   *)
(* in storage was burned when the counter has passed it.                   *)
(***************************************************************************)
RegistryKey == CollectionId \X (ItemId \ {MaxItemId})

TokenOf(key) ==
    IF key \in DOMAIN Nfts
    THEN [state |-> IF Nfts[key].is_sold THEN "given" ELSE "onsale",
          owner |-> Nfts[key].owner, price |-> Nfts[key].price]
    ELSE IF key[2] < NextItemId[key[1]] THEN [state |-> "burned"] ELSE [state |-> "unborn"]

Tokens == [key \in RegistryKey |-> TokenOf(key)]

Registry == INSTANCE NftRegistry WITH
    Keys <- RegistryKey, Owners <- AllAccounts, Prices <- Prices, token <- Tokens, purse <- balance

\* Every behaviour of the pallet is a behaviour of the registry.
ImplementsRegistry == Registry!Spec

=============================================================================
