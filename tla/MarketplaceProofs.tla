-------------------------- MODULE MarketplaceProofs --------------------------
(***************************************************************************)
(* NFTMarketplace, for any NFTs on sale, prices and balances, any number   *)
(* of loads and purchases under way at once, and whatever the rest of the  *)
(* world calls meanwhile.                                                  *)
(***************************************************************************)
EXTENDS NFTMarketplace, TemplatePalletProofs

USE DEF AllAccounts, CollectionId, ItemId, NftKey

------------------------------------------------------------------------------
(***************************************************************************)
(* The invariant.  The counter of its collection has passed every id the   *)
(* page shows, has read or was asked to buy.                               *)
(***************************************************************************)
HandedOut(key) == key \in NftKey /\ (key[2] < NextItemId[key[1]] \/ key[2] = MaxItemId)

Known(shown) == \A key \in DOMAIN shown : HandedOut(key)

GoodLoad(ld) ==
    \/ ld = Idle
    \/ /\ DOMAIN ld = {"at", "todo", "c", "item", "end", "found"}
       /\ Known(ld.found)

MintUnderWay == [at : {"verifying", "checking", "signing", "inPool", "inBlock"}, key : NftKey,
                 fid : BOOLEAN, castHash : BOOLEAN, price : SUBSET Prices, engaged : BOOLEAN]

\* What a purchase has in its closure still tells the price, if the NFT is still there.
ClickHolds(m) ==
    /\ HandedOut(m.key)
    /\ m.key[2] # MaxItemId /\ m.key \in DOMAIN Nfts => m.price = {Nfts[m.key].price}

\* The gate: the history of reactions covers the present, and a signature the check.
GateHolds(m) ==
    /\ Engaged => m.engaged
    /\ m.at \in {"signing", "inPool", "inBlock"} /\ m.fid => m.engaged

GoodMint(m) == m = Idle \/ (m \in MintUnderWay /\ ClickHolds(m) /\ GateHolds(m))

\* What was bought is off the market for ever.
Bought(key) == /\ purchased[key] = 1
               /\ key[2] < NextItemId[key[1]]
               /\ key \in DOMAIN Nfts /\ Nfts[key].is_sold

PurchasesOK ==
    /\ purchased \in [NftKey -> Nat]
    /\ \A key \in NftKey : key[2] # MaxItemId => purchased[key] = 0 \/ Bought(key)

LoadsOK == load = [l \in Loads |-> load[l]] /\ \A l \in Loads : GoodLoad(load[l])
MintsOK == mint = [s \in Mints |-> mint[s]] /\ \A s \in Mints : GoodMint(mint[s])
FarcasterOK == fid \in BOOLEAN /\ castHash \in BOOLEAN /\ reactions \subseteq {"like", "recast"}

MarketInv == IdsInv /\ FarcasterOK /\ Known(nfts) /\ LoadsOK /\ MintsOK /\ PurchasesOK

------------------------------------------------------------------------------
(***************************************************************************)
(* What the chain does to it.                                              *)
(***************************************************************************)
\* Whatever is in storage was handed out.
LEMMA StoredIsHandedOut ==
    ASSUME IdsInv, NEW key \in DOMAIN Nfts
    PROVE  HandedOut(key)
  BY DEF IdsInv, TypeOK, IdsBelowCounters, HandedOut

\* An id stays handed out.
LEMMA HandedOutStays ==
    ASSUME IdsInv, [Next]_vars, NEW key, HandedOut(key)
    PROVE  HandedOut(key)'
  BY IdNamesOneNft DEF HandedOut

LEMMA KnownStays ==
    ASSUME IdsInv, [Next]_vars, NEW shown, Known(shown)
    PROVE  Known(shown)'
  BY HandedOutStays DEF Known

LEMMA LoadStays ==
    ASSUME IdsInv, [Next]_vars, NEW ld, GoodLoad(ld)
    PROVE  GoodLoad(ld)'
  BY KnownStays DEF GoodLoad

\* The price of the click is still the price.
LEMMA ClickStays ==
    ASSUME IdsInv, [Next]_vars, NEW m, ClickHolds(m)
    PROVE  ClickHolds(m)'
  <1>1. HandedOut(m.key)'
    BY HandedOutStays DEF ClickHolds
  <1>2. ASSUME m.key[2] # MaxItemId, m.key \in DOMAIN Nfts' PROVE m.price = {Nfts'[m.key].price}
    BY <1>2, IdNamesOneNft DEF ClickHolds, HandedOut
  <1> QED  BY <1>1, <1>2 DEF ClickHolds

LEMMA MintStays ==
    ASSUME IdsInv, [Next]_vars, UNCHANGED reactions, NEW m, GoodMint(m)
    PROVE  GoodMint(m)'
  BY ClickStays DEF GoodMint, GateHolds, Engaged

LEMMA PurchasesStay ==
    ASSUME IdsInv, [Next]_vars, UNCHANGED purchased, PurchasesOK
    PROVE  PurchasesOK'
  BY IdNamesOneNft DEF PurchasesOK, Bought

\* What a step of the page leaves alone.
LEMMA AllStays ==
    ASSUME MarketInv, [Next]_vars
    PROVE  /\ IdsInv'
           /\ UNCHANGED nfts => Known(nfts)'
           /\ UNCHANGED load => LoadsOK'
           /\ UNCHANGED <<mint, reactions>> => MintsOK'
           /\ UNCHANGED purchased => PurchasesOK'
           /\ UNCHANGED <<fid, castHash, reactions>> => FarcasterOK'
  <1>1. IdsInv'
    BY NextIdsInv DEF MarketInv
  <1>2. ASSUME UNCHANGED nfts PROVE Known(nfts)'
    BY <1>2, KnownStays DEF MarketInv
  <1>3. ASSUME UNCHANGED load PROVE LoadsOK'
    BY <1>3, LoadStays DEF MarketInv, LoadsOK
  <1>4. ASSUME UNCHANGED <<mint, reactions>> PROVE MintsOK'
    BY <1>4, MintStays DEF MarketInv, MintsOK
  <1>5. ASSUME UNCHANGED purchased PROVE PurchasesOK'
    BY <1>5, PurchasesStay DEF MarketInv
  <1>6. ASSUME UNCHANGED <<fid, castHash, reactions>> PROVE FarcasterOK'
    BY <1>6 DEF MarketInv, FarcasterOK
  <1> QED  BY <1>1, <1>2, <1>3, <1>4, <1>5, <1>6

\* One load or one purchase goes on.
LEMMA OneLoad ==
    ASSUME MarketInv, [Next]_vars, NEW l \in Loads, NEW ld, GoodLoad(ld),
           load' = [load EXCEPT ![l] = ld]
    PROVE  LoadsOK'
  BY LoadStays DEF MarketInv, LoadsOK

LEMMA OneMint ==
    ASSUME MarketInv, [Next]_vars, UNCHANGED reactions, NEW s \in Mints, NEW m, GoodMint(m),
           mint' = [mint EXCEPT ![s] = m]
    PROVE  MintsOK'
  BY MintStays DEF MarketInv, MintsOK

------------------------------------------------------------------------------
(***************************************************************************)
(* The first state.                                                        *)
(***************************************************************************)
\* An artist with NFTs on the market is a state of the pallet whose ids are in order.
LEMMA MarketOpensInOrder == MarketInit => IdsInv
  <1> SUFFICES ASSUME MarketInit PROVE IdsInv
    OBVIOUS
  <1> USE BoundsAssumption
  <1>1. PICK n \in ItemId : Listed \in [{i \in ItemId : i < n} -> Prices]
    BY MarketAssumption
  <1>2. DOMAIN Listed = 0 .. n - 1
    BY <1>1
  <1>3. Cardinality(DOMAIN Listed) = n
    BY <1>1, <1>2, FS_Interval
  <1>4. /\ Collections = [c \in {0} |-> [creator |-> Artist, metadata |-> 0,
                                         nfts |-> [i \in ItemId |-> IF i \in 0 .. n - 1 THEN 1 ELSE 0]]]
        /\ Nfts = [key \in {0} \X (0 .. n - 1) |->
                      [owner |-> Artist, metadata |-> 0, is_sold |-> FALSE, price |-> Listed[key[2]]]]
        /\ NextItemId = [c \in CollectionId |-> IF c = 0 THEN n ELSE 0]
    BY <1>2, <1>3 DEF MarketInit
  <1>5. NextCollectionId \in CollectionId /\ (0 < NextCollectionId \/ 0 = MaxCollectionId)
    BY DEF MarketInit, SaturatingSucc
  <1>6. Collections \in [{0} -> Collection] /\ DOMAIN Collections = {0}
    BY <1>4, MarketAssumption DEF Collection
  <1>7. Nfts \in [{0} \X (0 .. n - 1) -> NFT] /\ DOMAIN Nfts = {0} \X (0 .. n - 1)
    BY <1>1, <1>4, MarketAssumption DEF NFT
  <1>8. TypeOK
    <2>1. Artists \subseteq Accounts /\ balance \in [AllAccounts -> Nat]
      BY MarketAssumption, BalanceAssumption DEF MarketInit
    <2>2. NextItemId \in [CollectionId -> ItemId]
      BY <1>4
    <2> QED  BY <1>5, <1>6, <1>7, <2>1, <2>2 DEF TypeOK
  <1>9. \A i \in ItemId : Collections[0].nfts[i] = IF i < n THEN 1 ELSE 0
    BY <1>4
  <1>10. NextItemId[0] = n
    BY <1>4
  <1>11. IdsBelowCounters
    BY <1>5, <1>6, <1>7, <1>9, <1>10 DEF IdsBelowCounters
  <1>12. ListMatchesStorage /\ ListedOnce
    BY <1>6, <1>7, <1>9 DEF ListMatchesStorage, ListedOnce
  <1> QED  BY <1>8, <1>11, <1>12 DEF IdsInv

\* Nothing has been bought, and the load under way has read nothing.
LEMMA MarketInvInit == PageOpens => MarketInv
  <1> SUFFICES ASSUME PageOpens PROVE MarketInv
    OBVIOUS
  <1>1. IdsInv /\ PageInit
    BY MarketOpensInOrder DEF PageOpens
  <1>2. Known(Empty)
    BY DEF Known, Empty
  <1>3. GoodLoad(NewLoad)
    BY <1>2 DEF GoodLoad, NewLoad
  <1>4. LoadsOK
    BY <1>1, <1>3 DEF PageInit, LoadsOK, GoodLoad
  <1>5. MintsOK /\ FarcasterOK /\ Known(nfts)
    BY <1>1, <1>2 DEF PageInit, MintsOK, GoodMint, FarcasterOK
  <1>6. PurchasesOK
    BY <1>1 DEF PageInit, PurchasesOK
  <1> QED  BY <1>1, <1>4, <1>5, <1>6 DEF MarketInv

------------------------------------------------------------------------------
(***************************************************************************)
(* The steps of loadNFTs.                                                  *)
(***************************************************************************)
LEMMA RoundStep ==
    ASSUME MarketInv, UNCHANGED vars, NEW l \in Loads, NEW todo, NEW found, Known(found),
           NextRound(l, todo, found)
    PROVE  LoadsOK' /\ Known(nfts)'
  <1>0. IdsInv /\ [Next]_vars /\ Known(found)'
    BY KnownStays DEF MarketInv
  <1>1. CASE todo # {}
    <2> DEFINE ld == [NewLoad EXCEPT !.at = "nextItemId", !.todo = todo, !.found = found]
    <2>1. GoodLoad(ld)
      BY DEF GoodLoad, NewLoad
    <2>2. load' = [load EXCEPT ![l] = ld] /\ UNCHANGED nfts
      BY <1>1 DEF NextRound
    <2> HIDE DEF ld
    <2> QED  BY <1>0, <2>1, <2>2, OneLoad, AllStays
  <1>2. CASE todo = {}
    <2>1. load' = [load EXCEPT ![l] = Idle] /\ nfts' = found
      BY <1>2 DEF NextRound
    <2>2. GoodLoad(Idle)
      BY DEF GoodLoad
    <2> QED  BY <1>0, <2>1, <2>2, OneLoad
  <1> QED  BY <1>1, <1>2

LEMMA LoadSteps ==
    ASSUME MarketInv, NEW l \in Loads, LoadStep(l)
    PROVE  MarketInv'
  <1>0. UNCHANGED <<vars, farcaster, mint, purchased, bounds>>
    BY DEF LoadStep, loadCollections, loadNextItemId, loadItem, loadFailed
  <1>1. /\ UNCHANGED vars
        /\ UNCHANGED <<mint, reactions>> /\ UNCHANGED purchased
        /\ UNCHANGED <<fid, castHash, reactions>>
    BY <1>0 DEF farcaster
  <1>2. IdsInv' /\ MintsOK' /\ PurchasesOK' /\ FarcasterOK' /\ (UNCHANGED nfts => Known(nfts)')
    BY <1>1, AllStays
  <1>3. GoodLoad(load[l])
    BY DEF MarketInv, LoadsOK
  <1>4. load[l].at # "idle" => /\ DOMAIN load[l] = {"at", "todo", "c", "item", "end", "found"}
                              /\ Known(load[l].found)
    BY <1>3 DEF GoodLoad, Idle
  <1>5. ASSUME loadCollections(l) PROVE LoadsOK' /\ Known(nfts)'
    <2>1. Known(Empty)
      BY DEF Known, Empty
    <2> QED  BY <1>1, <1>5, <2>1, RoundStep DEF loadCollections
  <1>6. ASSUME NEW c \in CollectionId, loadNextItemId(l, c) PROVE LoadsOK' /\ Known(nfts)'
    <2> DEFINE ld == [load[l] EXCEPT !.at = "items", !.todo = @ \ {c}, !.c = c,
                                     !.end = ScanEnd(NextItemId[c])]
    <2>1. DOMAIN ld = {"at", "todo", "c", "item", "end", "found"} /\ ld.found = load[l].found
      BY <1>4, <1>6 DEF loadNextItemId
    <2>2. Known(ld.found)
      BY <1>4, <1>6, <2>1 DEF loadNextItemId
    <2>3. GoodLoad(ld)
      BY <2>1, <2>2 DEF GoodLoad
    <2>4. load' = [load EXCEPT ![l] = ld] /\ UNCHANGED nfts
      BY <1>6 DEF loadNextItemId, MarketInv, LoadsOK
    <2> HIDE DEF ld
    <2> QED  BY <1>1, <1>2, <2>3, <2>4, OneLoad
  <1>7. ASSUME NEW answered \in BOOLEAN, loadItem(l, answered) PROVE LoadsOK' /\ Known(nfts)'
    <2> DEFINE key == <<load[l].c, load[l].item>>
               found == IF answered /\ key \in DOMAIN Nfts
                        THEN Insert(load[l].found, key, [owner |-> Nfts[key].owner, isSold |-> Nfts[key].is_sold])
                        ELSE load[l].found
    <2>1. Known(load[l].found)
      BY <1>4, <1>7 DEF loadItem
    <2>2. Known(found)
      BY <2>1, StoredIsHandedOut DEF Known, Insert, MarketInv
    <2>3. IF load[l].item + 1 < load[l].end
          THEN load' = [load EXCEPT ![l].item = @ + 1, ![l].found = found] /\ UNCHANGED nfts
          ELSE NextRound(l, load[l].todo, found)
      BY <1>7 DEF loadItem
    <2>4. load[l].at = "items"
      BY <1>7 DEF loadItem
    <2> HIDE DEF found
    <2>5. CASE load[l].item + 1 < load[l].end
      <3> DEFINE ld == [load[l] EXCEPT !.item = @ + 1, !.found = found]
      <3>1. GoodLoad(ld)
        BY <1>4, <2>2, <2>4 DEF GoodLoad
      <3>2. load' = [load EXCEPT ![l] = ld] /\ UNCHANGED nfts
        BY <2>3, <2>5 DEF MarketInv, LoadsOK
      <3> HIDE DEF ld
      <3> QED  BY <1>1, <1>2, <3>1, <3>2, OneLoad
    <2>6. CASE ~(load[l].item + 1 < load[l].end)
      BY <1>1, <2>2, <2>3, <2>6, RoundStep
    <2> QED  BY <2>5, <2>6
  <1>8. ASSUME loadFailed(l) PROVE LoadsOK' /\ Known(nfts)'
    <2>1. GoodLoad(Idle) /\ load' = [load EXCEPT ![l] = Idle] /\ UNCHANGED nfts
      BY <1>8 DEF loadFailed, GoodLoad
    <2> QED  BY <1>1, <1>2, <2>1, OneLoad
  <1>9. LoadsOK' /\ Known(nfts)'
    BY <1>5, <1>6, <1>7, <1>8 DEF LoadStep
  <1> QED  BY <1>2, <1>9 DEF MarketInv

------------------------------------------------------------------------------
(***************************************************************************)
(* The steps of mintNft.                                                   *)
(***************************************************************************)
\* Where a purchase is tells that it is one.
LEMMA MintFacts ==
    ASSUME MarketInv, NEW s \in Mints, mint[s].at # "idle"
    PROVE  mint[s] \in MintUnderWay /\ ClickHolds(mint[s]) /\ GateHolds(mint[s])
  BY DEF MarketInv, MintsOK, GoodMint, Idle

\* A purchase that goes on to a stage its gate allows.
LEMMA MintMovesOn ==
    ASSUME MarketInv, NEW s \in Mints, mint[s].at # "idle",
           NEW at \in {"checking", "signing", "inPool", "inBlock"},
           at # "checking" /\ mint[s].fid => mint[s].engaged
    PROVE  GoodMint([mint[s] EXCEPT !.at = at])
  <1> DEFINE m == [mint[s] EXCEPT !.at = at]
  <1>0. mint[s] \in MintUnderWay /\ ClickHolds(mint[s]) /\ GateHolds(mint[s])
    BY MintFacts
  <1>1. /\ m \in MintUnderWay /\ m.at = at /\ m.key = mint[s].key /\ m.price = mint[s].price
        /\ m.fid = mint[s].fid /\ m.engaged = mint[s].engaged
    BY <1>0 DEF MintUnderWay
  <1> HIDE DEF m
  <1>2. ClickHolds(m) /\ GateHolds(m)
    BY <1>0, <1>1 DEF ClickHolds, GateHolds
  <1>3. GoodMint(m)
    BY <1>1, <1>2 DEF GoodMint
  <1> QED  BY <1>3 DEF m

\* A click on "Mint".
LEMMA ClickStep ==
    ASSUME MarketInv, NEW s \in Mints, NEW key \in NftKey, mintNft(s, key)
    PROVE  MarketInv'
  <1> DEFINE m == [at |-> IF fid THEN "verifying" ELSE "signing", key |-> key,
                   fid |-> fid, castHash |-> castHash, price |-> PriceNow(key), engaged |-> Engaged]
  <1>1. HandedOut(key)
    BY DEF mintNft, MarketInv, Known
  <1>2. PriceNow(key) \subseteq Prices
    BY DEF PriceNow, MarketInv, IdsInv, TypeOK, NFT
  <1>3. m \in MintUnderWay
    BY <1>2 DEF MintUnderWay, MarketInv, FarcasterOK, Engaged
  <1>4. ClickHolds(m)
    BY <1>1 DEF ClickHolds, PriceNow
  <1>5. GateHolds(m)
    BY DEF GateHolds
  <1>6. GoodMint(m)
    BY <1>3, <1>4, <1>5 DEF GoodMint
  <1>7. mint' = [mint EXCEPT ![s] = m] /\ UNCHANGED <<vars, farcaster, nfts, load, purchased, bounds>>
    BY DEF mintNft
  <1> HIDE DEF m
  <1>8. UNCHANGED vars /\ UNCHANGED <<fid, castHash, reactions>>
    BY <1>7 DEF farcaster
  <1>9. MintsOK'
    BY <1>6, <1>7, <1>8, OneMint
  <1> QED  BY <1>7, <1>8, <1>9, AllStays DEF MarketInv

\* Requests and the signature.
LEMMA MintSteps ==
    ASSUME MarketInv, NEW s \in Mints, MintStep(s)
    PROVE  MarketInv'
  <1>0. UNCHANGED <<vars, farcaster, nfts, load, purchased, bounds>> /\ mint[s].at # "idle"
    BY DEF MintStep, verified, verifyFailed, checkEngagement, notEngaged, signAndSend, signFailed,
           mintEnds, mintGoesOn
  <1>1. UNCHANGED vars /\ UNCHANGED <<fid, castHash, reactions>>
    BY <1>0 DEF farcaster
  <1>2. GateHolds(mint[s]) /\ mint = [k \in Mints |-> mint[k]]
    BY <1>0, MintFacts DEF MarketInv, MintsOK
  <1>3. ASSUME mint' = [mint EXCEPT ![s] = Idle] PROVE MintsOK'
    BY <1>1, <1>3, OneMint DEF GoodMint
  <1>4. ASSUME NEW at \in {"checking", "signing", "inPool"}, mint' = [mint EXCEPT ![s].at = at],
               at # "checking" /\ mint[s].fid => mint[s].engaged
        PROVE  MintsOK'
    <2> DEFINE m == [mint[s] EXCEPT !.at = at]
    <2>1. GoodMint(m)
      BY <1>0, <1>4, MintMovesOn
    <2>2. mint' = [mint EXCEPT ![s] = m]
      BY <1>2, <1>4
    <2> HIDE DEF m
    <2> QED  BY <1>1, <2>1, <2>2, OneMint
  <1>5. ASSUME verified(s) PROVE MintsOK'
    BY <1>4, <1>5 DEF verified, mintGoesOn
  <1>6. ASSUME checkEngagement(s) PROVE MintsOK'
    <2>1. Engaged
      BY <1>6 DEF checkEngagement, Engaged, MarketInv, FarcasterOK
    <2>2. mint[s].engaged
      BY <1>2, <2>1 DEF GateHolds
    <2> QED  BY <1>4, <1>6, <2>2 DEF checkEngagement, mintGoesOn
  <1>7. ASSUME signAndSend(s) PROVE MintsOK'
    <2>1. mint[s].fid => mint[s].engaged
      BY <1>2, <1>7 DEF GateHolds, signAndSend
    <2> QED  BY <1>4, <1>7, <2>1 DEF signAndSend
  <1>8. ASSUME verifyFailed(s) \/ notEngaged(s) \/ signFailed(s) PROVE MintsOK'
    BY <1>3, <1>8 DEF verifyFailed, notEngaged, signFailed, mintEnds
  <1>9. MintsOK'
    BY <1>5, <1>6, <1>7, <1>8 DEF MintStep
  <1> QED  BY <1>0, <1>1, <1>9, AllStays DEF MarketInv

\* Bought now, and not before.
LEMMA PurchaseStep ==
    ASSUME MarketInv, NEW s \in Mints, includedOk(s)
    PROVE  PurchasesOK'
  <1> DEFINE key == mint[s].key
  <1>0. mint[s] \in MintUnderWay /\ ClickHolds(mint[s]) /\ IdsInv /\ PurchasesOK /\ TypeOK
    BY MintFacts DEF includedOk, MarketInv, IdsInv
  <1>1. key \in NftKey /\ HandedOut(key)
    BY <1>0 DEF MintUnderWay, ClickHolds
  <1>2. /\ key \in DOMAIN Nfts /\ ~Nfts[key].is_sold /\ mint_nft(Me, key)
        /\ purchased' = [purchased EXCEPT ![key] = @ + 1]
    BY DEF includedOk, mint_nft, mint_nft_result
  <1>3. /\ key \in DOMAIN Nfts' /\ Nfts'[key].is_sold /\ UNCHANGED NextItemId
        /\ DOMAIN Nfts' = DOMAIN Nfts
        /\ \A k \in DOMAIN Nfts \ {key} : Nfts'[k] = Nfts[k]
    BY <1>0, <1>1, <1>2, NewOwnerEffect, PageAssumption
  <1> HIDE DEF key
  <1>4. purchased' \in [NftKey -> Nat]
    BY <1>0, <1>1, <1>2 DEF PurchasesOK
  <1>5. ASSUME NEW k \in NftKey, k[2] # MaxItemId PROVE purchased'[k] = 0 \/ Bought(k)'
    <2>1. purchased[k] = 0 \/ Bought(k)
      BY <1>0, <1>5 DEF PurchasesOK
    <2>2. CASE k = key
      <3>1. purchased[k] = 0 /\ purchased'[k] = 1
        BY <1>0, <1>2, <2>1, <2>2 DEF Bought, PurchasesOK
      <3>2. k[2] < NextItemId'[k[1]]
        BY <1>1, <1>3, <1>5, <2>2 DEF HandedOut
      <3> QED  BY <1>3, <2>2, <3>1, <3>2 DEF Bought
    <2>3. CASE k # key
      <3>1. purchased'[k] = purchased[k]
        BY <1>0, <1>2, <2>3 DEF PurchasesOK
      <3> QED  BY <1>3, <2>1, <2>3, <3>1 DEF Bought
    <2> QED  BY <2>2, <2>3
  <1> QED  BY <1>4, <1>5 DEF PurchasesOK

\* Inclusion and the callback.
LEMMA BlockSteps ==
    ASSUME MarketInv, NEW s \in Mints, BlockStep(s)
    PROVE  MarketInv'
  <1>0. mint[s].at \in {"inPool", "inBlock"} /\ UNCHANGED <<fid, castHash, reactions>> /\ UNCHANGED nfts
    BY DEF BlockStep, includedOk, includedError, dropped, inBlock, mintGoesOn, farcaster
  <1>1. mint[s] \in MintUnderWay /\ GateHolds(mint[s]) /\ mint = [k \in Mints |-> mint[k]]
    BY <1>0, MintFacts DEF MarketInv, MintsOK
  <1>2. [Next]_vars
    <2>1. ASSUME includedOk(s) PROVE Next
      BY <1>1, <2>1, PageAssumption DEF includedOk, MintUnderWay, Next
    <2> QED  BY <2>1 DEF BlockStep, includedError, dropped, inBlock, mintGoesOn
  <1>3. MintsOK'
    <2>1. CASE mint' = [mint EXCEPT ![s] = Idle]
      BY <1>0, <1>2, <2>1, OneMint DEF GoodMint
    <2>2. CASE mint' = [mint EXCEPT ![s].at = "inBlock"]
      <3> DEFINE m == [mint[s] EXCEPT !.at = "inBlock"]
      <3>1. GoodMint(m)
        BY <1>0, <1>1, MintMovesOn DEF GateHolds
      <3>2. mint' = [mint EXCEPT ![s] = m]
        BY <1>1, <2>2
      <3> HIDE DEF m
      <3> QED  BY <1>0, <1>2, <3>1, <3>2, OneMint
    <2> QED  BY <2>1, <2>2 DEF BlockStep, includedOk, includedError, dropped, inBlock, mintGoesOn
  <1>4. PurchasesOK'
    <2>1. CASE includedOk(s)
      BY <2>1, PurchaseStep
    <2>2. CASE UNCHANGED purchased
      BY <1>2, <2>2, AllStays
    <2> QED  BY <2>1, <2>2 DEF BlockStep, includedError, dropped, inBlock, mintGoesOn
  <1>5. LoadsOK'
    <2>1. ASSUME NEW l \in Loads, inBlock(s, l) PROVE LoadsOK'
      <3>1. GoodLoad(NewLoad)
        BY DEF GoodLoad, NewLoad, Known, Empty
      <3> QED  BY <1>2, <2>1, <3>1, OneLoad DEF inBlock
    <2>2. CASE UNCHANGED load
      BY <1>2, <2>2, AllStays
    <2> QED  BY <2>1, <2>2 DEF BlockStep, includedOk, includedError, dropped, mintGoesOn
  <1> QED  BY <1>0, <1>2, <1>3, <1>4, <1>5, AllStays DEF MarketInv

------------------------------------------------------------------------------
(***************************************************************************)
(* The rest of the world.                                                  *)
(***************************************************************************)
\* Calls of everybody else.
LEMMA OthersStep ==
    ASSUME MarketInv, NEW who \in Accounts \ {Me}, othersCall(who)
    PROVE  MarketInv'
  <1>1. Next
    BY DEF othersCall, Next
  <1>2. UNCHANGED <<fid, castHash, reactions>> /\ UNCHANGED <<nfts, load, mint, purchased>>
    BY DEF othersCall, farcaster
  <1> QED  BY <1>1, <1>2, AllStays DEF MarketInv

\* Reactions change, and the history of the purchases under way with them.
LEMMA ReactStep ==
    ASSUME MarketInv, NEW new \in SUBSET {"like", "recast"}, react(new)
    PROVE  MarketInv'
  <1>1. /\ UNCHANGED vars /\ UNCHANGED <<fid, castHash, nfts, load, purchased>> /\ reactions' = new
        /\ mint' = [s \in Mints |-> IF mint[s] = Idle THEN Idle
                                    ELSE [mint[s] EXCEPT !.engaged = @ \/ Engaged']]
    BY DEF react
  <1>2. FarcasterOK'
    BY <1>1 DEF MarketInv, FarcasterOK
  <1>3. ASSUME NEW s \in Mints, NEW m, m = mint'[s] PROVE GoodMint(m)'
    <2>1. CASE mint[s] = Idle
      BY <1>1, <1>3, <2>1 DEF GoodMint
    <2>2. CASE mint[s] # Idle
      <3>1. mint[s] \in MintUnderWay /\ ClickHolds(mint[s]) /\ GateHolds(mint[s])
        BY <2>2 DEF MarketInv, MintsOK, GoodMint
      <3>2. Engaged' \in BOOLEAN
        BY DEF Engaged
      <3>4. m = [mint[s] EXCEPT !.engaged = @ \/ Engaged']
        BY <1>1, <1>3, <2>2
      <3>5. /\ m \in MintUnderWay /\ m.key = mint[s].key /\ m.price = mint[s].price
            /\ m.at = mint[s].at /\ m.fid = mint[s].fid /\ m.engaged = (mint[s].engaged \/ Engaged')
        BY <3>1, <3>2, <3>4 DEF MintUnderWay
      <3>6. ClickHolds(m)'
        BY <1>1, <3>1, <3>5 DEF ClickHolds, HandedOut, vars
      <3>7. GateHolds(m)'
        BY <3>1, <3>5 DEF GateHolds
      <3> QED  BY <3>5, <3>6, <3>7 DEF GoodMint
    <2> QED  BY <2>1, <2>2
  <1>4. MintsOK'
    BY <1>1, <1>3 DEF MintsOK
  <1> QED  BY <1>1, <1>2, <1>4, AllStays DEF MarketInv

\* Demo learns the Farcaster context.
LEMMA DemoStep ==
    ASSUME MarketInv, NEW user \in BOOLEAN, NEW cast \in BOOLEAN, DemoLoad(user, cast)
    PROVE  MarketInv'
  <1>1. UNCHANGED vars /\ UNCHANGED <<nfts, load, mint, purchased>> /\ UNCHANGED reactions
    BY DEF DemoLoad
  <1>2. FarcasterOK'
    BY DEF DemoLoad, MarketInv, FarcasterOK
  <1> QED  BY <1>1, <1>2, AllStays DEF MarketInv

------------------------------------------------------------------------------
(***************************************************************************)
(* The theorems.                                                           *)
(***************************************************************************)
\* One case per kind of step.
LEMMA MarketInvNext == MarketInv /\ [PageNext]_allVars => MarketInv'
  <1> SUFFICES ASSUME MarketInv, [PageNext]_allVars PROVE MarketInv'
    OBVIOUS
  <1>1. CASE UNCHANGED allVars
    <2>1. UNCHANGED vars /\ UNCHANGED <<fid, castHash, reactions>>
          /\ UNCHANGED <<nfts, load, mint, purchased>>
      BY <1>1 DEF allVars, farcaster
    <2> QED  BY <2>1, AllStays DEF MarketInv
  <1>2. CASE PageNext
    BY <1>2, DemoStep, LoadSteps, ClickStep, MintSteps, BlockSteps, OthersStep, ReactStep DEF PageNext
  <1> QED  BY <1>1, <1>2

\* The inductive invariant of the marketplace page.
THEOREM MarketInvariant == MarketSpec => []MarketInv
  BY MarketInvInit, MarketInvNext, PTL DEF MarketSpec

\* However often "Mint" is clicked, on whatever the page shows by then, an NFT is paid for once.
THEOREM NeverPaidTwice == MarketSpec => []PaidOnce
  <1>1. MarketInv => PaidOnce
    BY DEF MarketInv, PurchasesOK, Bought, PaidOnce
  <1> QED  BY MarketInvariant, <1>1, PTL

\* Nothing is signed on behalf of a known Farcaster user who never had both reactions.
THEOREM GateHoldsForKnownUsers == MarketSpec => []GatedWhenFidKnown
  <1>1. MarketInv => GatedWhenFidKnown
    BY MintFacts DEF GatedWhenFidKnown, GateHolds
  <1> QED  BY MarketInvariant, <1>1, PTL

\* A purchase that takes effect costs what the NFT cost when the button was clicked.
THEOREM PriceOfClickIsPaid == MarketSpec => PaysPriceOfClick
  <1> DEFINE Pays == \A s \in Mints :
                        mint[s].at = "inPool" /\ mint'[s].at = "inBlock" /\ purchased' # purchased
                           /\ mint[s].key[2] # MaxItemId
                        => mint[s].price = {Nfts[mint[s].key].price}
  <1>1. MarketInv /\ [PageNext]_allVars => [Pays]_allVars
    <2> SUFFICES ASSUME MarketInv, PageNext, NEW s \in Mints,
                        mint[s].at = "inPool", mint'[s].at = "inBlock", purchased' # purchased,
                        mint[s].key[2] # MaxItemId
                 PROVE  mint[s].price = {Nfts[mint[s].key].price}
      BY DEF allVars
    <2>1. PICK k \in Mints : includedOk(k)
      BY DEF PageNext, DemoLoad, LoadStep, loadCollections, loadNextItemId, loadItem, loadFailed, mintNft,
             MintStep, verified, verifyFailed, checkEngagement, notEngaged, signAndSend, signFailed,
             mintEnds, mintGoesOn, BlockStep, includedError, dropped, inBlock, othersCall, react
    <2>2. k = s
      BY <2>1 DEF includedOk, MarketInv, MintsOK
    <2>3. mint[s].key \in DOMAIN Nfts
      BY <2>1, <2>2 DEF includedOk, mint_nft, mint_nft_result
    <2> QED  BY <2>3, MintFacts DEF ClickHolds
  <1> QED  BY MarketInvariant, <1>1, PTL DEF MarketSpec, PaysPriceOfClick

=============================================================================
