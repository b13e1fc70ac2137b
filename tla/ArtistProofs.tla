---------------------------- MODULE ArtistProofs ----------------------------
(***************************************************************************)
(* ArtistDashboard, for any number of extrinsics and loads under way at    *)
(* once, any collections, prices and balances, from genesis or from an     *)
(* artist at work.                                                         *)
(***************************************************************************)
EXTENDS ArtistDashboard, TemplatePalletProofs

USE DEF AllAccounts, CollectionId, ItemId, NftKey

------------------------------------------------------------------------------
(***************************************************************************)
(* The invariant.                                                          *)
(***************************************************************************)
\* The calls of the page, with the arguments its forms and buttons can give them.
PageCall == [name : {"register"}]
            \cup [name : {"createCollection"}, metadata : Metadata]
            \cup [name : {"createNft"}, c : CollectionId, metadata : Metadata, price : Prices]
            \cup [name : {"burn"}, c : CollectionId, item : ItemId]

Sent == [at : {"signing", "inPool"}, call : PageCall]
InBlock == [at : {"inBlock"}, call : PageCall, dispatchError : BOOLEAN]

\* A callback without an error says the truth about the registration.
GoodTx(x) ==
    \/ x = Idle
    \/ x \in Sent
    \/ x \in InBlock /\ (x.call.name = "register" /\ ~x.dispatchError => Me \in Artists)

\* A call that took effect cannot take effect again.
Spent(call) ==
    /\ call.name = "register" => done[call] = 1 /\ Me \in Artists
    /\ call.name = "burn" /\ call.item # MaxItemId =>
          /\ done[call] = 1
          /\ <<call.c, call.item>> \in NftKey \ DOMAIN Nfts
          /\ call.item < NextItemId[call.c]

TxsOK == tx = [s \in Txs |-> tx[s]] /\ \A s \in Txs : GoodTx(tx[s])
DoneOK == \A call \in DOMAIN done : Spent(call)

\* "Create NFT" is only open over a selected collection.
SelectionOK ==
    /\ collections \subseteq CollectionId
    /\ selectedCollection \in CollectionId \cup {None}
    /\ "createNft" \in openModals => selectedCollection # None

ArtistInv == IdsInv /\ TxsOK /\ DoneOK /\ SelectionOK /\ isRegistered \in BOOLEAN /\ RegisteredOnChain

------------------------------------------------------------------------------
(***************************************************************************)
(* What the chain does to it.                                              *)
(***************************************************************************)
\* Nobody stops being an artist.
LEMMA ArtistsStay ==
    ASSUME [Next]_vars
    PROVE  Artists \subseteq Artists'
  BY DEF Next, vars, register_artist, create_collection, delete_collection, create_nft, transfer_nft,
         burn_nft, mint_nft, transfer_allow_death

LEMMA TxStays ==
    ASSUME [Next]_vars, NEW x, GoodTx(x)
    PROVE  GoodTx(x)'
  BY ArtistsStay DEF GoodTx

\* What was burned stays burned.
LEMMA SpentStays ==
    ASSUME IdsInv, [Next]_vars, UNCHANGED done, NEW call, Spent(call)
    PROVE  Spent(call)'
  <1>1. ASSUME call.name = "register" PROVE done'[call] = 1 /\ Me \in Artists'
    BY <1>1, ArtistsStay DEF Spent
  <1>2. ASSUME call.name = "burn", call.item # MaxItemId
        PROVE  /\ done'[call] = 1
               /\ <<call.c, call.item>> \in NftKey \ DOMAIN Nfts'
               /\ call.item < NextItemId'[call.c]
    <2> DEFINE key == <<call.c, call.item>>
    <2>1. /\ key \in NftKey /\ key \notin DOMAIN Nfts /\ key[1] = call.c /\ key[2] = call.item
          /\ key[2] < NextItemId[key[1]] /\ key[2] # MaxItemId
      BY <1>2 DEF Spent
    <2> HIDE DEF key
    <2>2. key[2] < NextItemId'[key[1]] /\ key \notin DOMAIN Nfts'
      BY <2>1, IdNamesOneNft
    <2> QED  BY <1>2, <2>1, <2>2 DEF Spent, key
  <1> QED  BY <1>1, <1>2 DEF Spent

\* What a step of the page leaves alone.
LEMMA AllStays ==
    ASSUME ArtistInv, [Next]_vars
    PROVE  /\ IdsInv'
           /\ UNCHANGED tx => TxsOK'
           /\ UNCHANGED done => DoneOK'
           /\ UNCHANGED <<collections, selectedCollection, openModals>> => SelectionOK'
           /\ UNCHANGED isRegistered => isRegistered' \in BOOLEAN /\ RegisteredOnChain'
  <1>1. IdsInv'
    BY NextIdsInv DEF ArtistInv
  <1>2. ASSUME UNCHANGED tx PROVE TxsOK'
    BY <1>2, TxStays DEF ArtistInv, TxsOK
  <1>3. ASSUME UNCHANGED done PROVE DoneOK'
    BY <1>3, SpentStays DEF ArtistInv, DoneOK
  <1>4. ASSUME UNCHANGED <<collections, selectedCollection, openModals>> PROVE SelectionOK'
    BY <1>4 DEF ArtistInv, SelectionOK
  <1>5. ASSUME UNCHANGED isRegistered PROVE isRegistered' \in BOOLEAN /\ RegisteredOnChain'
    BY <1>5, ArtistsStay DEF ArtistInv, RegisteredOnChain
  <1> QED  BY <1>1, <1>2, <1>3, <1>4, <1>5

\* One extrinsic goes on.
LEMMA OneTx ==
    ASSUME ArtistInv, [Next]_vars, NEW s \in Txs, NEW x, tx' = [tx EXCEPT ![s] = x],
           GoodTx(x)'
    PROVE  TxsOK'
  BY TxStays DEF ArtistInv, TxsOK

\* It ends, or goes on to a state that is good already.
LEMMA TxGoesOn ==
    ASSUME ArtistInv, [Next]_vars, NEW s \in Txs, NEW x, tx' = [tx EXCEPT ![s] = x], GoodTx(x)
    PROVE  TxsOK'
  BY OneTx, TxStays

\* Where an extrinsic is tells what it carries.
LEMMA TxFacts ==
    ASSUME ArtistInv, NEW s \in Txs
    PROVE  /\ tx[s].at \in {"signing", "inPool"} => tx[s] \in Sent
           /\ tx[s].at = "inBlock" =>
                 /\ tx[s] \in InBlock
                 /\ tx[s].call.name = "register" /\ ~tx[s].dispatchError => Me \in Artists
  BY DEF ArtistInv, TxsOK, GoodTx, Sent, InBlock, Idle

------------------------------------------------------------------------------
(***************************************************************************)
(* The first state.                                                        *)
(***************************************************************************)
\* An artist at work is a state of the pallet whose ids are in order.
LEMMA StudioInOrder == StudioInit => IdsInv
  <1> SUFFICES ASSUME StudioInit PROVE IdsInv
    OBVIOUS
  <1> USE BoundsAssumption
  <1>1. PICK n \in CollectionId : Studio = {c \in CollectionId : c < n}
    BY StudioAssumption
  <1>2. Studio = 0 .. n - 1 /\ n \in Nat
    BY <1>1
  <1>3. Cardinality(Studio) = n
    BY <1>2, FS_Interval
  <1>4. NextCollectionId = n /\ Artists = {Me} /\ balance = InitialBalance
    BY <1>3 DEF StudioInit
  <1>5. 0 \in ItemId /\ 1 \in ItemId /\ MaxItemId # 0
    BY StudioAssumption
  <1>6. NoNfts \in [ItemId -> Nat] /\ \A i \in ItemId : NoNfts[i] = 0
    BY DEF NoNfts
  <1> DEFINE one == [NoNfts EXCEPT ![0] = 1]
  <1>7. one \in [ItemId -> Nat] /\ one[0] = 1 /\ \A i \in ItemId \ {0} : one[i] = 0
    BY <1>5, <1>6
  <1> HIDE DEF one
  <1>8. Collections = [c \in Studio |-> [creator |-> Me, metadata |-> 0, nfts |-> one]]
    BY DEF StudioInit, one
  <1>9. Collections \in [Studio -> Collection] /\ DOMAIN Collections = Studio
    BY <1>7, <1>8, ArtistAssumption DEF Collection
  <1>10. Nfts \in [Studio \X {0} -> NFT] /\ DOMAIN Nfts = Studio \X {0}
    BY StudioAssumption, ArtistAssumption DEF StudioInit, NFT
  <1>11. NextItemId \in [CollectionId -> ItemId] /\ \A c \in Studio : NextItemId[c] = 1
    BY <1>1, <1>5 DEF StudioInit
  <1>12. TypeOK
    <2>1. Artists \subseteq Accounts /\ balance \in [AllAccounts -> Nat]
      BY <1>4, ArtistAssumption, BalanceAssumption
    <2>2. Studio \subseteq CollectionId /\ Studio \X {0} \subseteq NftKey
      BY <1>1, <1>5
    <2> QED  BY <1>1, <1>4, <1>9, <1>10, <1>11, <2>1, <2>2 DEF TypeOK
  <1>13. \A c \in Studio : c < NextCollectionId /\ Collections[c].nfts = one
    BY <1>1, <1>4, <1>8
  <1>14. IdsBelowCounters
    BY <1>5, <1>7, <1>9, <1>10, <1>11, <1>13 DEF IdsBelowCounters
  <1>15. ListMatchesStorage /\ ListedOnce
    BY <1>7, <1>9, <1>10, <1>13 DEF ListMatchesStorage, ListedOnce
  <1> QED  BY <1>12, <1>14, <1>15 DEF IdsInv

\* No extrinsic is under way and none took effect.
LEMMA ArtistInvInit == PageOpens => ArtistInv
  <1> SUFFICES ASSUME PageOpens PROVE ArtistInv
    OBVIOUS
  <1>1. IdsInv /\ PageInit
    BY InitIdsInv, StudioInOrder DEF PageOpens, ArtistOpens
  <1>2. DoneOK
    BY <1>1 DEF PageInit, DoneOK, Empty
  <1>3. TxsOK
    BY <1>1 DEF PageInit, TxsOK, GoodTx
  <1>4. SelectionOK /\ isRegistered \in BOOLEAN /\ RegisteredOnChain
    BY <1>1 DEF PageInit, SelectionOK, RegisteredOnChain
  <1> QED  BY <1>1, <1>2, <1>3, <1>4 DEF ArtistInv

------------------------------------------------------------------------------
(***************************************************************************)
(* Clicks.                                                                 *)
(***************************************************************************)
LEMMA SendStep ==
    ASSUME ArtistInv, NEW s \in Txs, NEW call \in PageCall, Send(s, call)
    PROVE  ArtistInv'
  <1> DEFINE x == [at |-> "signing", call |-> call]
  <1>1. GoodTx(x)
    BY DEF GoodTx, Sent
  <1>2. /\ tx' = [tx EXCEPT ![s] = x] /\ UNCHANGED vars /\ UNCHANGED done /\ UNCHANGED isRegistered
        /\ UNCHANGED <<collections, selectedCollection, openModals>>
    BY DEF Send, register, manager
  <1> HIDE DEF x
  <1>3. TxsOK'
    BY <1>1, <1>2, TxGoesOn
  <1> QED  BY <1>2, <1>3, AllStays DEF ArtistInv

LEMMA ClickSteps ==
    ASSUME ArtistInv, NEW s \in Txs, Click(s)
    PROVE  ArtistInv'
  <1>1. CASE registerAsArtist(s)
    BY <1>1, SendStep DEF registerAsArtist, PageCall
  <1>2. ASSUME NEW item \in ItemId, burnNFT(s, item) PROVE ArtistInv'
    <2>1. selectedCollection \in CollectionId
      BY <1>2 DEF burnNFT, ArtistInv, SelectionOK
    <2>2. [name |-> "burn", c |-> selectedCollection, item |-> item] \in PageCall
      BY <2>1 DEF PageCall
    <2> QED  BY <1>2, <2>2, SendStep DEF burnNFT
  <1>3. ASSUME NEW m \in Metadata, createCollection(s, m) PROVE ArtistInv'
    <2>1. [name |-> "createCollection", metadata |-> m] \in PageCall
      BY DEF PageCall
    <2> QED  BY <1>3, <2>1, SendStep DEF createCollection
  <1>4. ASSUME NEW m \in Metadata, NEW p \in Prices, createNFT(s, m, p) PROVE ArtistInv'
    <2>1. selectedCollection \in CollectionId
      BY <1>4 DEF createNFT, ArtistInv, SelectionOK
    <2>2. [name |-> "createNft", c |-> selectedCollection, metadata |-> m, price |-> p] \in PageCall
      BY <2>1 DEF PageCall
    <2> QED  BY <1>4, <2>2, SendStep DEF createNFT
  <1> QED  BY <1>1, <1>2, <1>3, <1>4 DEF Click

------------------------------------------------------------------------------
(***************************************************************************)
(* The way of an extrinsic.                                                *)
(***************************************************************************)
\* The dispatch of a call of the page is a call of the pallet.
LEMMA DispatchIsCall ==
    ASSUME NEW call \in PageCall, Dispatch(call)
    PROVE  /\ Next
           /\ call.name = "register" => register_artist(Me)
           /\ call.name = "burn" => <<call.c, call.item>> \in NftKey /\ burn_nft(Me, <<call.c, call.item>>)
  <1>0. Me \in Accounts
    BY ArtistAssumption
  <1>1. CASE call.name = "register"
    BY <1>0, <1>1 DEF Dispatch, Next
  <1>2. CASE call.name = "createCollection"
    <2>1. call.metadata \in Metadata /\ create_collection(Me, call.metadata)
      BY <1>2 DEF Dispatch, PageCall
    <2> QED  BY <1>0, <1>2, <2>1 DEF Next
  <1>3. CASE call.name = "createNft"
    <2>1. /\ call.c \in CollectionId /\ call.metadata \in Metadata /\ call.price \in Prices
          /\ create_nft(Me, call.c, call.metadata, call.price)
      BY <1>3 DEF Dispatch, PageCall
    <2> QED  BY <1>0, <1>3, <2>1 DEF Next
  <1>4. CASE call.name = "burn"
    <2>1. <<call.c, call.item>> \in NftKey /\ burn_nft(Me, <<call.c, call.item>>)
      BY <1>4 DEF Dispatch, PageCall
    <2> QED  BY <1>0, <1>4, <2>1 DEF Next
  <1> QED  BY <1>1, <1>2, <1>3, <1>4 DEF Dispatch

\* A call that takes effect has not taken effect before, where that matters.
LEMMA DoneStep ==
    ASSUME ArtistInv, NEW s \in Txs, includedOk(s)
    PROVE  DoneOK'
  <1>c. PICK call : call = tx[s].call
    OBVIOUS
  <1>0. tx[s] \in Sent /\ IdsInv /\ TypeOK /\ DoneOK
    BY TxFacts DEF includedOk, ArtistInv, IdsInv
  <1>1. call \in PageCall /\ Dispatch(call)
    BY <1>c, <1>0 DEF includedOk, Sent
  <1>2. /\ Next
        /\ call.name = "register" => register_artist(Me)
        /\ call.name = "burn" => <<call.c, call.item>> \in NftKey /\ burn_nft(Me, <<call.c, call.item>>)
    BY <1>1, DispatchIsCall
  <1>3. done' = IF call \in DOMAIN done THEN [done EXCEPT ![call] = @ + 1] ELSE Insert(done, call, 1)
    BY <1>c DEF includedOk
  <1>4. /\ DOMAIN done' = DOMAIN done \cup {call}
        /\ \A k \in DOMAIN done \ {call} : done'[k] = done[k]
        /\ call \notin DOMAIN done => done'[call] = 1
    BY <1>3 DEF Insert
  <1>5. ASSUME NEW k \in DOMAIN done \ {call} PROVE Spent(k)'
    <2>1. Spent(k)
      BY <1>0, <1>5 DEF DoneOK
    <2>2. done'[k] = done[k]
      BY <1>4, <1>5
    <2>3. k.name = "register" => done'[k] = 1 /\ Me \in Artists'
      BY <1>2, <2>1, <2>2, ArtistsStay DEF Spent
    <2>4. ASSUME k.name = "burn", k.item # MaxItemId
          PROVE  /\ done'[k] = 1
                 /\ <<k.c, k.item>> \in NftKey \ DOMAIN Nfts'
                 /\ k.item < NextItemId'[k.c]
      <3> DEFINE key == <<k.c, k.item>>
      <3>1. /\ key \in NftKey /\ key \notin DOMAIN Nfts /\ key[1] = k.c /\ key[2] = k.item
            /\ key[2] < NextItemId[key[1]] /\ key[2] # MaxItemId /\ done'[k] = 1
        BY <2>1, <2>2, <2>4 DEF Spent
      <3> HIDE DEF key
      <3>2. key[2] < NextItemId'[key[1]] /\ key \notin DOMAIN Nfts'
        BY <1>0, <1>2, <3>1, IdNamesOneNft
      <3> QED  BY <3>1, <3>2 DEF key
    <2> QED  BY <2>3, <2>4 DEF Spent
  <1>6. Spent(call)'
    <2>1. CASE call.name = "register"
      <3>1. Me \notin Artists /\ Me \in Artists'
        BY <1>2, <2>1 DEF register_artist, register_artist_result
      <3>2. call \notin DOMAIN done
        BY <1>0, <2>1, <3>1 DEF DoneOK, Spent
      <3>3. done'[call] = 1
        BY <1>4, <3>2
      <3> QED  BY <2>1, <3>1, <3>3 DEF Spent
    <2>2. CASE call.name = "burn"
      <3> DEFINE key == <<call.c, call.item>>
      <3>1. /\ key \in NftKey /\ key \in DOMAIN Nfts /\ DOMAIN Nfts' = DOMAIN Nfts \ {key}
            /\ UNCHANGED NextItemId
        BY <1>0, <1>2, <2>2, BurnNftEffect, ArtistAssumption
      <3>2. call.item < NextItemId[call.c] \/ call.item = MaxItemId
        BY <1>0, <3>1 DEF IdsInv, IdsBelowCounters
      <3>3. call.item # MaxItemId => call \notin DOMAIN done
        BY <1>0, <2>2, <3>1 DEF DoneOK, Spent
      <3> HIDE DEF key
      <3>4. call.item # MaxItemId => done'[call] = 1 /\ call.item < NextItemId'[call.c]
        BY <1>4, <3>1, <3>2, <3>3
      <3>5. key \in NftKey \ DOMAIN Nfts'
        BY <3>1
      <3> QED  BY <2>2, <3>4, <3>5 DEF Spent, key
    <2>3. CASE call.name \notin {"register", "burn"}
      BY <2>3 DEF Spent
    <2> QED  BY <2>1, <2>2, <2>3
  <1> QED  BY <1>4, <1>5, <1>6 DEF DoneOK

\* Included with success.
LEMMA IncludedOkStep ==
    ASSUME ArtistInv, NEW s \in Txs, includedOk(s)
    PROVE  ArtistInv'
  <1>0. tx[s] \in Sent
    BY TxFacts DEF includedOk
  <1>1. tx[s].call \in PageCall /\ Dispatch(tx[s].call)
    BY <1>0 DEF includedOk, Sent
  <1>2. Next /\ (tx[s].call.name = "register" => Me \in Artists')
    BY <1>1, DispatchIsCall DEF register_artist
  <1>3. PICK x : x = [at |-> "inBlock", call |-> tx[s].call, dispatchError |-> FALSE]
    OBVIOUS
  <1>4. GoodTx(x)'
    BY <1>1, <1>2, <1>3 DEF GoodTx, InBlock
  <1>5. TxsOK'
    BY <1>2, <1>3, <1>4, OneTx DEF includedOk
  <1>6. DoneOK'
    BY DoneStep
  <1>7. UNCHANGED isRegistered /\ UNCHANGED <<collections, selectedCollection, openModals>>
    BY DEF includedOk, register, manager
  <1> QED  BY <1>2, <1>5, <1>6, <1>7, AllStays DEF ArtistInv

LEMMA TxSteps ==
    ASSUME ArtistInv, NEW s \in Txs, TxStep(s)
    PROVE  ArtistInv'
  <1>1. CASE includedOk(s)
    BY <1>1, IncludedOkStep
  <1>2. GoodTx(Idle)
    BY DEF GoodTx
  <1>3. CASE signed(s)
    <2> DEFINE x == [tx[s] EXCEPT !.at = "inPool"]
    <2>1. GoodTx(x)
      BY <1>3, TxFacts DEF signed, GoodTx, Sent
    <2>2. tx' = [tx EXCEPT ![s] = x]
      BY <1>3 DEF signed, ArtistInv, TxsOK
    <2>3. /\ UNCHANGED vars /\ UNCHANGED done /\ UNCHANGED isRegistered
          /\ UNCHANGED <<collections, selectedCollection, openModals>>
      BY <1>3 DEF signed, register, manager
    <2> HIDE DEF x
    <2>4. TxsOK'
      BY <2>1, <2>2, <2>3, TxGoesOn
    <2> QED  BY <2>3, <2>4, AllStays DEF ArtistInv
  <1>4. CASE signFailed(s) \/ dropped(s)
    <2>1. /\ UNCHANGED vars /\ UNCHANGED done /\ UNCHANGED isRegistered
          /\ UNCHANGED <<collections, selectedCollection, openModals>>
          /\ tx' = [tx EXCEPT ![s] = Idle]
      BY <1>4 DEF signFailed, dropped, register, manager
    <2>2. TxsOK'
      BY <1>2, <2>1, TxGoesOn
    <2> QED  BY <2>1, <2>2, AllStays DEF ArtistInv
  <1>5. CASE includedError(s)
    <2> DEFINE x == [at |-> "inBlock", call |-> tx[s].call, dispatchError |-> TRUE]
    <2>1. GoodTx(x)
      BY <1>5, TxFacts DEF includedError, GoodTx, Sent, InBlock
    <2>2. /\ UNCHANGED vars /\ UNCHANGED done /\ UNCHANGED isRegistered
          /\ UNCHANGED <<collections, selectedCollection, openModals>>
          /\ tx' = [tx EXCEPT ![s] = x]
      BY <1>5 DEF includedError, register, manager
    <2> HIDE DEF x
    <2>3. TxsOK'
      BY <2>1, <2>2, TxGoesOn
    <2> QED  BY <2>2, <2>3, AllStays DEF ArtistInv
  <1>6. CASE registered(s)
    <2>1. /\ UNCHANGED vars /\ UNCHANGED done
          /\ UNCHANGED <<collections, selectedCollection, openModals>>
          /\ tx' = [tx EXCEPT ![s] = Idle]
          /\ isRegistered' = (isRegistered \/ ~tx[s].dispatchError)
      BY <1>6 DEF registered
    <2>2. TxsOK'
      BY <1>2, <2>1, TxGoesOn
    <2>3. isRegistered' \in BOOLEAN
      BY <2>1
    <2>4. tx[s].dispatchError \/ Me \in Artists
      BY <1>6, TxFacts DEF registered
    <2>5. RegisteredOnChain'
      BY <2>1, <2>4 DEF RegisteredOnChain, ArtistInv, vars
    <2> QED  BY <2>1, <2>2, <2>3, <2>5, AllStays DEF ArtistInv
  <1>7. ASSUME collectionCreated(s) \/ \E l \in Loads : burned(s, l) \/ nftCreated(s, l)
        PROVE  ArtistInv'
    <2>1. /\ UNCHANGED vars /\ UNCHANGED done /\ UNCHANGED isRegistered
          /\ UNCHANGED <<collections, selectedCollection>> /\ openModals' \subseteq openModals
          /\ tx' = [tx EXCEPT ![s] = Idle]
      BY <1>7 DEF collectionCreated, burned, nftCreated, register, manager
    <2>2. TxsOK'
      BY <1>2, <2>1, TxGoesOn
    <2>3. SelectionOK'
      BY <2>1 DEF SelectionOK, ArtistInv
    <2> QED  BY <2>1, <2>2, <2>3, AllStays DEF ArtistInv
  <1> QED  BY <1>1, <1>3, <1>4, <1>5, <1>6, <1>7 DEF TxStep

------------------------------------------------------------------------------
(***************************************************************************)
(* The other steps.                                                        *)
(***************************************************************************)
\* Answers of the chain, the selection and the modals.
LEMMA PageSteps ==
    ASSUME ArtistInv,
           \/ \E answered \in BOOLEAN : checkArtistStatus(answered) \/ loadCollections(answered)
           \/ \E l \in Loads : LoadStep(l)
           \/ \E c \in CollectionId, l \in Loads : setSelectedCollection(c, l)
           \/ \E name \in {"createCollection", "createNft"} : openModal(name) \/ closeModal(name)
    PROVE  ArtistInv'
  <1>0. UNCHANGED vars /\ UNCHANGED <<tx, done>>
    BY DEF checkArtistStatus, loadCollections, LoadStep, loadNextItemId, loadItem, loadFailed,
           setSelectedCollection, openModal, closeModal
  <1>1. IdsInv' /\ TxsOK' /\ DoneOK' /\ Artists' = Artists
    BY <1>0, AllStays DEF vars
  <1>a. ASSUME NEW l \in Loads, LoadStep(l)
        PROVE  UNCHANGED <<isRegistered, collections, selectedCollection, openModals>>
    BY <1>a DEF LoadStep, loadNextItemId, loadItem, loadFailed, manager, register
  <1>b. ASSUME NEW name \in {"createCollection", "createNft"}, openModal(name) \/ closeModal(name)
        PROVE  UNCHANGED isRegistered
    BY <1>b DEF openModal, closeModal, register
  <1>2. isRegistered' \in BOOLEAN /\ RegisteredOnChain'
    <2>1. CASE UNCHANGED isRegistered
      BY <1>0, <2>1, AllStays
    <2>2. ASSUME NEW answered \in BOOLEAN, checkArtistStatus(answered)
          PROVE  isRegistered' \in BOOLEAN /\ RegisteredOnChain'
      BY <1>1, <2>2 DEF checkArtistStatus, RegisteredOnChain, ArtistInv
    <2> QED  BY <1>a, <1>b, <2>1, <2>2 DEF loadCollections, setSelectedCollection, register
  <1>3. SelectionOK'
    <2>1. CASE UNCHANGED <<collections, selectedCollection, openModals>>
      BY <1>0, <2>1, AllStays
    <2>2. ASSUME NEW answered \in BOOLEAN, loadCollections(answered) PROVE SelectionOK'
      BY <2>2 DEF loadCollections, SelectionOK, ArtistInv, IdsInv, TypeOK
    <2>3. ASSUME NEW c \in CollectionId, NEW l \in Loads, setSelectedCollection(c, l) PROVE SelectionOK'
      <3>1. c # None
        BY BoundsAssumption, ArtistAssumption
      <3> QED  BY <2>3, <3>1 DEF setSelectedCollection, SelectionOK, ArtistInv
    <2>4. ASSUME NEW name \in {"createCollection", "createNft"}, openModal(name) \/ closeModal(name)
          PROVE  SelectionOK'
      BY <2>4 DEF openModal, closeModal, manager, SelectionOK, ArtistInv
    <2> QED  BY <1>a, <2>1, <2>2, <2>3, <2>4 DEF checkArtistStatus, manager
  <1> QED  BY <1>1, <1>2, <1>3 DEF ArtistInv

\* Calls from elsewhere.
LEMMA ElsewhereSteps ==
    ASSUME ArtistInv,
           \/ \E who \in Accounts : othersCall(who)
           \/ \E to \in Accounts \ {Me}, amount \in Amounts : spendElsewhere(to, amount)
    PROVE  ArtistInv'
  <1>1. Next
    BY ArtistAssumption DEF othersCall, spendElsewhere, Next
  <1>2. UNCHANGED <<tx, done>> /\ UNCHANGED isRegistered
        /\ UNCHANGED <<collections, selectedCollection, openModals>>
    BY DEF othersCall, spendElsewhere, register, manager
  <1> QED  BY <1>1, <1>2, AllStays DEF ArtistInv

------------------------------------------------------------------------------
(***************************************************************************)
(* The theorems.                                                           *)
(***************************************************************************)
\* One case per kind of step.
LEMMA ArtistInvNext == ArtistInv /\ [ArtistNext]_artistVars => ArtistInv'
  <1> SUFFICES ASSUME ArtistInv, [ArtistNext]_artistVars PROVE ArtistInv'
    OBVIOUS
  <1>1. CASE UNCHANGED artistVars
    <2>1. UNCHANGED vars /\ UNCHANGED <<tx, done>> /\ UNCHANGED isRegistered
          /\ UNCHANGED <<collections, selectedCollection, openModals>>
      BY <1>1 DEF artistVars, register, manager
    <2> QED  BY <2>1, AllStays DEF ArtistInv
  <1>2. CASE ArtistNext
    BY <1>2, ClickSteps, TxSteps, PageSteps, ElsewhereSteps DEF ArtistNext
  <1> QED  BY <1>1, <1>2

\* The inductive invariant of the artist's pages.
THEOREM ArtistInvariant == ArtistSpec => []ArtistInv
  BY ArtistInvInit, ArtistInvNext, PTL DEF ArtistSpec

\* Registering from the page costs the fee once, however many registrations are signed.
THEOREM FeeNeverPaidTwice == ArtistSpec => []FeePaidOnce
  <1>1. ArtistInv => FeePaidOnce
    BY DEF ArtistInv, DoneOK, Spent, FeePaidOnce
  <1> QED  BY ArtistInvariant, <1>1, PTL

\* A Burn button, however stale its row, burns no NFT but the one it was shown for.
THEOREM NothingBurnedTwice == ArtistSpec => []BurnedOnce
  <1>1. ArtistInv => BurnedOnce
    BY DEF ArtistInv, DoneOK, Spent, BurnedOnce
  <1> QED  BY ArtistInvariant, <1>1, PTL

\* The page shows the tools of an artist only to an artist of the chain.
THEOREM ShownAsArtistIsArtist == ArtistSpec => []RegisteredOnChain
  <1>1. ArtistInv => RegisteredOnChain
    BY DEF ArtistInv
  <1> QED  BY ArtistInvariant, <1>1, PTL

=============================================================================
