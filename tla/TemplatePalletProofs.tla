------------------------ MODULE TemplatePalletProofs ------------------------
(***************************************************************************)
(* Proofs about TemplatePallet for every set of accounts, every width of   *)
(* the ids, every bound of the vectors and every genesis.                  *)
(***************************************************************************)
EXTENDS TemplatePallet, FiniteSetTheorems, TLAPS

USE DEF AllAccounts, CollectionId, ItemId, NftKey

------------------------------------------------------------------------------
(***************************************************************************)
(* Facts about the operators the calls are built from.                     *)
(***************************************************************************)
\* StorageMap::remove drops one key and keeps the other values.
LEMMA RemoveFacts ==
    ASSUME NEW T, NEW map, map \in [DOMAIN map -> T], NEW key
    PROVE  /\ DOMAIN Remove(map, key) = DOMAIN map \ {key}
           /\ Remove(map, key) \in [DOMAIN Remove(map, key) -> T]
           /\ \A k \in DOMAIN map \ {key} : Remove(map, key)[k] = map[k]
  BY DEF Remove

\* saturating_add(1) stays in range, never goes back, and stops only at the end.
LEMMA SaturatingSuccFacts ==
    ASSUME NEW max \in Nat, NEW id \in 0 .. max
    PROVE  /\ SaturatingSucc(id, max) \in 0 .. max
           /\ id <= SaturatingSucc(id, max)
           /\ id # max => id < SaturatingSucc(id, max)
  BY DEF SaturatingSucc

\* The vector operations keep the vector a bag of item ids.
LEMMA VectorFacts ==
    ASSUME NEW nfts \in [ItemId -> Nat], NEW item \in ItemId
    PROVE  /\ NoNfts \in [ItemId -> Nat]
           /\ Push(nfts, item) \in [ItemId -> Nat]
           /\ Without(nfts, item) \in [ItemId -> Nat]
           /\ \A i \in ItemId : Push(nfts, item)[i] = IF i = item THEN nfts[i] + 1 ELSE nfts[i]
           /\ \A i \in ItemId : Without(nfts, item)[i] = IF i = item THEN 0 ELSE nfts[i]
  BY BoundsAssumption DEF NoNfts, Push, Without

\* A transfer signed by an account with a key keeps balances non-negative and
\* takes nothing from the account without one.
LEMMA TransferFacts ==
    ASSUME balance \in [AllAccounts -> Nat],
           NEW from \in Accounts, NEW to \in AllAccounts, NEW amount \in Nat,
           CanTransfer(from, to, amount), Transfer(from, to, amount)
    PROVE  /\ balance' \in [AllAccounts -> Nat]
           /\ balance'[PalletAccount] >= balance[PalletAccount]
           /\ from # to => balance'[to] = balance[to] + amount
  <1>1. CASE amount = 0 \/ from = to
    BY <1>1 DEF Transfer
  <1>2. CASE ~(amount = 0 \/ from = to)
    <2>1. amount <= balance[from] /\ balance[from] \in Nat /\ balance[to] \in Nat
      BY <1>2 DEF CanTransfer
    <2>2. Remainder(balance[from] - amount) \in Nat
      BY <2>1 DEF Remainder
    <2>3. balance' = [balance EXCEPT ![from] = Remainder(@ - amount), ![to] = @ + amount]
      BY <1>2 DEF Transfer
    <2> QED  BY <1>2, <2>1, <2>2, <2>3, AccountsAssumption
  <1> QED  BY <1>1, <1>2

\* The fee is a balance.
LEMMA RegistrationFeeIsNat == registration_fee \in Nat
  BY BalanceAssumption DEF registration_fee

------------------------------------------------------------------------------
(***************************************************************************)
(* Type correctness.                                                       *)
(***************************************************************************)
\* Genesis storage is typed.
LEMMA InitTypeOK == Init => TypeOK
  BY BoundsAssumption, BalanceAssumption DEF Init, TypeOK

\* Every dispatched call keeps storage typed; one case per call.
LEMMA NextTypeOK == TypeOK /\ [Next]_vars => TypeOK'
  <1> SUFFICES ASSUME TypeOK, [Next]_vars PROVE TypeOK'
    OBVIOUS
  <1> USE BoundsAssumption
  <1>1. ASSUME NEW who \in Accounts, register_artist(who) PROVE TypeOK'
    <2>1. CanTransfer(who, PalletAccount, registration_fee)
      BY <1>1 DEF register_artist, register_artist_result, CanTransferKeepAlive
    <2>2. balance' \in [AllAccounts -> Nat]
      BY <1>1, <2>1, TransferFacts, RegistrationFeeIsNat DEF register_artist, TypeOK
    <2> QED  BY <1>1, <2>2 DEF register_artist, TypeOK
  <1>2. ASSUME NEW who \in Accounts, NEW m \in Metadata, create_collection(who, m) PROVE TypeOK'
    <2>1. m \in 0 .. MaxMetadata
      BY <1>2, InputsAssumption DEF create_collection, create_collection_result
    <2> DEFINE new == [creator |-> who, metadata |-> m, nfts |-> NoNfts]
    <2>2. new \in Collection
      BY <2>1 DEF Collection, NoNfts
    <2>3. /\ DOMAIN Collections' = DOMAIN Collections \cup {NextCollectionId}
          /\ Collections' \in [DOMAIN Collections' -> Collection]
      BY <1>2, <2>2 DEF create_collection, TypeOK, Insert
    <2>4. NextCollectionId' \in CollectionId
      BY <1>2, SaturatingSuccFacts DEF create_collection, TypeOK
    <2> QED  BY <1>2, <2>3, <2>4 DEF create_collection, TypeOK
  <1>3. ASSUME NEW who \in Accounts, NEW c \in CollectionId, delete_collection(who, c) PROVE TypeOK'
    <2>1. /\ DOMAIN Collections' = DOMAIN Collections \ {c}
          /\ Collections' \in [DOMAIN Collections' -> Collection]
      BY <1>3, RemoveFacts DEF delete_collection, TypeOK
    <2> QED  BY <1>3, <2>1 DEF delete_collection, TypeOK
  <1>4. ASSUME NEW who \in Accounts, NEW c \in CollectionId, NEW m \in Metadata, NEW p \in Prices,
               create_nft(who, c, m, p)
        PROVE  TypeOK'
    <2> DEFINE item == NextItemId[c]
               new == [owner |-> who, metadata |-> m, is_sold |-> FALSE, price |-> p]
    <2>1. c \in DOMAIN Collections /\ m \in 0 .. MaxMetadata
      BY <1>4, InputsAssumption DEF create_nft, create_nft_result
    <2>2. new \in NFT
      BY <2>1 DEF NFT
    <2>3. item \in ItemId
      BY DEF TypeOK
    <2>4. /\ DOMAIN Nfts' = DOMAIN Nfts \cup {<<c, item>>}
          /\ Nfts' \in [DOMAIN Nfts' -> NFT]
      BY <1>4, <2>2 DEF create_nft, TypeOK, Insert
    <2>5. Collections[c] \in Collection
      BY <2>1 DEF TypeOK
    <2>6. Push(Collections[c].nfts, item) \in [ItemId -> Nat]
      BY <2>3, <2>5, VectorFacts DEF Collection
    <2>7. /\ DOMAIN Collections' = DOMAIN Collections
          /\ Collections' \in [DOMAIN Collections' -> Collection]
      BY <1>4, <2>1, <2>5, <2>6 DEF create_nft, TypeOK, Collection
    <2>8. NextItemId' \in [CollectionId -> ItemId]
      BY <1>4, <2>3, SaturatingSuccFacts DEF create_nft, TypeOK
    <2>9. <<c, item>> \in NftKey /\ c \in CollectionId
      BY <2>3
    <2> HIDE DEF item
    <2>10. DOMAIN Nfts' \subseteq NftKey
      BY <2>4, <2>9 DEF TypeOK
    <2> QED  BY <1>4, <2>4, <2>7, <2>8, <2>10 DEF create_nft, TypeOK
  <1>5. ASSUME NEW who \in Accounts, NEW key \in NftKey, NEW to \in AllAccounts,
               transfer_nft(who, key, to)
        PROVE  TypeOK'
    <2>1. key \in DOMAIN Nfts
      BY <1>5 DEF transfer_nft, transfer_nft_result
    <2>2. Nfts' \in [DOMAIN Nfts' -> NFT] /\ DOMAIN Nfts' = DOMAIN Nfts
      BY <1>5, <2>1, ZenonT(30) DEF transfer_nft, TypeOK, NFT
    <2> QED  BY <1>5, <2>2 DEF transfer_nft, TypeOK
  <1>6. ASSUME NEW who \in Accounts, NEW key \in NftKey, burn_nft(who, key) PROVE TypeOK'
    <2>1. key[1] \in DOMAIN Collections /\ Collections[key[1]] \in Collection /\ key[2] \in ItemId
      BY <1>6 DEF burn_nft, burn_nft_result, TypeOK
    <2>2. Without(Collections[key[1]].nfts, key[2]) \in [ItemId -> Nat]
      BY <2>1, VectorFacts DEF Collection
    <2>3. Collections' \in [DOMAIN Collections' -> Collection] /\ DOMAIN Collections' = DOMAIN Collections
      BY <1>6, <2>1, <2>2 DEF burn_nft, TypeOK, Collection
    <2>4. Nfts' \in [DOMAIN Nfts' -> NFT] /\ DOMAIN Nfts' = DOMAIN Nfts \ {key}
      BY <1>6, RemoveFacts DEF burn_nft, TypeOK
    <2> QED  BY <1>6, <2>3, <2>4 DEF burn_nft, TypeOK
  <1>7. ASSUME NEW who \in Accounts, NEW key \in NftKey, mint_nft(who, key) PROVE TypeOK'
    <2>1. key \in DOMAIN Nfts /\ Nfts[key] \in NFT
      BY <1>7 DEF mint_nft, mint_nft_result, TypeOK
    <2>2. Nfts' \in [DOMAIN Nfts' -> NFT] /\ DOMAIN Nfts' = DOMAIN Nfts
      BY <1>7, <2>1 DEF mint_nft, TypeOK, NFT
    <2>3. CanTransfer(who, Nfts[key].owner, Nfts[key].price)
      BY <1>7 DEF mint_nft, mint_nft_result, CanTransferKeepAlive
    <2>4. Nfts[key].owner \in AllAccounts /\ Nfts[key].price \in Nat
      BY <2>1, InputsAssumption DEF NFT
    <2>5. balance' \in [AllAccounts -> Nat]
      BY <1>7, <2>3, <2>4, TransferFacts DEF mint_nft, TypeOK
    <2> QED  BY <1>7, <2>2, <2>5 DEF mint_nft, TypeOK
  <1>8. ASSUME NEW who \in Accounts, NEW to \in AllAccounts, NEW amount \in Amounts,
               transfer_allow_death(who, to, amount)
        PROVE  TypeOK'
    <2>1. balance' \in [AllAccounts -> Nat]
      BY <1>8, TransferFacts, InputsAssumption DEF transfer_allow_death, TypeOK
    <2> QED  BY <1>8, <2>1 DEF transfer_allow_death, TypeOK
  <1>9. CASE UNCHANGED vars
    BY <1>9 DEF vars, TypeOK
  <1> QED  BY <1>1, <1>2, <1>3, <1>4, <1>5, <1>6, <1>7, <1>8, <1>9 DEF Next

(***************************************************************************)
(* No sequence of calls, by any accounts, takes the storage of the pallet  *)
(* out of its declared types.                                              *)
(***************************************************************************)
THEOREM TypeCorrect == Spec => []TypeOK
  BY InitTypeOK, NextTypeOK, PTL DEF Spec

------------------------------------------------------------------------------
(***************************************************************************)
(* What the four calls that change which ids are in storage do to it.      *)
(***************************************************************************)
\* create_collection adds an empty collection under the counter.
LEMMA CreateCollectionEffect ==
    ASSUME TypeOK, NEW who \in Accounts, NEW m \in Metadata, create_collection(who, m)
    PROVE  /\ DOMAIN Collections' = DOMAIN Collections \cup {NextCollectionId}
           /\ Collections'[NextCollectionId].creator = who
           /\ \A i \in ItemId : Collections'[NextCollectionId].nfts[i] = 0
           /\ \A c \in DOMAIN Collections \ {NextCollectionId} : Collections'[c] = Collections[c]
           /\ NextCollectionId' = SaturatingSucc(NextCollectionId, MaxCollectionId)
           /\ UNCHANGED <<Artists, Nfts, NextItemId, balance>>
  BY DEF create_collection, Insert, NoNfts

\* delete_collection removes the collection and nothing else.
LEMMA DeleteCollectionEffect ==
    ASSUME TypeOK, NEW who \in Accounts, NEW c \in CollectionId, delete_collection(who, c)
    PROVE  /\ DOMAIN Collections' = DOMAIN Collections \ {c}
           /\ \A d \in DOMAIN Collections' : Collections'[d] = Collections[d]
           /\ UNCHANGED <<Artists, Nfts, NextItemId, NextCollectionId, balance>>
  BY DEF delete_collection, Remove

\* create_nft stores an NFT under the counter and lists it in its collection.
LEMMA CreateNftEffect ==
    ASSUME TypeOK, NEW who \in Accounts, NEW c \in CollectionId, NEW m \in Metadata,
           NEW p \in Prices, create_nft(who, c, m, p)
    PROVE  /\ c \in DOMAIN Collections
           /\ NextItemId[c] \in ItemId /\ <<c, NextItemId[c]>> \in NftKey
           /\ DOMAIN Nfts' = DOMAIN Nfts \cup {<<c, NextItemId[c]>>}
           /\ Nfts'[<<c, NextItemId[c]>>] = [owner |-> who, metadata |-> m, is_sold |-> FALSE, price |-> p]
           /\ \A key \in DOMAIN Nfts \ {<<c, NextItemId[c]>>} : Nfts'[key] = Nfts[key]
           /\ DOMAIN Collections' = DOMAIN Collections
           /\ \A d \in DOMAIN Collections \ {c} : Collections'[d] = Collections[d]
           /\ Collections'[c].creator = Collections[c].creator
           /\ Collections'[c].nfts[NextItemId[c]] = Collections[c].nfts[NextItemId[c]] + 1
           /\ \A i \in ItemId \ {NextItemId[c]} : Collections'[c].nfts[i] = Collections[c].nfts[i]
           /\ NextItemId' \in [CollectionId -> ItemId]
           /\ NextItemId'[c] = SaturatingSucc(NextItemId[c], MaxItemId)
           /\ \A d \in CollectionId \ {c} : NextItemId'[d] = NextItemId[d]
           /\ UNCHANGED <<Artists, NextCollectionId, balance>>
  <1> DEFINE item == NextItemId[c]
  <1>1. c \in DOMAIN Collections /\ Collections[c] \in Collection
    BY DEF create_nft, create_nft_result, TypeOK
  <1>2. item \in ItemId /\ <<c, item>> \in NftKey
    BY DEF TypeOK
  <1>3. /\ DOMAIN Nfts' = DOMAIN Nfts \cup {<<c, item>>}
        /\ Nfts'[<<c, item>>] = [owner |-> who, metadata |-> m, is_sold |-> FALSE, price |-> p]
        /\ \A key \in DOMAIN Nfts \ {<<c, item>>} : Nfts'[key] = Nfts[key]
    BY DEF create_nft, Insert
  <1>5. Collections[c].nfts \in [ItemId -> Nat]
    BY <1>1 DEF Collection
  <1>6. \A i \in ItemId : Push(Collections[c].nfts, item)[i] =
               IF i = item THEN Collections[c].nfts[i] + 1 ELSE Collections[c].nfts[i]
    BY <1>2, <1>5, VectorFacts, SMTT(30)
  <1>7. /\ DOMAIN Collections' = DOMAIN Collections
        /\ \A d \in DOMAIN Collections \ {c} : Collections'[d] = Collections[d]
        /\ Collections'[c].creator = Collections[c].creator
        /\ Collections'[c].nfts = Push(Collections[c].nfts, item)
    BY <1>1 DEF create_nft, TypeOK, Collection
  <1>8. /\ NextItemId' \in [CollectionId -> ItemId]
        /\ NextItemId'[c] = SaturatingSucc(item, MaxItemId)
        /\ \A d \in CollectionId \ {c} : NextItemId'[d] = NextItemId[d]
    BY <1>2, SaturatingSuccFacts, BoundsAssumption DEF create_nft, TypeOK
  <1>9. /\ Collections'[c].nfts[item] = Collections[c].nfts[item] + 1
        /\ \A i \in ItemId \ {item} : Collections'[c].nfts[i] = Collections[c].nfts[i]
    BY <1>2, <1>6, <1>7
  <1>10. UNCHANGED <<Artists, NextCollectionId, balance>>
    BY DEF create_nft
  <1> HIDE DEF item
  <1>11. c \in DOMAIN Collections /\ item \in ItemId /\ <<c, item>> \in NftKey
    BY <1>1, <1>2
  <1> QED  BY <1>3, <1>7, <1>8, <1>9, <1>10, <1>11, Zenon DEF item

\* burn_nft removes an NFT that is on sale and unlists it.
LEMMA BurnNftEffect ==
    ASSUME TypeOK, NEW who \in Accounts, NEW key \in NftKey, burn_nft(who, key)
    PROVE  /\ key \in DOMAIN Nfts /\ ~Nfts[key].is_sold
           /\ key[1] \in DOMAIN Collections
           /\ DOMAIN Nfts' = DOMAIN Nfts \ {key}
           /\ \A k \in DOMAIN Nfts' : Nfts'[k] = Nfts[k]
           /\ DOMAIN Collections' = DOMAIN Collections
           /\ \A d \in DOMAIN Collections \ {key[1]} : Collections'[d] = Collections[d]
           /\ Collections'[key[1]].creator = Collections[key[1]].creator
           /\ \A i \in ItemId : Collections'[key[1]].nfts[i] =
                                    IF i = key[2] THEN 0 ELSE Collections[key[1]].nfts[i]
           /\ UNCHANGED <<Artists, NextItemId, NextCollectionId, balance>>
  <1> DEFINE c == key[1]
             item == key[2]
  <1>1. /\ key \in DOMAIN Nfts /\ ~Nfts[key].is_sold
        /\ c \in DOMAIN Collections /\ Collections[c] \in Collection /\ item \in ItemId
    BY DEF burn_nft, burn_nft_result, TypeOK
  <1>2. /\ DOMAIN Nfts' = DOMAIN Nfts \ {key}
        /\ \A k \in DOMAIN Nfts' : Nfts'[k] = Nfts[k]
    BY DEF burn_nft, Remove
  <1>4. Collections[c].nfts \in [ItemId -> Nat]
    BY <1>1 DEF Collection
  <1>5. \A i \in ItemId : Without(Collections[c].nfts, item)[i] =
                             IF i = item THEN 0 ELSE Collections[c].nfts[i]
    BY <1>1, <1>4, VectorFacts
  <1>6. /\ DOMAIN Collections' = DOMAIN Collections
        /\ \A d \in DOMAIN Collections \ {c} : Collections'[d] = Collections[d]
        /\ Collections'[c].creator = Collections[c].creator
        /\ Collections'[c].nfts = Without(Collections[c].nfts, item)
    BY <1>1 DEF burn_nft, TypeOK, Collection
  <1>7. \A i \in ItemId : Collections'[c].nfts[i] = IF i = item THEN 0 ELSE Collections[c].nfts[i]
    BY <1>5, <1>6
  <1>8. UNCHANGED <<Artists, NextItemId, NextCollectionId, balance>>
    BY DEF burn_nft
  <1> QED  BY <1>1, <1>2, <1>6, <1>7, <1>8

\* Giving and selling change the owner of one NFT and take it off the market.
LEMMA NewOwnerEffect ==
    ASSUME TypeOK, NEW who \in Accounts, NEW key \in NftKey, NEW to \in AllAccounts,
           transfer_nft(who, key, to) \/ (mint_nft(who, key) /\ to = who)
    PROVE  /\ key \in DOMAIN Nfts
           /\ DOMAIN Nfts' = DOMAIN Nfts
           /\ \A k \in DOMAIN Nfts \ {key} : Nfts'[k] = Nfts[k]
           /\ Nfts'[key].owner = to /\ Nfts'[key].is_sold
           /\ Nfts'[key].price = Nfts[key].price
           /\ UNCHANGED <<Artists, Collections, NextItemId, NextCollectionId>>
  <1>1. key \in DOMAIN Nfts /\ Nfts[key] \in NFT
    BY DEF transfer_nft, transfer_nft_result, mint_nft, mint_nft_result, TypeOK
  <1>2. Nfts' = [Nfts EXCEPT ![key] = [@ EXCEPT !.owner = to, !.is_sold = TRUE]]
    BY DEF transfer_nft, mint_nft
  <1>3. /\ DOMAIN Nfts' = DOMAIN Nfts
        /\ \A k \in DOMAIN Nfts \ {key} : Nfts'[k] = Nfts[k]
        /\ Nfts'[key].owner = to /\ Nfts'[key].is_sold
        /\ Nfts'[key].price = Nfts[key].price
    BY <1>1, <1>2 DEF TypeOK, NFT
  <1> QED  BY <1>1, <1>3 DEF transfer_nft, mint_nft

\* The other calls leave the ids in storage alone.
LEMMA OtherEffect ==
    ASSUME TypeOK,
           \/ \E who \in Accounts : register_artist(who)
           \/ \E who \in Accounts, key \in NftKey, to \in AllAccounts : transfer_nft(who, key, to)
           \/ \E who \in Accounts, key \in NftKey : mint_nft(who, key)
           \/ \E who \in Accounts, to \in AllAccounts, amount \in Amounts :
                 transfer_allow_death(who, to, amount)
           \/ UNCHANGED vars
    PROVE  /\ DOMAIN Nfts' = DOMAIN Nfts
           /\ UNCHANGED <<Collections, NextItemId, NextCollectionId>>
  <1>1. ASSUME NEW who \in Accounts, NEW key \in NftKey, mint_nft(who, key)
        PROVE  DOMAIN Nfts' = DOMAIN Nfts
    BY <1>1, NewOwnerEffect
  <1> QED  BY <1>1, NewOwnerEffect
           DEF register_artist, transfer_nft, mint_nft, transfer_allow_death, vars

------------------------------------------------------------------------------
(***************************************************************************)
(* Ids.  The inductive invariant: everything in storage is below the       *)
(* counters, the vectors agree with the NFTs, and no id is listed twice.   *)
(***************************************************************************)
IdsInv == TypeOK /\ IdsBelowCounters /\ ListMatchesStorage /\ ListedOnce

\* No id is used at genesis.
LEMMA InitIdsInv == Init => IdsInv
  BY InitTypeOK DEF Init, IdsInv, IdsBelowCounters, ListMatchesStorage, ListedOnce

\* The id invariant is inductive; one case per call that touches an id.
LEMMA NextIdsInv == IdsInv /\ [Next]_vars => IdsInv'
  <1> SUFFICES ASSUME IdsInv, [Next]_vars PROVE IdsInv'
    OBVIOUS
  <1> USE BoundsAssumption
  <1>1. TypeOK /\ TypeOK'
    BY NextTypeOK DEF IdsInv
  <1> DEFINE Goal == IdsBelowCounters' /\ ListMatchesStorage' /\ ListedOnce'
  <1>2. ASSUME NEW who \in Accounts, NEW m \in Metadata, create_collection(who, m) PROVE Goal
    <2> DEFINE n == NextCollectionId
    <2>1. n \in CollectionId /\ n <= NextCollectionId' /\ (n # MaxCollectionId => n < NextCollectionId')
      BY <1>1, <1>2, SaturatingSuccFacts DEF create_collection, TypeOK
    <2>2. n # MaxCollectionId => \A key \in DOMAIN Nfts : key[1] # n
      BY <1>1 DEF IdsInv, IdsBelowCounters, TypeOK
    <2>3. NextCollectionId' \in CollectionId
      BY <1>1 DEF TypeOK
    <2>a. /\ DOMAIN Collections' = DOMAIN Collections \cup {n}
          /\ \A i \in ItemId : Collections'[n].nfts[i] = 0
          /\ \A c \in DOMAIN Collections \ {n} : Collections'[c] = Collections[c]
          /\ UNCHANGED <<Nfts, NextItemId>>
      BY <1>1, <1>2, CreateCollectionEffect
    <2>b. \A c \in DOMAIN Collections : c \in CollectionId
      BY <1>1 DEF TypeOK
    <2>c. \A key \in DOMAIN Nfts : key[1] \in CollectionId
      BY <1>1 DEF TypeOK
    <2> HIDE DEF n
    <2>4. IdsBelowCounters'
      <3>1. \A c \in CollectionId : c < n => c < NextCollectionId'
        BY <2>1, <2>3
      <3>2. \A c \in DOMAIN Collections' : c < NextCollectionId' \/ c = MaxCollectionId
        BY <2>1, <2>a, <2>b, <3>1 DEF IdsInv, IdsBelowCounters, n
      <3>3. \A c \in DOMAIN Collections' : \A i \in ItemId :
               Collections'[c].nfts[i] > 0 => i < NextItemId'[c] \/ i = MaxItemId
        BY <2>a DEF IdsInv, IdsBelowCounters
      <3>4. \A key \in DOMAIN Nfts' :
               /\ key[1] < NextCollectionId' \/ key[1] = MaxCollectionId
               /\ key[2] < NextItemId'[key[1]] \/ key[2] = MaxItemId
        BY <2>a, <2>c, <3>1 DEF IdsInv, IdsBelowCounters, n
      <3> QED  BY <3>2, <3>3, <3>4 DEF IdsBelowCounters
    <2>5. ListMatchesStorage'
      <3> SUFFICES ASSUME NEW c \in DOMAIN Collections' \ {MaxCollectionId}, NEW i \in ItemId
                   PROVE  Collections'[c].nfts[i] > 0 <=> <<c, i>> \in DOMAIN Nfts'
        BY DEF ListMatchesStorage
      <3>1. CASE c = n
        <4>1. <<c, i>>[1] = n
          BY <3>1
        <4> QED  BY <2>2, <2>a, <3>1, <4>1
      <3>2. CASE c # n
        BY <2>a, <3>2 DEF IdsInv, ListMatchesStorage
      <3> QED  BY <3>1, <3>2
    <2>6. ListedOnce'
      BY <2>a DEF IdsInv, ListedOnce
    <2> QED  BY <2>4, <2>5, <2>6
  <1>3. ASSUME NEW who \in Accounts, NEW c \in CollectionId, delete_collection(who, c) PROVE Goal
    BY <1>1, <1>3, DeleteCollectionEffect
       DEF IdsInv, IdsBelowCounters, ListMatchesStorage, ListedOnce
  <1>4. ASSUME NEW who \in Accounts, NEW c \in CollectionId, NEW m \in Metadata, NEW p \in Prices,
               create_nft(who, c, m, p)
        PROVE  Goal
    <2> DEFINE item == NextItemId[c]
    <2>1. /\ c \in DOMAIN Collections
          /\ item \in ItemId
          /\ DOMAIN Nfts' = DOMAIN Nfts \cup {<<c, item>>}
          /\ DOMAIN Collections' = DOMAIN Collections
          /\ \A d \in DOMAIN Collections \ {c} : Collections'[d] = Collections[d]
          /\ Collections'[c].nfts[item] = Collections[c].nfts[item] + 1
          /\ \A i \in ItemId \ {item} : Collections'[c].nfts[i] = Collections[c].nfts[i]
          /\ NextItemId'[c] = SaturatingSucc(item, MaxItemId)
          /\ \A d \in CollectionId \ {c} : NextItemId'[d] = NextItemId[d]
          /\ NextCollectionId' = NextCollectionId
      BY <1>1, <1>4, CreateNftEffect, ZenonT(30)
    <2>2. /\ NextItemId'[c] \in ItemId
          /\ item <= NextItemId'[c]
          /\ item # MaxItemId => item < NextItemId'[c]
          /\ \A d \in CollectionId \ {c} : NextItemId'[d] = NextItemId[d]
      BY <1>1, <2>1, SaturatingSuccFacts DEF TypeOK
    <2>3. \A d \in DOMAIN Collections : \A i \in ItemId : Collections[d].nfts[i] \in Nat
      BY <1>1, ZenonT(30) DEF TypeOK, Collection
    <2> HIDE DEF item
    <2>4. \A d \in DOMAIN Collections' : d < NextCollectionId' \/ d = MaxCollectionId
      BY <2>1 DEF IdsInv, IdsBelowCounters
    <2>5. ASSUME NEW d \in DOMAIN Collections', NEW i \in ItemId, Collections'[d].nfts[i] > 0
          PROVE  i < NextItemId'[d] \/ i = MaxItemId
      <3>0. d \in CollectionId /\ NextItemId[d] \in ItemId
        BY <1>1, <2>1 DEF TypeOK
      <3>1. CASE d = c /\ i = item
        BY <2>2, <3>1
      <3>2. CASE d = c /\ i # item
        <4>1. i < NextItemId[c] \/ i = MaxItemId
          BY <2>1, <2>5, <3>2 DEF IdsInv, IdsBelowCounters
        <4> QED  BY <2>1, <2>2, <3>0, <3>2, <4>1 DEF item
      <3>3. CASE d # c
        BY <2>1, <2>2, <2>5, <3>0, <3>3 DEF IdsInv, IdsBelowCounters
      <3> QED  BY <3>1, <3>2, <3>3
    <2>6. ASSUME NEW key \in DOMAIN Nfts'
          PROVE  /\ key[1] < NextCollectionId' \/ key[1] = MaxCollectionId
                 /\ key[2] < NextItemId'[key[1]] \/ key[2] = MaxItemId
      <3>1. CASE key = <<c, item>>
        BY <2>1, <2>2, <3>1 DEF IdsInv, IdsBelowCounters
      <3>2. CASE key # <<c, item>>
        <4>1. key \in DOMAIN Nfts /\ key[1] \in CollectionId /\ key[2] \in ItemId
          BY <1>1, <2>1, <3>2 DEF TypeOK
        <4>2. /\ NextItemId[key[1]] \in ItemId /\ NextItemId'[key[1]] \in ItemId
              /\ NextItemId[key[1]] <= NextItemId'[key[1]]
          <5>1. CASE key[1] = c
            BY <1>1, <2>1, <2>2, <5>1 DEF item
          <5>2. CASE key[1] # c
            BY <1>1, <2>2, <4>1, <5>2, SMTT(30) DEF TypeOK
          <5> QED  BY <5>1, <5>2
        <4>3. /\ key[1] < NextCollectionId \/ key[1] = MaxCollectionId
              /\ key[2] < NextItemId[key[1]] \/ key[2] = MaxItemId
          BY <4>1 DEF IdsInv, IdsBelowCounters
        <4> QED  BY <2>1, <4>1, <4>2, <4>3
      <3> QED  BY <3>1, <3>2
    <2>7. IdsBelowCounters'
      BY <2>4, <2>5, <2>6 DEF IdsBelowCounters
    <2>8. ListMatchesStorage'
      <3> SUFFICES ASSUME NEW d \in DOMAIN Collections' \ {MaxCollectionId}, NEW i \in ItemId
                   PROVE  Collections'[d].nfts[i] > 0 <=> <<d, i>> \in DOMAIN Nfts'
        BY DEF ListMatchesStorage
      <3>1. Collections[d].nfts[i] > 0 <=> <<d, i>> \in DOMAIN Nfts
        BY <2>1 DEF IdsInv, ListMatchesStorage
      <3>2. CASE d = c /\ i = item
        BY <2>1, <2>3, <3>2
      <3>3. CASE ~(d = c /\ i = item)
        BY <2>1, <3>1, <3>3
      <3> QED  BY <3>2, <3>3
    <2>9. ListedOnce'
      <3> SUFFICES ASSUME NEW d \in DOMAIN Collections', NEW i \in ItemId \ {MaxItemId}
                   PROVE  Collections'[d].nfts[i] <= 1
        BY DEF ListedOnce
      <3>1. Collections[d].nfts[i] <= 1 /\ Collections[d].nfts[i] \in Nat
        BY <2>1, <2>3 DEF IdsInv, ListedOnce
      <3>2. CASE d = c /\ i = item
        <4>1. ~(Collections[c].nfts[item] > 0)
          BY <2>1, <3>2 DEF IdsInv, IdsBelowCounters, item
        <4> QED  BY <2>1, <2>3, <3>2, <4>1
      <3>3. CASE ~(d = c /\ i = item)
        BY <2>1, <3>1, <3>3
      <3> QED  BY <3>2, <3>3
    <2> QED  BY <2>7, <2>8, <2>9
  <1>5. ASSUME NEW who \in Accounts, NEW key \in NftKey, burn_nft(who, key) PROVE Goal
    <2> DEFINE c == key[1]
    <2>1. key = <<key[1], key[2]>> /\ key[2] \in ItemId
      OBVIOUS
    <2>a. /\ c \in DOMAIN Collections
          /\ DOMAIN Nfts' = DOMAIN Nfts \ {key}
          /\ DOMAIN Collections' = DOMAIN Collections
          /\ \A d \in DOMAIN Collections \ {c} : Collections'[d] = Collections[d]
          /\ \A i \in ItemId : Collections'[c].nfts[i] =
                                   IF i = key[2] THEN 0 ELSE Collections[c].nfts[i]
          /\ UNCHANGED <<NextItemId, NextCollectionId>>
      BY <1>1, <1>5, BurnNftEffect
    <2> HIDE DEF c
    <2>2. IdsBelowCounters'
      BY <2>a DEF IdsInv, IdsBelowCounters
    <2>3. ListMatchesStorage'
      <3> SUFFICES ASSUME NEW d \in DOMAIN Collections' \ {MaxCollectionId}, NEW i \in ItemId
                   PROVE  Collections'[d].nfts[i] > 0 <=> <<d, i>> \in DOMAIN Nfts'
        BY DEF ListMatchesStorage
      <3>1. Collections[d].nfts[i] > 0 <=> <<d, i>> \in DOMAIN Nfts
        BY <2>a DEF IdsInv, ListMatchesStorage
      <3>2. <<d, i>> = key <=> d = c /\ i = key[2]
        BY <2>1 DEF c
      <3> QED  BY <2>a, <3>1, <3>2
    <2>4. ListedOnce'
      BY <2>a DEF IdsInv, ListedOnce
    <2> QED  BY <2>2, <2>3, <2>4
  <1>6. ASSUME DOMAIN Nfts' = DOMAIN Nfts, UNCHANGED <<Collections, NextItemId, NextCollectionId>>
        PROVE  Goal
    BY <1>6 DEF IdsInv, IdsBelowCounters, ListMatchesStorage, ListedOnce
  <1>7. ASSUME NEW who \in Accounts,
               \/ register_artist(who)
               \/ \E k \in NftKey, to \in AllAccounts : transfer_nft(who, k, to)
               \/ \E k \in NftKey : mint_nft(who, k)
               \/ \E to \in AllAccounts, amount \in Amounts : transfer_allow_death(who, to, amount)
        PROVE  Goal
    <2>1. DOMAIN Nfts' = DOMAIN Nfts /\ UNCHANGED <<Collections, NextItemId, NextCollectionId>>
      BY <1>1, <1>7, OtherEffect
    <2> QED  BY <2>1, <1>6
  <1>8. ASSUME UNCHANGED vars PROVE Goal
    BY <1>6, <1>8 DEF vars
  <1>9. ASSUME Next PROVE Goal
    BY <1>2, <1>3, <1>4, <1>5, <1>7, <1>9 DEF Next
  <1> QED  BY <1>1, <1>8, <1>9 DEF IdsInv

(***************************************************************************)
(* The vector of a collection lists exactly the NFTs stored under it, each *)
(* once, whatever is burned or deleted in between, for every width of the  *)
(* ids.                                                                    *)
(***************************************************************************)
THEOREM IdsCorrect == Spec => [](IdsBelowCounters /\ ListMatchesStorage /\ ListedOnce)
  <1>1. IdsInv => IdsBelowCounters /\ ListMatchesStorage /\ ListedOnce
    BY DEF IdsInv
  <1> QED  BY InitIdsInv, NextIdsInv, <1>1, PTL DEF Spec

\* Every stored id has been handed out, those of deleted collections included, so that
\* create_nft and create_collection write under a fresh one.
THEOREM IdsStayBelowCounters == Spec => []IdsBelowCounters
  BY IdsCorrect, PTL

\* try_push never lists an NFT a second time.
THEOREM ListedOnceHolds == Spec => []ListedOnce
  BY IdsCorrect, PTL

------------------------------------------------------------------------------
(***************************************************************************)
(* Money.                                                                  *)
(***************************************************************************)
\* No call takes anything from the account that nobody signs for.
LEMMA PalletAccountOnlyReceives ==
    ASSUME TypeOK, [Next]_vars
    PROVE  balance'[PalletAccount] >= balance[PalletAccount]
  <1>0. balance[PalletAccount] \in Nat
    BY DEF TypeOK
  <1>1. ASSUME NEW who \in Accounts, register_artist(who)
        PROVE  balance'[PalletAccount] >= balance[PalletAccount]
    <2>1. CanTransfer(who, PalletAccount, registration_fee)
      BY <1>1 DEF register_artist, register_artist_result, CanTransferKeepAlive
    <2> QED  BY <1>1, <2>1, TransferFacts, RegistrationFeeIsNat DEF register_artist, TypeOK
  <1>2. ASSUME NEW who \in Accounts, NEW key \in NftKey, mint_nft(who, key)
        PROVE  balance'[PalletAccount] >= balance[PalletAccount]
    <2>1. Nfts[key].owner \in AllAccounts /\ Nfts[key].price \in Nat
      BY <1>2, InputsAssumption DEF mint_nft, mint_nft_result, TypeOK, NFT
    <2>2. CanTransfer(who, Nfts[key].owner, Nfts[key].price)
      BY <1>2 DEF mint_nft, mint_nft_result, CanTransferKeepAlive
    <2> QED  BY <1>2, <2>1, <2>2, TransferFacts DEF mint_nft, TypeOK
  <1>3. ASSUME NEW who \in Accounts, NEW to \in AllAccounts, NEW amount \in Amounts,
               transfer_allow_death(who, to, amount)
        PROVE  balance'[PalletAccount] >= balance[PalletAccount]
    BY <1>3, TransferFacts, InputsAssumption DEF transfer_allow_death, TypeOK
  <1>4. ASSUME UNCHANGED balance
        PROVE  balance'[PalletAccount] >= balance[PalletAccount]
    BY <1>0, <1>4
  <1> QED  BY <1>1, <1>2, <1>3, <1>4
           DEF Next, create_collection, delete_collection, create_nft, transfer_nft, burn_nft, vars

MoneyInv == TypeOK /\ TreasuryCoversFees /\ ProceedsAreSpendable

\* No artist is registered and nothing is on sale at genesis.
LEMMA InitMoneyInv == Init => MoneyInv
  <1> SUFFICES ASSUME Init PROVE MoneyInv
    OBVIOUS
  <1>1. Cardinality(Artists) = 0
    BY FS_EmptySet DEF Init
  <1>2. balance[PalletAccount] \in Nat
    BY BalanceAssumption DEF Init
  <1>3. TreasuryCoversFees
    BY <1>1, <1>2, RegistrationFeeIsNat DEF TreasuryCoversFees
  <1> QED  BY <1>3, InitTypeOK DEF Init, MoneyInv, ProceedsAreSpendable

\* A new artist pays the fee, and what the pallet account has it keeps.
LEMMA NextTreasury == TypeOK /\ TreasuryCoversFees /\ [Next]_vars => TreasuryCoversFees'
  <1> SUFFICES ASSUME TypeOK, TreasuryCoversFees, [Next]_vars PROVE TreasuryCoversFees'
    OBVIOUS
  <1>1. IsFiniteSet(Artists) /\ Cardinality(Artists) \in Nat
    BY AccountsAssumption, FS_Subset, FS_CardinalityType DEF TypeOK
  <1>2. balance[PalletAccount] \in Nat /\ balance'[PalletAccount] \in Nat
    BY NextTypeOK DEF TypeOK
  <1>3. balance[PalletAccount] >= registration_fee * Cardinality(Artists)
    BY DEF TreasuryCoversFees
  <1>4. ASSUME NEW who \in Accounts, register_artist(who) PROVE TreasuryCoversFees'
    <2>1. who \notin Artists /\ CanTransfer(who, PalletAccount, registration_fee)
      BY <1>4 DEF register_artist, register_artist_result, CanTransferKeepAlive
    <2>2. balance'[PalletAccount] = balance[PalletAccount] + registration_fee
      BY <1>4, <2>1, TransferFacts, RegistrationFeeIsNat, AccountsAssumption
         DEF register_artist, TypeOK
    <2>3. Cardinality(Artists') = Cardinality(Artists) + 1
      BY <1>1, <1>4, <2>1, FS_AddElement DEF register_artist
    <2>4. \A fee, n, b \in Nat : b >= fee * n => b + fee >= fee * (n + 1)
      OBVIOUS
    <2>5. balance'[PalletAccount] >= registration_fee * Cardinality(Artists')
      BY <1>1, <1>2, <1>3, <2>2, <2>3, <2>4, RegistrationFeeIsNat
    <2> QED  BY <2>5 DEF TreasuryCoversFees, registration_fee
  <1>5. ASSUME UNCHANGED Artists PROVE TreasuryCoversFees'
    <2>1. balance'[PalletAccount] >= registration_fee * Cardinality(Artists)
      <3>1. registration_fee * Cardinality(Artists) \in Nat
        BY <1>1, RegistrationFeeIsNat
      <3> QED  BY <1>2, <1>3, <3>1, PalletAccountOnlyReceives
    <2> QED  BY <1>5, <2>1 DEF TreasuryCoversFees, registration_fee
  <1> QED  BY <1>4, <1>5
           DEF Next, create_collection, delete_collection, create_nft, transfer_nft, burn_nft,
               mint_nft, transfer_allow_death, vars

\* An NFT is on sale only while its creator, who has a key, owns it.
LEMMA NextProceeds == TypeOK /\ ProceedsAreSpendable /\ [Next]_vars => ProceedsAreSpendable'
  <1> SUFFICES ASSUME TypeOK, ProceedsAreSpendable, [Next]_vars PROVE ProceedsAreSpendable'
    OBVIOUS
  <1>1. ASSUME NEW who \in Accounts, NEW c \in CollectionId, NEW m \in Metadata, NEW p \in Prices,
               create_nft(who, c, m, p)
        PROVE  ProceedsAreSpendable'
    <2> DEFINE new == <<c, NextItemId[c]>>
               nft == [owner |-> who, metadata |-> m, is_sold |-> FALSE, price |-> p]
    <2>1. /\ DOMAIN Nfts' = DOMAIN Nfts \cup {new}
          /\ Nfts'[new] = nft
          /\ \A key \in DOMAIN Nfts \ {new} : Nfts'[key] = Nfts[key]
      BY <1>1, CreateNftEffect, ZenonT(30)
    <2>2. nft.owner = who
      OBVIOUS
    <2> HIDE DEF new, nft
    <2> QED  BY <2>1, <2>2 DEF ProceedsAreSpendable
  <1>2. ASSUME NEW who \in Accounts, NEW key \in NftKey, burn_nft(who, key)
        PROVE  ProceedsAreSpendable'
    <2>1. DOMAIN Nfts' = DOMAIN Nfts \ {key} /\ \A k \in DOMAIN Nfts' : Nfts'[k] = Nfts[k]
      BY <1>2, BurnNftEffect
    <2> QED  BY <2>1 DEF ProceedsAreSpendable
  <1>3. ASSUME NEW who \in Accounts, NEW key \in NftKey, NEW to \in AllAccounts,
               transfer_nft(who, key, to) \/ (mint_nft(who, key) /\ to = who)
        PROVE  ProceedsAreSpendable'
    <2>1. /\ DOMAIN Nfts' = DOMAIN Nfts /\ Nfts'[key].is_sold
          /\ \A k \in DOMAIN Nfts \ {key} : Nfts'[k] = Nfts[k]
      BY <1>3, NewOwnerEffect
    <2> QED  BY <2>1 DEF ProceedsAreSpendable
  <1>4. ASSUME UNCHANGED Nfts PROVE ProceedsAreSpendable'
    BY <1>4 DEF ProceedsAreSpendable
  <1> QED  BY <1>1, <1>2, <1>3, <1>4
           DEF Next, register_artist, create_collection, delete_collection, transfer_allow_death, vars

(***************************************************************************)
(* The pallet's account always holds the registration fees of all artists, *)
(* and the price of a sale never goes to the account nobody can sign for.  *)
(***************************************************************************)
THEOREM MoneyCorrect == Spec => [](TreasuryCoversFees /\ ProceedsAreSpendable)
  <1>1. MoneyInv /\ [Next]_vars => MoneyInv'
    BY NextTypeOK, NextTreasury, NextProceeds DEF MoneyInv
  <1>2. MoneyInv => TreasuryCoversFees /\ ProceedsAreSpendable
    BY DEF MoneyInv
  <1> QED  BY InitMoneyInv, <1>1, <1>2, PTL DEF Spec

\* An NFT on sale belongs to an account that can sign, also after transfer_nft to the
\* account of the pallet.
THEOREM ProceedsStaySpendable == Spec => []ProceedsAreSpendable
  BY MoneyCorrect, PTL

------------------------------------------------------------------------------
(***************************************************************************)
(* What a step never does.                                                 *)
(***************************************************************************)
\* A step never gives an id below the counter to another collection.
LEMMA StepCollectionIdUsedOnce == IdsInv /\ [Next]_vars => CollectionIdUsedOnce
  <1> SUFFICES ASSUME IdsInv, [Next]_vars,
                      NEW c \in CollectionId \ {MaxCollectionId},
                      c < NextCollectionId, c \in DOMAIN Collections'
               PROVE  c \in DOMAIN Collections /\ Collections'[c].creator = Collections[c].creator
    BY DEF CollectionIdUsedOnce
  <1> DEFINE Goal == c \in DOMAIN Collections /\ Collections'[c].creator = Collections[c].creator
  <1>0. TypeOK
    BY DEF IdsInv
  <1>1. ASSUME NEW who \in Accounts, NEW m \in Metadata, create_collection(who, m) PROVE Goal
    <2>1. c # NextCollectionId
      BY <1>0, BoundsAssumption DEF TypeOK
    <2> QED  BY <1>0, <1>1, <2>1, CreateCollectionEffect
  <1>2. ASSUME NEW who \in Accounts, NEW d \in CollectionId, delete_collection(who, d) PROVE Goal
    BY <1>0, <1>2, DeleteCollectionEffect
  <1>3. ASSUME NEW who \in Accounts, NEW d \in CollectionId, NEW m \in Metadata, NEW p \in Prices,
               create_nft(who, d, m, p)
        PROVE  Goal
    <2>1. /\ DOMAIN Collections' = DOMAIN Collections
          /\ \A e \in DOMAIN Collections \ {d} : Collections'[e] = Collections[e]
          /\ Collections'[d].creator = Collections[d].creator
      BY <1>0, <1>3, CreateNftEffect
    <2> QED  BY <2>1
  <1>4. ASSUME NEW who \in Accounts, NEW key \in NftKey, burn_nft(who, key) PROVE Goal
    <2>1. /\ DOMAIN Collections' = DOMAIN Collections
          /\ \A e \in DOMAIN Collections \ {key[1]} : Collections'[e] = Collections[e]
          /\ Collections'[key[1]].creator = Collections[key[1]].creator
      BY <1>0, <1>4, BurnNftEffect
    <2> QED  BY <2>1
  <1>5. ASSUME UNCHANGED Collections PROVE Goal
    BY <1>5
  <1> QED  BY <1>1, <1>2, <1>3, <1>4, <1>5
           DEF Next, register_artist, transfer_nft, mint_nft, transfer_allow_death, vars

\* A collection id below the last one names one collection for ever.
THEOREM CollectionIdsUsedOnceHolds == Spec => CollectionIdsUsedOnce
  BY InitIdsInv, NextIdsInv, StepCollectionIdUsedOnce, PTL DEF Spec, CollectionIdsUsedOnce

\* A step neither removes an orphan nor brings its collection back.
LEMMA StepOrphanPersists == IdsInv /\ [Next]_vars => OrphanPersists
  <1> SUFFICES ASSUME IdsInv, [Next]_vars, NEW key \in NftKey,
                      key[1] # MaxCollectionId, Orphan(key)
               PROVE  Orphan(key)'
    BY DEF OrphanPersists
  <1>0. TypeOK /\ key \in DOMAIN Nfts /\ key[1] \notin DOMAIN Collections /\ key[1] \in CollectionId
    BY DEF IdsInv, Orphan
  <1> DEFINE Goal == key \in DOMAIN Nfts' /\ key[1] \notin DOMAIN Collections'
  <1>1. ASSUME NEW who \in Accounts, NEW m \in Metadata, create_collection(who, m) PROVE Goal
    <2>1. key[1] < NextCollectionId
      BY <1>0 DEF IdsInv, IdsBelowCounters
    <2>2. key[1] # NextCollectionId
      BY <1>0, <2>1, BoundsAssumption DEF TypeOK
    <2>3. DOMAIN Collections' = DOMAIN Collections \cup {NextCollectionId} /\ UNCHANGED Nfts
      BY <1>0, <1>1, CreateCollectionEffect
    <2> QED  BY <1>0, <2>2, <2>3
  <1>2. ASSUME NEW who \in Accounts, NEW d \in CollectionId, delete_collection(who, d) PROVE Goal
    BY <1>0, <1>2, DeleteCollectionEffect
  <1>3. ASSUME NEW who \in Accounts, NEW d \in CollectionId, NEW m \in Metadata, NEW p \in Prices,
               create_nft(who, d, m, p)
        PROVE  Goal
    BY <1>0, <1>3, CreateNftEffect, ZenonT(30)
  <1>4. ASSUME NEW who \in Accounts, NEW k \in NftKey, burn_nft(who, k) PROVE Goal
    <2>1. /\ k[1] \in DOMAIN Collections
          /\ DOMAIN Nfts' = DOMAIN Nfts \ {k}
          /\ DOMAIN Collections' = DOMAIN Collections
      BY <1>0, <1>4, BurnNftEffect
    <2> QED  BY <1>0, <2>1
  <1>5. ASSUME DOMAIN Nfts' = DOMAIN Nfts, UNCHANGED Collections PROVE Goal
    BY <1>0, <1>5
  <1>6. ASSUME NEW who \in Accounts,
               \/ register_artist(who)
               \/ \E k \in NftKey, to \in AllAccounts : transfer_nft(who, k, to)
               \/ \E k \in NftKey : mint_nft(who, k)
               \/ \E to \in AllAccounts, amount \in Amounts : transfer_allow_death(who, to, amount)
        PROVE  Goal
    <2>1. DOMAIN Nfts' = DOMAIN Nfts /\ UNCHANGED Collections
      BY <1>0, <1>6, OtherEffect
    <2> QED  BY <2>1, <1>5
  <1>7. ASSUME UNCHANGED vars PROVE Goal
    BY <1>5, <1>7 DEF vars
  <1>8. ASSUME Next PROVE Goal
    BY <1>1, <1>2, <1>3, <1>4, <1>6, <1>8 DEF Next
  <1> QED  BY <1>7, <1>8 DEF Orphan

\* The NFTs of a deleted collection stay with their owners for ever.
THEOREM OrphansPersistHolds == Spec => OrphansPersist
  BY InitIdsInv, NextIdsInv, StepOrphanPersists, PTL DEF Spec, OrphansPersist

------------------------------------------------------------------------------
(***************************************************************************)
(* What a client that remembers an item id may rely on: once the counter   *)
(* has passed the id, no call brings another NFT under it, changes the     *)
(* price of the one there is, or removes or unsells one that is sold.      *)
(***************************************************************************)
LEMMA IdNamesOneNft ==
    ASSUME IdsInv, [Next]_vars, NEW key \in NftKey,
           key[2] # MaxItemId, key[2] < NextItemId[key[1]]
    PROVE  /\ key[2] < NextItemId'[key[1]]
           /\ key \in DOMAIN Nfts' => key \in DOMAIN Nfts /\ Nfts'[key].price = Nfts[key].price
           /\ key \in DOMAIN Nfts /\ Nfts[key].is_sold => key \in DOMAIN Nfts' /\ Nfts'[key].is_sold
  <1> DEFINE Goal == /\ key[2] < NextItemId'[key[1]]
                     /\ key \in DOMAIN Nfts' => key \in DOMAIN Nfts /\ Nfts'[key].price = Nfts[key].price
                     /\ key \in DOMAIN Nfts /\ Nfts[key].is_sold
                           => key \in DOMAIN Nfts' /\ Nfts'[key].is_sold
  <1>0. TypeOK /\ key[1] \in CollectionId /\ key[2] \in ItemId /\ key = <<key[1], key[2]>>
    BY DEF IdsInv
  <1>1. ASSUME NEW who \in Accounts, NEW c \in CollectionId, NEW m \in Metadata, NEW p \in Prices,
               create_nft(who, c, m, p)
        PROVE  Goal
    <2> DEFINE new == <<c, NextItemId[c]>>
    <2>1. /\ DOMAIN Nfts' = DOMAIN Nfts \cup {new}
          /\ \A k \in DOMAIN Nfts \ {new} : Nfts'[k] = Nfts[k]
          /\ NextItemId'[c] = SaturatingSucc(NextItemId[c], MaxItemId)
          /\ \A d \in CollectionId \ {c} : NextItemId'[d] = NextItemId[d]
      BY <1>0, <1>1, CreateNftEffect, ZenonT(30)
    <2>2. NextItemId[c] \in ItemId
      BY <1>0 DEF TypeOK
    <2>3. key # new
      BY <1>0, <2>2, BoundsAssumption
    <2>4. NextItemId[c] <= SaturatingSucc(NextItemId[c], MaxItemId)
      BY <2>2, SaturatingSuccFacts, BoundsAssumption
    <2>5. SaturatingSucc(NextItemId[c], MaxItemId) \in Nat
      BY <2>2, SaturatingSuccFacts, BoundsAssumption
    <2>6. key[2] < NextItemId'[key[1]]
      BY <1>0, <2>1, <2>2, <2>4, <2>5
    <2> HIDE DEF new
    <2> QED  BY <2>1, <2>3, <2>6
  <1>2. ASSUME NEW who \in Accounts, NEW k \in NftKey, burn_nft(who, k) PROVE Goal
    BY <1>0, <1>2, BurnNftEffect
  <1>3. ASSUME NEW who \in Accounts, NEW k \in NftKey, NEW to \in AllAccounts,
               transfer_nft(who, k, to) \/ (mint_nft(who, k) /\ to = who)
        PROVE  Goal
    BY <1>0, <1>3, NewOwnerEffect
  <1>4. ASSUME UNCHANGED <<Nfts, NextItemId>> PROVE Goal
    BY <1>4
  <1>5. ASSUME NEW who \in Accounts, NEW k \in NftKey, mint_nft(who, k) PROVE Goal
    BY <1>3, <1>5
  <1> QED
    BY <1>1, <1>2, <1>3, <1>4, <1>5
    DEF Next, vars, register_artist, create_collection, delete_collection, transfer_allow_death

=============================================================================
