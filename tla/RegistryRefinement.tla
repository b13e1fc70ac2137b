------------------------- MODULE RegistryRefinement -------------------------
(***************************************************************************)
(* The pallet implements the life cycle of an NFT that NftRegistry states. *)
(***************************************************************************)
EXTENDS TemplatePalletProofs

USE DEF AllAccounts, CollectionId, ItemId, NftKey

\* A step that changes no NFT below the last id is a payment of the registry.
LEMMA PayStep ==
    ASSUME TypeOK', Tokens' = Tokens
    PROVE  Registry!Next
  BY DEF TypeOK, Registry!Next, Registry!Pay

\* A token only depends on its own NFT and on its collection's counter.
LEMMA TokenUnchanged ==
    ASSUME NEW key \in RegistryKey,
           key \in DOMAIN Nfts <=> key \in DOMAIN Nfts',
           key \in DOMAIN Nfts => Nfts'[key] = Nfts[key],
           key \notin DOMAIN Nfts =>
               (key[2] < NextItemId[key[1]] <=> key[2] < NextItemId'[key[1]])
    PROVE  TokenOf(key)' = TokenOf(key)
  BY DEF TokenOf

\* When no token changes, the tokens are the same function.
LEMMA SameTokens ==
    ASSUME \A key \in RegistryKey : TokenOf(key)' = TokenOf(key)
    PROVE  Tokens' = Tokens
  BY DEF Tokens, RegistryKey

\* When one token changes, the tokens are the old ones except that one.
LEMMA OneToken ==
    ASSUME NEW key \in RegistryKey, NEW t, TokenOf(key)' = t,
           \A k \in RegistryKey : k # key => TokenOf(k)' = TokenOf(k)
    PROVE  /\ Tokens[key] = TokenOf(key)
           /\ Tokens' = [Tokens EXCEPT ![key] = t]
  <1>1. /\ Tokens = [k \in RegistryKey |-> TokenOf(k)]
        /\ Tokens' = [k \in RegistryKey |-> TokenOf(k)']
    BY DEF Tokens, RegistryKey
  <1> QED  BY <1>1

\* The last item id, at which the counter stops, is not a token of the registry.
LEMMA LastIdIsNoToken ==
    ASSUME NEW key, key[2] = MaxItemId
    PROVE  key \notin RegistryKey
  BY DEF RegistryKey

\* create_nft is Create, or a payment when the item counter has stopped.
LEMMA CreateNftStep ==
    ASSUME IdsInv, TypeOK', NEW who \in Accounts, NEW c \in CollectionId, NEW m \in Metadata,
           NEW p \in Prices, create_nft(who, c, m, p)
    PROVE  Registry!Next
  <1>0. TypeOK
    BY DEF IdsInv
  <1>1. PICK item \in ItemId : item = NextItemId[c]
    BY <1>0 DEF TypeOK
  <1> DEFINE new == <<c, item>>
             nft == [owner |-> who, metadata |-> m, is_sold |-> FALSE, price |-> p]
  <1>2. /\ DOMAIN Nfts' = DOMAIN Nfts \cup {new}
        /\ Nfts'[new] = nft
        /\ \A key \in DOMAIN Nfts \ {new} : Nfts'[key] = Nfts[key]
        /\ NextItemId'[c] = SaturatingSucc(item, MaxItemId)
        /\ \A d \in CollectionId \ {c} : NextItemId'[d] = NextItemId[d]
        /\ UNCHANGED balance
    <2>1. /\ DOMAIN Nfts' = DOMAIN Nfts \cup {<<c, NextItemId[c]>>}
          /\ Nfts'[<<c, NextItemId[c]>>] = nft
          /\ \A key \in DOMAIN Nfts \ {<<c, NextItemId[c]>>} : Nfts'[key] = Nfts[key]
          /\ NextItemId'[c] = SaturatingSucc(NextItemId[c], MaxItemId)
          /\ \A d \in CollectionId \ {c} : NextItemId'[d] = NextItemId[d]
          /\ UNCHANGED balance
      BY <1>0, CreateNftEffect, ZenonT(30)
    <2> QED  BY <1>1, <2>1
  <1>3. new[1] = c /\ new[2] = item /\ new \in NftKey
    BY <1>1
  <1>4. \A i \in ItemId \ {MaxItemId, item} : i < item <=> i < SaturatingSucc(item, MaxItemId)
    BY <1>1, BoundsAssumption DEF SaturatingSucc
  <1>5. \A key \in RegistryKey : key # new => key[1] # c \/ key[2] # item
    BY <1>1 DEF RegistryKey
  <1>6. nft.is_sold = FALSE /\ nft.owner = who /\ nft.price = p
    OBVIOUS
  <1> HIDE DEF new, nft
  <1>7. \A key \in RegistryKey : key # new => TokenOf(key)' = TokenOf(key)
    <2> SUFFICES ASSUME NEW key \in RegistryKey, key # new PROVE TokenOf(key)' = TokenOf(key)
      OBVIOUS
    <2>1. key[1] \in CollectionId /\ key[2] \in ItemId /\ key[2] # MaxItemId
      BY DEF RegistryKey
    <2>2. key[2] < NextItemId[key[1]] <=> key[2] < NextItemId'[key[1]]
      <3>1. CASE key[1] # c
        BY <1>2, <2>1, <3>1
      <3>2. CASE key[1] = c
        <4>1. key[2] # item
          BY <1>5, <3>2
        <4> QED  BY <1>1, <1>2, <1>4, <2>1, <3>2, <4>1
      <3> QED  BY <3>1, <3>2
    <2>3. key \in DOMAIN Nfts <=> key \in DOMAIN Nfts'
      BY <1>2
    <2>4. key \in DOMAIN Nfts => Nfts'[key] = Nfts[key]
      BY <1>2
    <2> QED  BY <2>2, <2>3, <2>4, TokenUnchanged
  <1>8. CASE item = MaxItemId
    <2>1. new \notin RegistryKey
      BY <1>3, <1>8, LastIdIsNoToken
    <2> QED  BY <1>7, <2>1, SameTokens, PayStep
  <1>9. CASE item # MaxItemId
    <2>1. new \in RegistryKey
      BY <1>1, <1>9 DEF RegistryKey, new
    <2>2. new \notin DOMAIN Nfts
      <3>1. ~(item < item)
        BY <1>1, BoundsAssumption
      <3> QED  BY <1>1, <1>3, <1>9, <3>1 DEF IdsInv, IdsBelowCounters
    <2>3. TokenOf(new) = Registry!Unborn
      <3>1. ~(new[2] < NextItemId[new[1]])
        BY <1>1, <1>3, BoundsAssumption
      <3> QED  BY <2>2, <3>1 DEF TokenOf, Registry!Unborn
    <2>4. TokenOf(new)' = Registry!Token("onsale", who, p)
      <3>1. new \in DOMAIN Nfts'
        BY <1>2
      <3> QED  BY <1>2, <1>6, <3>1 DEF TokenOf, Registry!Token
    <2>5. /\ Tokens[new] = TokenOf(new)
          /\ Tokens' = [Tokens EXCEPT ![new] = Registry!Token("onsale", who, p)]
      BY <1>7, <2>1, <2>4, OneToken
    <2>6. Registry!Create(new, who, p) /\ who \in AllAccounts
      BY <1>2, <2>3, <2>5 DEF Registry!Create
    <2> QED  BY <2>1, <2>6, Zenon DEF Registry!Next
  <1> QED  BY <1>8, <1>9

\* burn_nft is Burn, or a payment when the item is the last id.
LEMMA BurnNftStep ==
    ASSUME IdsInv, TypeOK', NEW who \in Accounts, NEW key \in NftKey, burn_nft(who, key)
    PROVE  Registry!Next
  <1>0. TypeOK
    BY DEF IdsInv
  <1>1. /\ key \in DOMAIN Nfts /\ ~Nfts[key].is_sold
        /\ DOMAIN Nfts' = DOMAIN Nfts \ {key}
        /\ \A k \in DOMAIN Nfts' : Nfts'[k] = Nfts[k]
        /\ UNCHANGED <<NextItemId, balance>>
    BY <1>0, BurnNftEffect
  <1>2. \A k \in RegistryKey : k # key => TokenOf(k)' = TokenOf(k)
    BY <1>1, TokenUnchanged
  <1>3. CASE key[2] = MaxItemId
    <2>1. key \notin RegistryKey
      BY <1>3, LastIdIsNoToken
    <2> QED  BY <1>2, <2>1, SameTokens, PayStep
  <1>4. CASE key[2] # MaxItemId
    <2>1. key \in RegistryKey
      BY <1>4 DEF RegistryKey
    <2>2. TokenOf(key).state = "onsale"
      BY <1>1 DEF TokenOf
    <2>3. key[2] < NextItemId'[key[1]]
      BY <1>1, <1>4 DEF IdsInv, IdsBelowCounters
    <2>4. TokenOf(key)' = Registry!Burned
      BY <1>1, <2>3 DEF TokenOf, Registry!Burned
    <2>5. /\ Tokens[key] = TokenOf(key)
          /\ Tokens' = [Tokens EXCEPT ![key] = Registry!Burned]
      BY <1>2, <2>1, <2>4, OneToken
    <2>6. Registry!Burn(key)
      BY <1>1, <2>2, <2>5 DEF Registry!Burn
    <2> QED  BY <2>1, <2>6 DEF Registry!Next
  <1> QED  BY <1>3, <1>4

\* What giving and selling have in common.
LEMMA NewOwnerTokens ==
    ASSUME TypeOK, NEW who \in Accounts, NEW key \in NftKey, NEW to \in AllAccounts,
           transfer_nft(who, key, to) \/ (mint_nft(who, key) /\ to = who)
    PROVE  /\ key[2] = MaxItemId => Tokens' = Tokens
           /\ key[2] # MaxItemId =>
                 /\ key \in RegistryKey
                 /\ Tokens' = [Tokens EXCEPT ![key] =
                                  Registry!Token("given", to, Nfts[key].price)]
  <1>1. /\ key \in DOMAIN Nfts
        /\ DOMAIN Nfts' = DOMAIN Nfts
        /\ \A k \in DOMAIN Nfts \ {key} : Nfts'[k] = Nfts[k]
        /\ Nfts'[key].owner = to /\ Nfts'[key].is_sold
        /\ Nfts'[key].price = Nfts[key].price
        /\ UNCHANGED NextItemId
    BY NewOwnerEffect
  <1>2. \A k \in RegistryKey : k # key => TokenOf(k)' = TokenOf(k)
    BY <1>1, TokenUnchanged
  <1>3. ASSUME key[2] = MaxItemId PROVE Tokens' = Tokens
    <2>1. key \notin RegistryKey
      BY <1>3, LastIdIsNoToken
    <2> QED  BY <1>2, <2>1, SameTokens
  <1>4. ASSUME key[2] # MaxItemId
        PROVE  /\ key \in RegistryKey
               /\ Tokens' = [Tokens EXCEPT ![key] = Registry!Token("given", to, Nfts[key].price)]
    <2>1. key \in RegistryKey
      BY <1>4 DEF RegistryKey
    <2>2. PICK t : t = Registry!Token("given", to, Nfts[key].price)
      OBVIOUS
    <2>3. TokenOf(key)' = t
      BY <1>1, <2>2 DEF TokenOf, Registry!Token
    <2> QED  BY <1>2, <2>1, <2>2, <2>3, OneToken
  <1> QED  BY <1>3, <1>4

\* transfer_nft is Give, or a payment when the item is the last id.
LEMMA TransferNftStep ==
    ASSUME IdsInv, TypeOK', NEW who \in Accounts, NEW key \in NftKey, NEW to \in AllAccounts,
           transfer_nft(who, key, to)
    PROVE  Registry!Next
  <1>0. TypeOK
    BY DEF IdsInv
  <1>1. CASE key[2] = MaxItemId
    BY <1>0, <1>1, NewOwnerTokens, PayStep
  <1>2. CASE key[2] # MaxItemId
    <2>1. /\ key \in RegistryKey
          /\ Tokens' = [Tokens EXCEPT ![key] = Registry!Token("given", to, Nfts[key].price)]
      BY <1>0, <1>2, NewOwnerTokens
    <2>2. key \in DOMAIN Nfts /\ UNCHANGED balance
      BY DEF transfer_nft, transfer_nft_result
    <2>3. Tokens[key].state \in {"onsale", "given"} /\ Tokens[key].price = Nfts[key].price
      BY <2>1, <2>2 DEF Tokens, TokenOf
    <2>4. Registry!Give(key, to)
      BY <2>1, <2>2, <2>3 DEF Registry!Give, Registry!Owned
    <2> QED  BY <2>1, <2>4 DEF Registry!Next
  <1> QED  BY <1>1, <1>2

\* mint_nft is Sell for exactly the price, or a payment at the last id.
LEMMA MintNftStep ==
    ASSUME IdsInv, TypeOK', NEW who \in Accounts, NEW key \in NftKey, mint_nft(who, key)
    PROVE  Registry!Next
  <1>0. TypeOK
    BY DEF IdsInv
  <1>1. CASE key[2] = MaxItemId
    <2>1. Tokens' = Tokens
      BY <1>0, <1>1, NewOwnerTokens
    <2> QED  BY <2>1, PayStep
  <1>2. CASE key[2] # MaxItemId
    <2> DEFINE owner == Nfts[key].owner
               price == Nfts[key].price
    <2>1. /\ key \in RegistryKey
          /\ Tokens' = [Tokens EXCEPT ![key] = Registry!Token("given", who, price)]
      BY <1>0, <1>2, NewOwnerTokens
    <2>2. /\ key \in DOMAIN Nfts /\ ~Nfts[key].is_sold /\ owner # who
          /\ CanTransferKeepAlive(who, owner, price)
          /\ Transfer(who, owner, price)
      BY DEF mint_nft, mint_nft_result
    <2>3. owner \in AllAccounts /\ price \in Nat
      BY <1>0, <2>2, InputsAssumption DEF TypeOK, NFT
    <2>4. Tokens[key] = [state |-> "onsale", owner |-> owner, price |-> price]
      BY <2>1, <2>2 DEF Tokens, TokenOf
    <2> HIDE DEF owner, price
    <2>5. balance \in [AllAccounts -> Nat] /\ who \in AllAccounts
      BY <1>0 DEF TypeOK
    <2>6. /\ balance[who] >= price
          /\ balance' = [balance EXCEPT ![who] = @ - price, ![owner] = @ + price]
      <3>1. CASE price = 0
        BY <2>2, <2>3, <2>5, <3>1 DEF Transfer
      <3>2. CASE price # 0
        <4>1. balance[who] >= price + MinimumBalance
          BY <2>2, <3>2 DEF CanTransferKeepAlive
        <4>2. Remainder(balance[who] - price) = balance[who] - price /\ balance[who] >= price
          BY <2>3, <2>5, <4>1, BalanceAssumption DEF Remainder
        <4>3. balance' = [balance EXCEPT ![who] = Remainder(@ - price), ![owner] = @ + price]
          BY <2>2, <3>2 DEF Transfer
        <4> QED  BY <2>5, <4>2, <4>3
      <3> QED  BY <3>1, <3>2
    <2>7. Registry!Sell(key, who)
      BY <2>1, <2>2, <2>4, <2>6 DEF Registry!Sell
    <2> QED  BY <2>1, <2>5, <2>7 DEF Registry!Next
  <1> QED  BY <1>1, <1>2

\* Every step of the pallet is a step of the registry or leaves it alone.
LEMMA RefinementStep == IdsInv /\ TypeOK' /\ [Next]_vars => [Registry!Next]_<<Tokens, balance>>
  <1> SUFFICES ASSUME IdsInv, TypeOK', [Next]_vars PROVE [Registry!Next]_<<Tokens, balance>>
    OBVIOUS
  <1>1. ASSUME UNCHANGED <<Nfts, NextItemId>> PROVE Registry!Next
    <2>1. \A key \in RegistryKey : TokenOf(key)' = TokenOf(key)
      BY <1>1, TokenUnchanged
    <2> QED  BY <2>1, SameTokens, PayStep
  <1>2. ASSUME NEW who \in Accounts, register_artist(who) PROVE Registry!Next
    BY <1>1, <1>2 DEF register_artist
  <1>3. ASSUME NEW who \in Accounts, NEW m \in Metadata, create_collection(who, m) PROVE Registry!Next
    BY <1>1, <1>3 DEF create_collection
  <1>4. ASSUME NEW who \in Accounts, NEW c \in CollectionId, delete_collection(who, c)
        PROVE  Registry!Next
    BY <1>1, <1>4 DEF delete_collection
  <1>5. ASSUME NEW who \in Accounts, NEW to \in AllAccounts, NEW amount \in Amounts,
               transfer_allow_death(who, to, amount)
        PROVE  Registry!Next
    BY <1>1, <1>5 DEF transfer_allow_death
  <1>6. ASSUME UNCHANGED vars PROVE Registry!Next
    BY <1>1, <1>6 DEF vars
  <1> QED  BY <1>2, <1>3, <1>4, <1>5, <1>6, CreateNftStep, BurnNftStep, TransferNftStep, MintNftStep
           DEF Next

\* At genesis every token is unborn.
LEMMA RefinementInit == Init => Registry!Init
  <1> SUFFICES ASSUME Init PROVE Registry!Init
    OBVIOUS
  <1>1. \A key \in RegistryKey : TokenOf(key) = Registry!Unborn
    <2> SUFFICES ASSUME NEW key \in RegistryKey PROVE TokenOf(key) = Registry!Unborn
      OBVIOUS
    <2>1. key \notin DOMAIN Nfts
      BY DEF Init
    <2>2. key[1] \in CollectionId /\ key[2] \in Nat
      BY BoundsAssumption DEF RegistryKey
    <2>3. ~(key[2] < NextItemId[key[1]])
      BY <2>2 DEF Init
    <2> QED  BY <2>1, <2>3 DEF TokenOf, Registry!Unborn
  <1>2. Tokens = [key \in RegistryKey |-> Registry!Unborn]
    BY <1>1 DEF Tokens
  <1> QED  BY <1>2, BalanceAssumption DEF Init, Registry!Init

(***************************************************************************)
(* Every NFT with an id below the last one goes through the life cycle of  *)
(* NftRegistry: created once, sold at most once and for exactly its price, *)
(* never burned after that, never created again.                           *)
(***************************************************************************)
THEOREM PalletImplementsRegistry == Spec => ImplementsRegistry
  <1>1. Spec => [](IdsInv /\ TypeOK)
    <2>1. IdsInv => TypeOK
      BY DEF IdsInv
    <2> QED  BY InitIdsInv, NextIdsInv, <2>1, PTL DEF Spec
  <1> QED  BY RefinementInit, RefinementStep, <1>1, PTL DEF Spec, ImplementsRegistry, Registry!Spec

=============================================================================
