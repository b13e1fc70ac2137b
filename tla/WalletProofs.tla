---------------------------- MODULE WalletProofs ----------------------------
(***************************************************************************)
(* WalletContext, for any wallets, addresses and number of handlers under  *)
(* way at once.                                                            *)
(***************************************************************************)
EXTENDS WalletContext, TLAPS

------------------------------------------------------------------------------
(***************************************************************************)
(* What a handler carries in its closure: a wallet while it connects, and  *)
(* while it selects, an account of the wallet it asks.                     *)
(***************************************************************************)
Connecting == [at : {"disconnecting", "connecting", "gettingAccounts"}, wallet : Wallets]
Selecting == {c \in [at : {"selecting"}, wallet : Wallets, account : Account] :
                 c.account.walletId = c.wallet}

CallsOK == call \in [Calls -> {Idle} \cup Connecting \cup Selecting]

WalletInv == TypeOK /\ CallsOK /\ OffersSelectedWallet /\ SignerSignsForAccount /\ IdleMeansNotConnecting

\* What a wallet returns are accounts.
LEMMA AccountsFromFacts ==
    ASSUME NEW w \in Wallets
    PROVE  AccountsFrom(w) \subseteq Account /\ \A account \in AccountsFrom(w) : account.walletId = w
BY DEF AccountsFrom, Account, Addresses

\* Where a handler waits tells what it carries.
LEMMA CallFacts ==
    ASSUME CallsOK, NEW k \in Calls
    PROVE  /\ call[k].at \in {"disconnecting", "connecting", "gettingAccounts"} => call[k] \in Connecting
           /\ call[k].at = "selecting" => call[k] \in Selecting
           /\ call[k].at # "idle" => call[k] # Idle
BY DEF CallsOK, Connecting, Selecting, Idle

LEMMA WalletInvInit == Init => WalletInv
<1> SUFFICES ASSUME Init PROVE WalletInv
  OBVIOUS
<1>1. CallsOK /\ IdleMeansNotConnecting
  BY DEF Init, CallsOK, IdleMeansNotConnecting
<1>2. OffersSelectedWallet /\ SignerSignsForAccount
  BY DEF Init, OffersSelectedWallet, SignerSignsForAccount
<1>3. connectedWallets \in Seq(Wallets) /\ accounts \subseteq Account
  BY DEF Init
<1>4. \A k \in Calls : call[k].at = "idle"
  BY DEF Init, Idle
<1>5. TypeOK
  BY <1>3, <1>4 DEF Init, TypeOK
<1> QED  BY <1>1, <1>2, <1>5 DEF WalletInv

------------------------------------------------------------------------------
\* A handler ends: the flag is down, and it waits for nothing.
LEMMA Finished ==
    ASSUME CallsOK, NEW k \in Calls, Finish(k)
    PROVE  CallsOK' /\ IdleMeansNotConnecting' /\ isConnecting' \in BOOLEAN
BY DEF CallsOK, Finish, IdleMeansNotConnecting

\* A handler goes on to the next promise, or is started.
LEMMA UnderWay ==
    ASSUME CallsOK, NEW k \in Calls, NEW c \in Connecting \cup Selecting,
           call' = [call EXCEPT ![k] = c]
    PROVE  CallsOK' /\ IdleMeansNotConnecting'
<1>1. c # Idle
  BY DEF Connecting, Selecting, Idle
<1>2. call'[k] = c
  BY DEF CallsOK
<1> QED  BY <1>1, <1>2 DEF CallsOK, IdleMeansNotConnecting

\* Where handlers wait, from what they carry.
LEMMA CallsAt ==
    ASSUME CallsOK
    PROVE  \A k \in Calls : call[k].at \in {"idle", "disconnecting", "connecting",
                                            "gettingAccounts", "selecting"}
BY DEF CallsOK, Connecting, Selecting, Idle

\* The part of the state that belongs to the wallet, when it does not change.
WalletPart == /\ connectedWallets \in Seq(Wallets) /\ selectedWallet \in Wallets \cup {None}
              /\ accounts \subseteq Account /\ selectedAccount \in Account \cup {None}
              /\ signer \in Wallets \cup {None}
              /\ OffersSelectedWallet /\ SignerSignsForAccount

ModalPart == isOpen \in BOOLEAN /\ selectedAccountAddress \in Addresses \cup {None}

LEMMA Parts ==
    WalletInv <=> /\ WalletPart /\ ModalPart /\ isConnecting \in BOOLEAN
                  /\ CallsOK /\ IdleMeansNotConnecting
BY CallsAt DEF WalletInv, TypeOK, WalletPart, ModalPart

LEMMA PartsNext ==
    ASSUME WalletPart', ModalPart', isConnecting' \in BOOLEAN, CallsOK', IdleMeansNotConnecting'
    PROVE  WalletInv'
<1>1. \A k \in Calls : call'[k].at \in {"idle", "disconnecting", "connecting",
                                       "gettingAccounts", "selecting"}
  BY DEF CallsOK, Connecting, Selecting, Idle
<1> QED  BY <1>1 DEF WalletInv, TypeOK, WalletPart, ModalPart

LEMMA SameWallet == ASSUME WalletPart, UNCHANGED walletVars PROVE WalletPart'
BY DEF WalletPart, walletVars, OffersSelectedWallet, SignerSignsForAccount

LEMMA SameModal == ASSUME ModalPart, UNCHANGED modalVars PROVE ModalPart'
BY DEF ModalPart, modalVars

LEMMA SameCalls ==
    ASSUME CallsOK, IdleMeansNotConnecting, isConnecting \in BOOLEAN, UNCHANGED <<call, isConnecting>>
    PROVE  CallsOK' /\ IdleMeansNotConnecting' /\ isConnecting' \in BOOLEAN
BY DEF CallsOK, IdleMeansNotConnecting

------------------------------------------------------------------------------
(***************************************************************************)
(* One lemma for the clicks, one for the answers of each handler.          *)
(***************************************************************************)
LEMMA ModalStep ==
    ASSUME WalletInv,
           openModal \/ onClose \/ \E address \in Addresses : setSelectedAccountAddress(address)
    PROVE  WalletInv'
<1>1. WalletPart' /\ CallsOK' /\ IdleMeansNotConnecting' /\ isConnecting' \in BOOLEAN
  BY Parts, SameWallet, SameCalls DEF openModal, onClose, setSelectedAccountAddress
<1>2. ModalPart'
  BY Parts DEF openModal, onClose, setSelectedAccountAddress, ModalPart
<1> QED  BY <1>1, <1>2, PartsNext

LEMMA HandleConnectStep ==
    ASSUME WalletInv, NEW k \in Calls, NEW w \in Wallets, handleConnect(k, w)
    PROVE  WalletInv'
<1> DEFINE c == [at |-> IF connectedWallets # <<>> THEN "disconnecting" ELSE "connecting", wallet |-> w]
<1>1. c \in Connecting
  BY DEF Connecting
<1>2. call' = [call EXCEPT ![k] = c]
  BY DEF handleConnect
<1> HIDE DEF c
<1>3. CallsOK' /\ IdleMeansNotConnecting'
  BY <1>1, <1>2, UnderWay, Parts
<1>4. WalletPart' /\ ModalPart' /\ isConnecting' \in BOOLEAN
  BY Parts, SameWallet, SameModal DEF handleConnect
<1> QED  BY <1>3, <1>4, PartsNext

\* An account on offer is one of the wallet that is asked.
LEMMA HandleAccountSelectStep ==
    ASSUME WalletInv, NEW k \in Calls, handleAccountSelect(k)
    PROVE  WalletInv'
<1>1. PICK account \in accounts :
         call' = [call EXCEPT ![k] = [at |-> "selecting", wallet |-> selectedWallet, account |-> account]]
  BY DEF handleAccountSelect
<1>2. selectedWallet \in Wallets /\ accounts = AccountsFrom(selectedWallet)
  <2>1. connectedWallets # <<>>
    BY <1>1 DEF WalletInv, OffersSelectedWallet
  <2> QED  BY <2>1, WalletsAssumption DEF WalletInv, OffersSelectedWallet, TypeOK
<1> DEFINE c == [at |-> "selecting", wallet |-> selectedWallet, account |-> account]
<1>3. c \in Selecting
  BY <1>1, <1>2, AccountsFromFacts DEF Selecting
<1>4. call' = [call EXCEPT ![k] = c]
  BY <1>1
<1> HIDE DEF c
<1>5. CallsOK' /\ IdleMeansNotConnecting'
  BY <1>3, <1>4, UnderWay, Parts
<1>6. WalletPart' /\ ModalPart' /\ isConnecting' \in BOOLEAN
  BY Parts, SameWallet, SameModal DEF handleAccountSelect
<1> QED  BY <1>5, <1>6, PartsNext

\* connectSpecificWallet up to its last promise.
LEMMA ConnectingStep ==
    ASSUME WalletInv, NEW k \in Calls, disconnected(k) \/ disconnectFailed(k) \/ connected(k)
    PROVE  WalletInv'
<1>1. PICK at \in {"connecting", "gettingAccounts"} :
         /\ call' = [call EXCEPT ![k].at = at]
         /\ call[k].at \in {"disconnecting", "connecting"}
  BY DEF disconnected, disconnectFailed, connected
<1>2. call[k] \in Connecting
  BY <1>1, CallFacts, Parts
<1> DEFINE c == [call[k] EXCEPT !.at = at]
<1>3. c \in Connecting /\ call' = [call EXCEPT ![k] = c]
  BY <1>1, <1>2 DEF Connecting
<1> HIDE DEF c
<1>4. CallsOK' /\ IdleMeansNotConnecting'
  BY <1>3, UnderWay, Parts
<1>5. ModalPart' /\ isConnecting' \in BOOLEAN
  BY Parts, SameModal DEF disconnected, disconnectFailed, connected
<1>6. WalletPart'
  <2>1. CASE disconnected(k)
    BY <2>1 DEF disconnected, WalletPart, OffersSelectedWallet, SignerSignsForAccount
  <2>2. CASE disconnectFailed(k) \/ connected(k)
    BY <2>2, Parts, SameWallet DEF disconnectFailed, connected
  <2> QED  BY <2>1, <2>2
<1> QED  BY <1>4, <1>5, <1>6, PartsNext

\* connectSpecificWallet ends.
LEMMA ConnectedStep ==
    ASSUME WalletInv, NEW k \in Calls, gotAccounts(k) \/ connectFailed(k)
    PROVE  WalletInv'
<1>1. CallsOK' /\ IdleMeansNotConnecting' /\ isConnecting' \in BOOLEAN
  BY Finished, Parts DEF gotAccounts, connectFailed
<1>2. ModalPart'
  BY Parts, SameModal DEF gotAccounts, connectFailed
<1>3. WalletPart'
  <2>1. CASE connectFailed(k)
    BY <2>1, Parts, SameWallet DEF connectFailed
  <2>2. CASE gotAccounts(k)
    <3> DEFINE w == call[k].wallet
    <3>1. w \in Wallets
      BY <2>2, CallFacts, Parts DEF gotAccounts, Connecting
    <3>2. /\ connectedWallets' = Append(connectedWallets, w)
          /\ selectedWallet' = w /\ accounts' = AccountsFrom(w)
          /\ UNCHANGED <<selectedAccount, signer>>
      BY <2>2 DEF gotAccounts
    <3> HIDE DEF w
    <3>3. connectedWallets \in Seq(Wallets)
      BY DEF WalletInv, TypeOK
    <3>4. /\ connectedWallets' \in Seq(Wallets) /\ connectedWallets' # <<>>
          /\ connectedWallets'[Len(connectedWallets')] = w
      BY <3>1, <3>2, <3>3
    <3>5. OffersSelectedWallet'
      BY <3>2, <3>4 DEF OffersSelectedWallet, AccountsFrom
    <3>6. SignerSignsForAccount' /\ selectedAccount' \in Account \cup {None} /\ signer' \in Wallets \cup {None}
      BY <3>2 DEF WalletInv, TypeOK, SignerSignsForAccount
    <3> QED  BY <3>1, <3>2, <3>4, <3>5, <3>6, AccountsFromFacts DEF WalletPart
  <2> QED  BY <2>1, <2>2
<1> QED  BY <1>1, <1>2, <1>3, PartsNext

\* selectAccount ends: the signer is the one of the wallet in the closure, and so is the
\* account.
LEMMA SelectedStep ==
    ASSUME WalletInv, NEW k \in Calls, accountSelected(k) \/ selectFailed(k)
    PROVE  WalletInv'
<1>1. CallsOK' /\ IdleMeansNotConnecting' /\ isConnecting' \in BOOLEAN
  BY Finished, Parts DEF accountSelected, selectFailed
<1>2. ModalPart'
  BY Parts DEF ModalPart, accountSelected, selectFailed
<1>3. /\ connectedWallets' \in Seq(Wallets) /\ selectedWallet' \in Wallets \cup {None}
      /\ accounts' \subseteq Account /\ OffersSelectedWallet'
  BY DEF WalletInv, TypeOK, OffersSelectedWallet, accountSelected, selectFailed
<1>4. /\ selectedAccount' \in Account \cup {None} /\ signer' \in Wallets \cup {None}
      /\ SignerSignsForAccount'
  <2>1. CASE selectFailed(k)
    BY <2>1 DEF selectFailed, SignerSignsForAccount
  <2>2. CASE accountSelected(k)
    <3>1. call[k] \in Selecting
      BY <2>2, CallFacts, Parts DEF accountSelected
    <3>2. /\ call[k].account \in Account /\ call[k].wallet \in Wallets
          /\ call[k].account.walletId = call[k].wallet
      BY <3>1 DEF Selecting
    <3>3. selectedAccount' = call[k].account /\ signer' = call[k].wallet
      BY <2>2 DEF accountSelected
    <3> QED  BY <3>2, <3>3, WalletsAssumption DEF SignerSignsForAccount
  <2> QED  BY <2>1, <2>2
<1> QED  BY <1>1, <1>2, <1>3, <1>4, PartsNext DEF WalletPart

------------------------------------------------------------------------------
(***************************************************************************)
(* The inductive invariant: with what the handlers under way carry in      *)
(* their closures.                                                         *)
(***************************************************************************)
THEOREM WalletInvariant == Spec => []WalletInv
<1>1. ASSUME WalletInv, Next PROVE WalletInv'
  BY <1>1, ModalStep, HandleConnectStep, HandleAccountSelectStep, ConnectingStep, ConnectedStep, SelectedStep
  DEF Next, Answer
<1>2. ASSUME WalletInv, UNCHANGED vars PROVE WalletInv'
  <2>1. UNCHANGED <<walletVars, modalVars, call, isConnecting>>
    BY <1>2 DEF vars, walletVars, modalVars
  <2> QED  BY <1>2, <2>1, Parts, SameWallet, SameModal, SameCalls, PartsNext
<1> QED  BY WalletInvInit, <1>1, <1>2, PTL DEF Spec

\* The state of the wallet context keeps its types.
THEOREM WalletTypeCorrect == Spec => []TypeOK
<1>1. WalletInv => TypeOK
  BY DEF WalletInv
<1> QED  BY WalletInvariant, <1>1, PTL

\* However many handlers overlap, the accounts on offer are those of the selected
\* wallet, the one that connected last.
THEOREM OfferIsOfSelectedWallet == Spec => []OffersSelectedWallet
<1>1. WalletInv => OffersSelectedWallet
  BY DEF WalletInv
<1> QED  BY WalletInvariant, <1>1, PTL

\* The signer is always the one of the wallet the selected account came from.
THEOREM SignerIsOfAccount == Spec => []SignerSignsForAccount
<1>1. WalletInv => SignerSignsForAccount
  BY DEF WalletInv
<1> QED  BY WalletInvariant, <1>1, PTL

\* No path through the handlers leaves the busy flag set with nothing under way.
THEOREM BusyFlagComesDown == Spec => []IdleMeansNotConnecting
<1>1. WalletInv => IdleMeansNotConnecting
  BY DEF WalletInv
<1> QED  BY WalletInvariant, <1>1, PTL

=============================================================================
