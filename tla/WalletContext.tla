---------------------------- MODULE WalletContext ----------------------------
(***************************************************************************)
(* The wallet state of the front end (contexts/WalletContext.tsx) and the  *)
(* modal that drives it (components/ui/modals/ConnectWalletModal.tsx).     *)
(*                                                                         *)
(* The handlers are async functions.  What runs between two awaits is one  *)
(* step, and any click can come between the steps of a handler, so several *)
(* invocations are under way at once.  An invocation works on the state of *)
(* the render in which it was clicked (its closure), not on the current    *)
(* one.  The wallets answer when they like, and may refuse.                *)
(***************************************************************************)
EXTENDS Naturals, Sequences

CONSTANTS
    Wallets,       \* the wallets useWallets() offers
    AccountsOf,    \* the addresses each wallet holds
    None,          \* null, undefined
    Calls,         \* handler invocations that may be under way at once
    MaxConnected   \* bound of the model: no click once the list is this long

Addresses == UNION {AccountsOf[w] : w \in Wallets}
Account == [address : Addresses, walletId : Wallets]

ASSUME WalletsAssumption == /\ None \notin Wallets /\ None \notin Account
                            /\ DOMAIN AccountsOf = Wallets

VARIABLES
    connectedWallets,        \* the list of wallets believed connected
    selectedWallet,
    accounts,                \* accounts offered, with the wallet in their meta
    selectedAccount,
    signer,                  \* the wallet whose signer is used, or None
    isConnecting,
    isOpen,                  \* the modal is shown
    selectedAccountAddress,  \* the address highlighted in the modal
    call                     \* per invocation: where it waits, and its closure

\* What disconnecting clears, and what the modal keeps.
walletVars == <<connectedWallets, selectedWallet, accounts, selectedAccount, signer>>
modalVars == <<isOpen, selectedAccountAddress>>
vars == <<connectedWallets, selectedWallet, accounts, selectedAccount, signer,
          isConnecting, isOpen, selectedAccountAddress, call>>

Idle == [at |-> "idle"]

AccountsFrom(w) == {[address |-> a, walletId |-> w] : a \in AccountsOf[w]}

\* Mutant: the finally block forgets the flag.
FinishStillConnecting(k) ==
    /\ call' = [call EXCEPT ![k] = Idle]
    /\ UNCHANGED isConnecting

Finish(k) ==
    /\ call' = [call EXCEPT ![k] = Idle]
    /\ isConnecting' = FALSE

------------------------------------------------------------------------------
(***************************************************************************)
(* connectSpecificWallet, called when a wallet is clicked in the modal.    *)
(* The rows of the wallets are not disabled while isConnecting.            *)
(***************************************************************************)
handleConnect(k, w) ==
    /\ isOpen
    /\ call[k] = Idle
    /\ Len(connectedWallets) < MaxConnected
    /\ isConnecting' = TRUE
    /\ call' = [call EXCEPT ![k] =
                   [at |-> IF connectedWallets # <<>> THEN "disconnecting" ELSE "connecting",
                    wallet |-> w]]
    /\ UNCHANGED <<walletVars, modalVars>>

\* Mutant: the accounts of the old wallet stay on offer.
disconnectedKeepsAccounts(k) ==
    /\ call[k].at = "disconnecting"
    /\ connectedWallets' = <<>>
    /\ selectedWallet' = None
    /\ selectedAccount' = None
    /\ signer' = None
    /\ call' = [call EXCEPT ![k].at = "connecting"]
    /\ UNCHANGED <<accounts, isConnecting, modalVars>>

\* disconnectWallet(connectedWallets[0].metadata.id): the wallet disconnected
\* and everything is cleared, then the new wallet is asked to connect.
disconnected(k) ==
    /\ call[k].at = "disconnecting"
    /\ connectedWallets' = <<>>
    /\ selectedWallet' = None
    /\ selectedAccount' = None
    /\ signer' = None
    /\ accounts' = {}
    /\ call' = [call EXCEPT ![k].at = "connecting"]
    /\ UNCHANGED <<isConnecting, modalVars>>

\* disconnectWallet swallows the error, clears nothing, and the handler goes on.
disconnectFailed(k) ==
    /\ call[k].at = "disconnecting"
    /\ call' = [call EXCEPT ![k].at = "connecting"]
    /\ UNCHANGED <<walletVars, isConnecting, modalVars>>

\* wallet.connect() resolved; ask for the accounts.
connected(k) ==
    /\ call[k].at = "connecting"
    /\ call' = [call EXCEPT ![k].at = "gettingAccounts"]
    /\ UNCHANGED <<walletVars, isConnecting, modalVars>>

\* Mutant: the addresses are stored as the wallet returned them.
gotAccountsRaw(k) ==
    LET w == call[k].wallet IN
    /\ call[k].at = "gettingAccounts"
    /\ connectedWallets' = Append(connectedWallets, w)
    /\ selectedWallet' = w
    /\ accounts' = AccountsOf[w]
    /\ Finish(k)
    /\ UNCHANGED <<selectedAccount, signer, modalVars>>

\* wallet.getAccounts() resolved with some accounts.
gotAccounts(k) ==
    LET w == call[k].wallet IN
    /\ call[k].at = "gettingAccounts"
    /\ AccountsOf[w] # {}
    /\ connectedWallets' = Append(connectedWallets, w)
    /\ selectedWallet' = w
    /\ accounts' = AccountsFrom(w)
    /\ Finish(k)
    /\ UNCHANGED <<selectedAccount, signer, modalVars>>

\* The wallet refused to connect, or gave no accounts: setError only.
connectFailed(k) ==
    /\ call[k].at \in {"connecting", "gettingAccounts"}
    /\ Finish(k)
    /\ UNCHANGED <<walletVars, modalVars>>

------------------------------------------------------------------------------
(***************************************************************************)
(* selectAccount, called by the button of the modal, which is disabled     *)
(* without a highlighted address and while isConnecting.                   *)
(***************************************************************************)
setSelectedAccountAddress(address) ==
    /\ isOpen
    /\ \E account \in accounts : account.address = address
    /\ selectedAccountAddress' = address
    /\ UNCHANGED <<walletVars, isConnecting, isOpen, call>>

\* getWalletForAccount asks the wallet that is selected now.
handleAccountSelect(k) ==
    /\ isOpen
    /\ ~isConnecting
    /\ call[k] = Idle
    /\ \E account \in accounts :
          /\ account.address = selectedAccountAddress
          /\ call' = [call EXCEPT ![k] = [at |-> "selecting", wallet |-> selectedWallet,
                                          account |-> account]]
    /\ isConnecting' = TRUE
    /\ UNCHANGED <<walletVars, modalVars>>

\* Mutant: the signer is read from the wallet that is selected by then.
accountSelectedLate(k) ==
    /\ call[k].at = "selecting"
    /\ call[k].wallet # None
    /\ call[k].account.address \in AccountsOf[call[k].wallet]
    /\ selectedAccount' = call[k].account
    /\ signer' = selectedWallet
    /\ isOpen' = FALSE
    /\ Finish(k)
    /\ UNCHANGED <<connectedWallets, selectedWallet, accounts, selectedAccountAddress>>

\* The wallet still has the address; the modal is closed.
accountSelected(k) ==
    /\ call[k].at = "selecting"
    /\ call[k].wallet # None
    /\ call[k].account.address \in AccountsOf[call[k].wallet]
    /\ selectedAccount' = call[k].account
    /\ signer' = call[k].wallet
    /\ isOpen' = FALSE
    /\ Finish(k)
    /\ UNCHANGED <<connectedWallets, selectedWallet, accounts, selectedAccountAddress>>

\* It does not, or did not answer.  selectAccount has caught the error, so
\* the modal is closed all the same.
selectFailed(k) ==
    /\ call[k].at = "selecting"
    /\ selectedAccount' = None
    /\ signer' = None
    /\ isOpen' = FALSE
    /\ Finish(k)
    /\ UNCHANGED <<connectedWallets, selectedWallet, accounts, selectedAccountAddress>>

------------------------------------------------------------------------------
\* The "Connect Wallet" buttons of app/page.tsx and components/Demo.tsx.
openModal ==
    /\ selectedAccount = None \/ selectedWallet = None
    /\ isOpen' = TRUE
    /\ UNCHANGED <<walletVars, isConnecting, selectedAccountAddress, call>>

onClose ==
    /\ isOpen
    /\ isOpen' = FALSE
    /\ UNCHANGED <<walletVars, isConnecting, selectedAccountAddress, call>>

Init ==
    /\ connectedWallets = <<>>
    /\ selectedWallet = None
    /\ accounts = {}
    /\ selectedAccount = None
    /\ signer = None
    /\ isConnecting = FALSE
    /\ isOpen = FALSE
    /\ selectedAccountAddress = None
    /\ call = [k \in Calls |-> Idle]

\* What the wallet answers to the promise that invocation k waits for.
Answer(k) ==
    \/ disconnected(k)
    \/ disconnectFailed(k)
    \/ connected(k)
    \/ gotAccounts(k)
    \/ connectFailed(k)
    \/ accountSelected(k)
    \/ selectFailed(k)

Next ==
    \/ openModal
    \/ onClose
    \/ \E address \in Addresses : setSelectedAccountAddress(address)
    \/ \E k \in Calls :
          \/ \E w \in Wallets : handleConnect(k, w)
          \/ handleAccountSelect(k)
          \/ Answer(k)

Spec == Init /\ [][Next]_vars

\* A wallet answers every request in the end, one way or the other.
Fairness == \A k \in Calls : WF_vars(Answer(k))

FairSpec == Spec /\ Fairness

------------------------------------------------------------------------------
\* Types of the state.
TypeOK ==
    /\ connectedWallets \in Seq(Wallets)
    /\ selectedWallet \in Wallets \cup {None}
    /\ accounts \subseteq Account
    /\ selectedAccount \in Account \cup {None}
    /\ signer \in Wallets \cup {None}
    /\ isConnecting \in BOOLEAN
    /\ isOpen \in BOOLEAN
    /\ selectedAccountAddress \in Addresses \cup {None}
    /\ \A k \in Calls : call[k].at \in {"idle", "disconnecting", "connecting",
                                        "gettingAccounts", "selecting"}

(***************************************************************************)
(* However the invocations overlap, the account list offered is the one of *)
(* the selected wallet, which is the wallet that connected last.  So the   *)
(* "no selected wallet" return of getWalletForAccount is never taken.      *)
(***************************************************************************)
OffersSelectedWallet ==
    IF connectedWallets = <<>>
    THEN selectedWallet = None /\ accounts = {}
    ELSE /\ selectedWallet = connectedWallets[Len(connectedWallets)]
         /\ accounts = AccountsFrom(selectedWallet)

(***************************************************************************)
(* The signer handed to the pages is always the signer of the wallet the   *)
(* selected account came from, also when the account was selected while    *)
(* another wallet was connecting.                                          *)
(***************************************************************************)
SignerSignsForAccount ==
    IF selectedAccount = None THEN signer = None ELSE signer = selectedAccount.walletId

(***************************************************************************)
(* The flag is down once no handler is under way: no path through the      *)
(* handlers leaves the "Select Account" button disabled.                   *)
(***************************************************************************)
IdleMeansNotConnecting == (\A k \in Calls : call[k] = Idle) => ~isConnecting

\* The button that is disabled while a handler runs is enabled again.
ConnectingEnds == isConnecting ~> ~isConnecting

(***************************************************************************)
(* What the comment in connectSpecificWallet says: "Disconnect any         *)
(* previously connected wallet".  No two wallets are connected at once.    *)
(***************************************************************************)
PreviousWalletDisconnected ==
    \A i, j \in 1 .. Len(connectedWallets) : connectedWallets[i] = connectedWallets[j]

=============================================================================
