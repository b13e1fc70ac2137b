--------------------------- MODULE ArtistDashboard ---------------------------
(***************************************************************************)
(* The artist's pages in front of the chain: registration                  *)
(* (components/ArtistDashboard.tsx), the collection manager                *)
(* (components/CollectionManager.tsx) and its two modals                   *)
(* (CreateCollectionModal.tsx, CreateNFTModal.tsx).                        *)
(*                                                                         *)
(* Every click that sends an extrinsic goes through a signature, the pool, *)
(* a block and a callback, with the values of the render in which it was   *)
(* clicked.  The buttons are busy only until signAndSend resolves, that is *)
(* until the extrinsic is in the pool.                                     *)
(***************************************************************************)
EXTENDS TemplatePallet

CONSTANTS
    Me,             \* the account of the page
    None,           \* null
    Txs,            \* extrinsics of the page that may be under way at once
    Loads,          \* loadNFTs invocations that may be under way at once
    QueriesFail,    \* whether queries of the chain may fail
    MaxOtherCalls,  \* bound of the model: calls the rest of the world makes
    MaxClicks       \* bound of the model: extrinsics the page sends

ASSUME ArtistAssumption == Me \in Accounts /\ None \notin Nat /\ QueriesFail \in BOOLEAN

VARIABLES
    isRegistered,
    statusAsked,         \* the query of checkArtistStatus has not answered yet
    busy,                \* the buttons whose isLoading is set
    collectionQueries,   \* collections.entries() queries that have not answered
    collections,         \* ids under "My Collections"
    selectedCollection,  \* an id or None
    sameObject,          \* the selection is the object of the list on the page
    nfts,                \* the rows: item id -> owner
    rowsOf,              \* the collection the rows were loaded from (history)
    load,                \* per loadNFTs invocation: its collection and what it has read
    openModals,          \* which of the two modals are open
    tx,                  \* per extrinsic of the page: where it is, and its arguments
    done,                \* how often each call of the page took effect (history)
    otherCalls, clicks   \* counters of the two bounds

register == <<isRegistered, statusAsked>>
manager == <<collectionQueries, collections, selectedCollection, sameObject>>
rows == <<nfts, rowsOf, load>>
counters == <<otherCalls, clicks>>
artistVars == <<vars, register, busy, manager, rows, openModals, tx, done, counters>>

Empty == [i \in {} |-> 0]
Idle == [at |-> "idle"]

------------------------------------------------------------------------------
(***************************************************************************)
(* Extrinsics.                                                             *)
(***************************************************************************)
\* What the dispatch of a call of this page would answer now.
Result(call) ==
    CASE call.name = "register" -> register_artist_result(Me)
      [] call.name = "createCollection" -> create_collection_result(Me, call.metadata)
      [] call.name = "createNft" -> create_nft_result(Me, call.c, call.metadata, call.price)
      [] call.name = "burn" -> burn_nft_result(Me, <<call.c, call.item>>)

Dispatch(call) ==
    \/ call.name = "register" /\ register_artist(Me)
    \/ call.name = "createCollection" /\ create_collection(Me, call.metadata)
    \/ call.name = "createNft" /\ create_nft(Me, call.c, call.metadata, call.price)
    \/ call.name = "burn" /\ burn_nft(Me, <<call.c, call.item>>)

\* signAndSend is called: the wallet asks the user.  Burn has no busy flag.
Send(s, call) ==
    /\ tx[s] = Idle
    /\ clicks < MaxClicks
    /\ clicks' = clicks + 1
    /\ tx' = [tx EXCEPT ![s] = [at |-> "signing", call |-> call]]
    /\ busy' = busy \cup ({call.name} \ {"burn"})
    /\ UNCHANGED <<vars, register, manager, rows, openModals, done, otherCalls>>

\* Signed and in the pool.
signed(s) ==
    /\ tx[s].at = "signing"
    /\ tx' = [tx EXCEPT ![s].at = "inPool"]
    /\ busy' = busy \ {tx[s].call.name}
    /\ UNCHANGED <<vars, register, manager, rows, openModals, done, counters>>

\* Mutant: the catch block does not make the button usable again.
signFailedStillBusy(s) ==
    /\ tx[s].at = "signing"
    /\ tx' = [tx EXCEPT ![s] = Idle]
    /\ UNCHANGED <<vars, register, busy, manager, rows, openModals, done, counters>>

\* The user refused, or the node did: a toast.
signFailed(s) ==
    /\ tx[s].at = "signing"
    /\ tx' = [tx EXCEPT ![s] = Idle]
    /\ busy' = busy \ {tx[s].call.name}
    /\ UNCHANGED <<vars, register, manager, rows, openModals, done, counters>>

includedOk(s) ==
    /\ tx[s].at = "inPool"
    /\ Dispatch(tx[s].call)
    /\ tx' = [tx EXCEPT ![s] = [at |-> "inBlock", call |-> tx[s].call, dispatchError |-> FALSE]]
    /\ done' = IF tx[s].call \in DOMAIN done THEN [done EXCEPT ![tx[s].call] = @ + 1]
                                            ELSE Insert(done, tx[s].call, 1)
    /\ UNCHANGED <<register, busy, manager, rows, openModals, counters>>

includedError(s) ==
    /\ tx[s].at = "inPool"
    /\ Result(tx[s].call) # "Ok"
    /\ tx' = [tx EXCEPT ![s] = [at |-> "inBlock", call |-> tx[s].call, dispatchError |-> TRUE]]
    /\ UNCHANGED <<vars, register, busy, manager, rows, openModals, done, counters>>

dropped(s) ==
    /\ tx[s].at = "inPool"
    /\ tx' = [tx EXCEPT ![s] = Idle]
    /\ UNCHANGED <<vars, register, busy, manager, rows, openModals, done, counters>>

\* Calls from other pages: of other users, and of this one in another window.
othersCall(who) ==
    /\ otherCalls < MaxOtherCalls
    /\ otherCalls' = otherCalls + 1
    /\ \/ \E c \in CollectionId, m \in Metadata, p \in Prices : create_nft(who, c, m, p)
       \/ \E key \in NftKey : mint_nft(who, key)
    /\ UNCHANGED <<register, busy, manager, rows, openModals, tx, done, clicks>>

\* The user spends from the same account outside the page: an extrinsic of the page
\* that was affordable when it was signed may not be any more.
spendElsewhere(to, amount) ==
    /\ otherCalls < MaxOtherCalls
    /\ otherCalls' = otherCalls + 1
    /\ transfer_allow_death(Me, to, amount)
    /\ UNCHANGED <<register, busy, manager, rows, openModals, tx, done, clicks>>

------------------------------------------------------------------------------
(***************************************************************************)
(* ArtistDashboard.  Once isRegistered is set the collection manager is    *)
(* mounted and loads the collections.                                      *)
(***************************************************************************)
checkArtistStatus(answered) ==
    /\ answered \/ QueriesFail
    /\ statusAsked
    /\ statusAsked' = FALSE
    /\ isRegistered' = IF answered THEN Me \in Artists ELSE isRegistered
    /\ collectionQueries' = collectionQueries + (IF isRegistered' /\ ~isRegistered THEN 1 ELSE 0)
    /\ UNCHANGED <<vars, busy, collections, selectedCollection, sameObject, rows, openModals,
                   tx, done, counters>>

registerAsArtist(s) ==
    /\ ~isRegistered
    /\ "register" \notin busy
    /\ Send(s, [name |-> "register"])

\* Mutant: dispatchError is not looked at.
registeredAnyway(s) ==
    /\ tx[s].at = "inBlock"
    /\ tx[s].call.name = "register"
    /\ isRegistered' = TRUE
    /\ collectionQueries' = collectionQueries + (IF isRegistered' /\ ~isRegistered THEN 1 ELSE 0)
    /\ tx' = [tx EXCEPT ![s] = Idle]
    /\ UNCHANGED <<vars, statusAsked, busy, collections, selectedCollection, sameObject, rows,
                   openModals, done, counters>>

\* The callback: dispatchError returns early.
registered(s) ==
    /\ tx[s].at = "inBlock"
    /\ tx[s].call.name = "register"
    /\ isRegistered' = (isRegistered \/ ~tx[s].dispatchError)
    /\ collectionQueries' = collectionQueries + (IF isRegistered' /\ ~isRegistered THEN 1 ELSE 0)
    /\ tx' = [tx EXCEPT ![s] = Idle]
    /\ UNCHANGED <<vars, statusAsked, busy, collections, selectedCollection, sameObject, rows,
                   openModals, done, counters>>

------------------------------------------------------------------------------
(***************************************************************************)
(* CollectionManager.  The creator that "My Collections" filters by is the *)
(* one the modal wrote into the metadata, which is the sender; a query     *)
(* that fails leaves the list alone.                                       *)
(***************************************************************************)
loadCollections(answered) ==
    /\ answered \/ QueriesFail
    /\ collectionQueries > 0
    /\ collectionQueries' = collectionQueries - 1
    /\ IF answered
       THEN /\ collections' = {c \in DOMAIN Collections : Collections[c].creator = Me}
            /\ sameObject' = FALSE
       ELSE UNCHANGED <<collections, sameObject>>
    /\ UNCHANGED <<vars, register, busy, selectedCollection, rows, openModals, tx, done, counters>>

\* nextItemId.toString() + 1 appends a digit; ids that no NFT can have are cut off.
ScanItems(n) == {i \in ItemId : i < 10 * n + 1}

StartLoad(l, c) ==
    /\ load[l] = Idle
    /\ load' = [load EXCEPT ![l] = [at |-> "nextItemId", c |-> c]]
    /\ UNCHANGED <<nfts, rowsOf>>

\* A click on a collection; its NFTs are loaded when the selection is another object.
setSelectedCollection(c, l) ==
    /\ isRegistered
    /\ c \in collections
    /\ c # selectedCollection \/ ~sameObject
    /\ selectedCollection' = c
    /\ sameObject' = TRUE
    /\ StartLoad(l, c)
    /\ UNCHANGED <<vars, register, busy, collectionQueries, collections, openModals, tx, done, counters>>

\* nextItemId(c) answers; all the NFTs are asked for at once.
loadNextItemId(l) ==
    /\ load[l].at = "nextItemId"
    /\ load' = [load EXCEPT ![l] = [at |-> "nfts", c |-> load[l].c, found |-> Empty,
                                    pending |-> ScanItems(NextItemId[load[l].c])]]
    /\ UNCHANGED <<vars, register, busy, manager, nfts, rowsOf, openModals, tx, done, counters>>

\* nfts(c, item) answers; a query that fails counts as no NFT, with a toast.
\* The last answer resolves Promise.all: setNfts, whatever is selected by now.
loadItem(l, item, answered) ==
    LET key == <<load[l].c, item>>
        found == IF answered /\ key \in DOMAIN Nfts
                 THEN Insert(load[l].found, item, Nfts[key].owner) ELSE load[l].found
    IN
    /\ load[l].at = "nfts"
    /\ item \in load[l].pending
    /\ answered \/ QueriesFail
    /\ IF load[l].pending = {item}
       THEN /\ nfts' = found
            /\ rowsOf' = load[l].c
            /\ load' = [load EXCEPT ![l] = Idle]
       ELSE /\ load' = [load EXCEPT ![l].pending = @ \ {item}, ![l].found = found]
            /\ UNCHANGED <<nfts, rowsOf>>
    /\ UNCHANGED <<vars, register, busy, manager, openModals, tx, done, counters>>

\* nextItemId(c) fails: the rows stay as they are.
loadFailed(l) ==
    /\ QueriesFail
    /\ load[l].at = "nextItemId"
    /\ load' = [load EXCEPT ![l] = Idle]
    /\ UNCHANGED <<vars, register, busy, manager, nfts, rowsOf, openModals, tx, done, counters>>

\* The Burn button of a row sends the id of the row and of the selected collection.
burnNFT(s, item) ==
    /\ selectedCollection # None
    /\ item \in DOMAIN nfts
    /\ nfts[item] = Me
    /\ Send(s, [name |-> "burn", c |-> selectedCollection, item |-> item])

\* The callback of burnNFT, dispatch error or not: the collection of the click is
\* loaded again, whatever is selected by now.
burned(s, l) ==
    /\ tx[s].at = "inBlock"
    /\ tx[s].call.name = "burn"
    /\ StartLoad(l, tx[s].call.c)
    /\ tx' = [tx EXCEPT ![s] = Idle]
    /\ UNCHANGED <<vars, register, busy, manager, openModals, done, counters>>

------------------------------------------------------------------------------
(***************************************************************************)
(* The modals.  They stay mounted when closed, and a callback that comes   *)
(* late closes whatever is open by then.                                   *)
(***************************************************************************)
openModal(name) ==
    /\ isRegistered
    /\ name = "createNft" => selectedCollection # None
    /\ openModals' = openModals \cup {name}
    /\ UNCHANGED <<vars, register, busy, manager, rows, tx, done, counters>>

closeModal(name) ==
    /\ name \in openModals
    /\ openModals' = openModals \ {name}
    /\ UNCHANGED <<vars, register, busy, manager, rows, tx, done, counters>>

createCollection(s, metadata) ==
    /\ "createCollection" \in openModals
    /\ "createCollection" \notin busy
    /\ Send(s, [name |-> "createCollection", metadata |-> metadata])

collectionCreated(s) ==
    /\ tx[s].at = "inBlock"
    /\ tx[s].call.name = "createCollection"
    /\ collectionQueries' = collectionQueries + 1
    /\ openModals' = openModals \ {"createCollection"}
    /\ tx' = [tx EXCEPT ![s] = Idle]
    /\ UNCHANGED <<vars, register, busy, collections, selectedCollection, sameObject, rows, done, counters>>

createNFT(s, metadata, price) ==
    /\ "createNft" \in openModals
    /\ "createNft" \notin busy
    /\ Send(s, [name |-> "createNft", c |-> selectedCollection, metadata |-> metadata, price |-> price])

nftCreated(s, l) ==
    /\ tx[s].at = "inBlock"
    /\ tx[s].call.name = "createNft"
    /\ StartLoad(l, tx[s].call.c)
    /\ openModals' = openModals \ {"createNft"}
    /\ tx' = [tx EXCEPT ![s] = Idle]
    /\ UNCHANGED <<vars, register, busy, manager, done, counters>>

------------------------------------------------------------------------------
PageInit ==
    /\ isRegistered = FALSE
    /\ statusAsked = TRUE
    /\ busy = {}
    /\ collectionQueries = 0
    /\ collections = {}
    /\ selectedCollection = None /\ sameObject = TRUE
    /\ nfts = Empty /\ rowsOf = None
    /\ load = [l \in Loads |-> Idle]
    /\ openModals = {}
    /\ tx = [s \in Txs |-> Idle]
    /\ done = Empty
    /\ otherCalls = 0 /\ clicks = 0

CONSTANT Studio   \* ids of the collections the artist has already: 0 .. some id

ASSUME StudioAssumption == /\ \E n \in CollectionId : Studio = {c \in CollectionId : c < n}
                           /\ MaxItemId > 0 /\ 0 \in Prices

\* An artist at work, with an NFT in each collection.
StudioInit ==
    /\ Artists = {Me}
    /\ Collections = [c \in Studio |-> [creator |-> Me, metadata |-> 0,
                                       nfts |-> [NoNfts EXCEPT ![0] = 1]]]
    /\ Nfts = [key \in Studio \X {0} |->
                  [owner |-> Me, metadata |-> 0, is_sold |-> FALSE, price |-> 0]]
    /\ NextItemId = [c \in CollectionId |-> IF c \in Studio THEN 1 ELSE 0]
    /\ NextCollectionId = Cardinality(Studio)
    /\ balance = InitialBalance

\* What the wallet, the node and the collators do with an extrinsic, and the callback.
TxStep(s) ==
    \/ signed(s)
    \/ signFailed(s)
    \/ includedOk(s)
    \/ includedError(s)
    \/ dropped(s)
    \/ registered(s)
    \/ collectionCreated(s)
    \/ \E l \in Loads : burned(s, l) \/ nftCreated(s, l)

LoadStep(l) ==
    \/ loadNextItemId(l)
    \/ \E item \in ItemId, answered \in BOOLEAN : loadItem(l, item, answered)
    \/ loadFailed(l)

Click(s) ==
    \/ registerAsArtist(s)
    \/ \E item \in ItemId : burnNFT(s, item)
    \/ \E m \in Metadata : createCollection(s, m)
    \/ \E m \in Metadata, p \in Prices : createNFT(s, m, p)

ArtistNext ==
    \/ \E answered \in BOOLEAN : checkArtistStatus(answered) \/ loadCollections(answered)
    \/ \E s \in Txs : Click(s) \/ TxStep(s)
    \/ \E l \in Loads : LoadStep(l)
    \/ \E c \in CollectionId, l \in Loads : setSelectedCollection(c, l)
    \/ \E name \in {"createCollection", "createNft"} : openModal(name) \/ closeModal(name)
    \/ \E who \in Accounts : othersCall(who)
    \/ \E to \in Accounts \ {Me}, amount \in Amounts : spendElsewhere(to, amount)

ArtistFairness == /\ \A s \in Txs : WF_artistVars(TxStep(s))
                  /\ \A l \in Loads : WF_artistVars(LoadStep(l))

\* From genesis, or from an artist at work.
ArtistOpens == StudioInit /\ PageInit
PageOpens == (Init /\ PageInit) \/ ArtistOpens

ArtistSpec == PageOpens /\ [][ArtistNext]_artistVars /\ ArtistFairness
StudioSpec == ArtistOpens /\ [][ArtistNext]_artistVars

------------------------------------------------------------------------------
(***************************************************************************)
(* Registering costs the fee once, although the button can be clicked      *)
(* again while the first extrinsic waits in the pool.                      *)
(***************************************************************************)
FeePaidOnce == \A call \in DOMAIN done : call.name = "register" => done[call] = 1

(***************************************************************************)
(* The page takes the user for an artist only when the chain does, whether *)
(* it learned so from the query or from the callback of an extrinsic that  *)
(* may have failed.                                                        *)
(***************************************************************************)
RegisteredOnChain == isRegistered => Me \in Artists

\* Buttons that show "Registering..." or "Creating..." all become usable again, given
\* that the user does not click for ever.
ButtonsComeBack == busy # {} ~> busy = {}

(***************************************************************************)
(* Clicking Burn again, or on a row that is out of date, never burns an    *)
(* NFT that was created under the same id later: an id is burned once      *)
(* (below the one at which the counter stops).                             *)
(***************************************************************************)
BurnedOnce == \A call \in DOMAIN done :
                  call.name = "burn" /\ call.item # MaxItemId => done[call] = 1

(***************************************************************************)
(* What the heading of the rows says: "NFTs in <the selected collection>". *)
(* Once no load is under way and no callback is due, the rows, whose Burn  *)
(* buttons act on the selected collection, were loaded from it.            *)
(***************************************************************************)
RowsOfSelectedCollection ==
    (/\ \A l \in Loads : load[l] = Idle
     /\ \A s \in Txs : tx[s].at # "inBlock"
     /\ DOMAIN nfts # {})
    => rowsOf = selectedCollection

=============================================================================
