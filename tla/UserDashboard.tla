---------------------------- MODULE UserDashboard ----------------------------
(***************************************************************************)
(* "My Collection" (components/UserDashboard.tsx) on the connection of     *)
(* ChainContext, in front of the chain.  loadUserNFTs reads                *)
(* NextCollectionId, then for every collection id below it NextItemId,     *)
(* then the NFTs one after the other, and keeps the ones the account of    *)
(* the page owns.  The chain moves between any two queries, and another    *)
(* scan begins beside one that runs when the user selects another account  *)
(* or the api is replaced: the last one to finish is shown.                *)
(***************************************************************************)
EXTENDS TemplatePallet, ChainContext, Sequences

Seqs == INSTANCE SequencesExt

CONSTANTS
    Users,        \* the accounts of the user's wallet
    MaxCalls,     \* bound of the model: calls dispatched while the page is used
    MaxClicks     \* bound of the model: views opened and accounts selected

ASSUME DashboardAssumption == Users \subseteq Accounts /\ MaxCalls \in Nat /\ MaxClicks \in Nat

VARIABLES
    account,      \* the selected account
    userNFTs,     \* keys of the NFTs shown
    isLoading,
    scans,        \* the calls of loadUserNFTs under way, the oldest first
    source,       \* the scan that found what is shown (history)
    calls, clicks \* counters of the two bounds

page == <<userNFTs, isLoading, scans, source>>
dashboardVars == <<vars, chainContextVars, account, page, calls, clicks>>

OwnedIn(nfts, who) == {key \in DOMAIN nfts : nfts[key].owner = who}
Owned(who) == OwnedIn(Nfts, who)

\* A scan that begins, with the NFTs its account owned all the time and at any time
\* since it began (history).
NewScan(who, via) == [at |-> "nextCollectionId", of |-> who, via |-> via, c |-> 0, ends |-> 0,
                      item |-> 0, itemsEnd |-> 0, found |-> {}, kept |-> Owned(who), ever |-> Owned(who)]

------------------------------------------------------------------------------
(***************************************************************************)
(* The component.  Demo shows it while there is an api; a new one has its  *)
(* own state, and what scans of the one before still find is not shown.    *)
(***************************************************************************)
Mounted == scans' = <<NewScan(account, api)>> /\ userNFTs' = {} /\ isLoading' = TRUE /\ source' = {}
Unmounted == scans' = <<>> /\ userNFTs' = {} /\ isLoading' = FALSE /\ source' = {}

\* Its effect: another scan, while others may still run.
Reloads(who) ==
    /\ scans' = Append(scans, NewScan(who, api))
    /\ isLoading' = TRUE
    /\ UNCHANGED <<userNFTs, source>>

\* A render after the api changed, with the effects of the page and of the provider.
render ==
    /\ effect
    /\ IF api = NoApi THEN Unmounted
       ELSE IF effectApi = NoApi THEN Mounted
       ELSE Reloads(account)
    /\ UNCHANGED <<vars, account, calls, clicks>>

connecting ==
    /\ connected \/ connectFails
    /\ UNCHANGED <<vars, account, page, calls, clicks>>

Click == clicks < MaxClicks /\ clicks' = clicks + 1 /\ UNCHANGED <<vars, chainContextVars, calls>>

\* The user leaves the view and comes back.
openView ==
    /\ api # NoApi /\ ~Rendered
    /\ Click
    /\ Mounted
    /\ UNCHANGED account

\* The user selects another account in the wallet's modal.
accountSelected(who) ==
    /\ api # NoApi /\ ~Rendered /\ who # account
    /\ Click
    /\ account' = who
    /\ Reloads(who)

------------------------------------------------------------------------------
(***************************************************************************)
(* loadUserNFTs.  Each answer takes scan i on; a closed connection answers *)
(* nothing.                                                                *)
(***************************************************************************)
Answered(i, at) == i \in DOMAIN scans /\ scans[i].at = at /\ scans[i].via \in open

GoesOn(i, scan) ==
    /\ scans' = [scans EXCEPT ![i] = scan]
    /\ UNCHANGED <<userNFTs, isLoading, source>>

\* The next round of the outer loop; after the last one, setUserNFTs and the
\* finally block.
NextRound(i, scan) ==
    IF scan.c < scan.ends
    THEN GoesOn(i, [scan EXCEPT !.at = "nextItemId", !.item = 0, !.itemsEnd = 0])
    ELSE /\ scans' = Seqs!RemoveAt(scans, i)
         /\ userNFTs' = scan.found
         /\ isLoading' = FALSE
         /\ source' = {[of |-> scan.of, kept |-> scan.kept, ever |-> scan.ever]}

NothingElse == UNCHANGED <<vars, chainContextVars, account, calls, clicks>>

\* Mutant: as many collections as there are.
nextCollectionIdByCount(i) ==
    /\ Answered(i, "nextCollectionId")
    /\ NextRound(i, [scans[i] EXCEPT !.ends = Cardinality(DOMAIN Collections)])
    /\ NothingElse

\* nextCollectionId() answers.
nextCollectionId(i) ==
    /\ Answered(i, "nextCollectionId")
    /\ NextRound(i, [scans[i] EXCEPT !.ends = NextCollectionId])
    /\ NothingElse

\* nextItemId(collectionId) answers.
nextItemId(i) ==
    /\ Answered(i, "nextItemId")
    /\ LET items == NextItemId[scans[i].c] IN
       IF items = 0 THEN NextRound(i, [scans[i] EXCEPT !.c = @ + 1])
       ELSE GoesOn(i, [scans[i] EXCEPT !.at = "nfts", !.itemsEnd = items])
    /\ NothingElse

\* The inner loop, when seen has been found so far.
NextItem(i, seen) ==
    LET scan == [scans[i] EXCEPT !.found = seen] IN
    /\ IF scan.item + 1 < scan.itemsEnd THEN GoesOn(i, [scan EXCEPT !.item = @ + 1])
       ELSE NextRound(i, [scan EXCEPT !.c = @ + 1])
    /\ NothingElse

\* Mutant: the account selected by now.
nftOfSelected(i) ==
    /\ Answered(i, "nfts")
    /\ NextItem(i, scans[i].found \cup (Owned(account) \cap {<<scans[i].c, scans[i].item>>}))

\* nfts(collectionId, itemId) answers; the account is the one of the closure.
nft(i) ==
    /\ Answered(i, "nfts")
    /\ NextItem(i, scans[i].found \cup (Owned(scans[i].of) \cap {<<scans[i].c, scans[i].item>>}))

\* Mutant: the spinner is only taken away after a success.
loadFailedStillLoading(i) ==
    /\ i \in DOMAIN scans
    /\ scans' = Seqs!RemoveAt(scans, i)
    /\ UNCHANGED <<userNFTs, isLoading, source>>
    /\ NothingElse

\* Any query fails: a toast, and nothing of what was found is shown.
loadFailed(i) ==
    /\ i \in DOMAIN scans
    /\ scans' = Seqs!RemoveAt(scans, i)
    /\ isLoading' = FALSE
    /\ UNCHANGED <<userNFTs, source>>
    /\ NothingElse

\* The chain moves, the user's own calls from another tab included.
chainMoves ==
    /\ calls < MaxCalls
    /\ calls' = calls + 1
    /\ Next
    /\ scans' = [i \in DOMAIN scans |->
                    [scans[i] EXCEPT !.kept = @ \cap OwnedIn(Nfts', scans[i].of),
                                     !.ever = @ \cup OwnedIn(Nfts', scans[i].of)]]
    /\ UNCHANGED <<chainContextVars, account, userNFTs, isLoading, source, clicks>>

------------------------------------------------------------------------------
(***************************************************************************)
(* The user and an artist have a collection each, with an NFT of the user  *)
(* in both.                                                                *)
(***************************************************************************)
CONSTANTS Me, Artist

ASSUME CollectorsAssumption == /\ {Me, Artist} \subseteq Accounts
                               /\ MaxCollectionId >= 2 /\ MaxItemId >= 1 /\ 0 \in Prices

DashboardInit ==
    /\ Artists = {Me, Artist}
    /\ Collections = [c \in {0, 1} |-> [creator |-> IF c = 0 THEN Me ELSE Artist, metadata |-> 0,
                                        nfts |-> [NoNfts EXCEPT ![0] = 1]]]
    /\ Nfts = [key \in {<<0, 0>>, <<1, 0>>} |->
                  [owner |-> Me, metadata |-> 0, is_sold |-> key[1] = 1, price |-> 0]]
    /\ NextItemId = [c \in CollectionId |-> IF c \in {0, 1} THEN 1 ELSE 0]
    /\ NextCollectionId = 2
    /\ balance = InitialBalance
    /\ ChainInit
    /\ account = Me
    /\ userNFTs = {} /\ isLoading = FALSE /\ scans = <<>> /\ source = {}
    /\ calls = 0 /\ clicks = 0

ScanStep(i) == nextCollectionId(i) \/ nextItemId(i) \/ nft(i) \/ loadFailed(i)

DashboardNext ==
    \/ render \/ connecting
    \/ openView
    \/ \E who \in Users : accountSelected(who)
    \/ \E i \in DOMAIN scans : ScanStep(i)
    \/ chainMoves

(***************************************************************************)
(* A query over an open connection is answered in the end or fails; a      *)
(* state that was set is rendered.  Nothing is assumed of the attempts to  *)
(* connect.                                                                *)
(***************************************************************************)
DashboardSpec ==
    /\ DashboardInit /\ [][DashboardNext]_dashboardVars
    /\ WF_dashboardVars(render)
    /\ WF_dashboardVars(\E i \in DOMAIN scans : ScanStep(i))

------------------------------------------------------------------------------
(***************************************************************************)
(* Every NFT that the account owned from the beginning of a scan to its    *)
(* end is among those it shows, also when its collection was deleted       *)
(* before or meanwhile.  The scan stops below the counters, so ids at      *)
(* which a saturated counter stands are left out.                          *)
(***************************************************************************)
ShowsWhatIKept ==
    \A s \in source : \A key \in s.kept :
        key[1] < MaxCollectionId /\ key[2] < MaxItemId => key \in userNFTs

(***************************************************************************)
(* Nothing is shown that was not owned, at some moment of the scan that    *)
(* found it, by the account that scan is for, whatever was burned, created *)
(* or given away and whichever account was selected meanwhile.             *)
(***************************************************************************)
ShowsOnlyMine == \A key \in userNFTs : \E s \in source : key \in s.ever

(***************************************************************************)
(* The spinner of "My Collection" ends, whichever query fails, also when   *)
(* the connection of a scan is closed and replaced.                        *)
(***************************************************************************)
DashboardLoadingEnds == isLoading ~> ~isLoading

=============================================================================
