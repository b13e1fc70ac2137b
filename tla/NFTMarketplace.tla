--------------------------- MODULE NFTMarketplace ---------------------------
(***************************************************************************)
(* The marketplace page of one user in front of the chain:                 *)
(* components/NFTMarketplace.tsx, the Farcaster context it gets from       *)
(* components/Demo.tsx, the engagement check of utils/farcaster.ts and the *)
(* API routes behind it, and the NFT pallet, on which everybody else acts  *)
(* at the same time.                                                       *)
(*                                                                         *)
(* Every await is a point where other steps happen: the pages read the     *)
(* chain one query at a time, a click on "Mint" goes through two requests, *)
(* a signature, a block and a callback, and clicks are not held back while *)
(* an earlier one is under way.                                            *)
(***************************************************************************)
EXTENDS TemplatePallet

CONSTANTS
    Me,             \* the account the page signs with
    Loads,          \* loadNFTs invocations that may be under way at once
    Mints,          \* mintNft invocations that may be under way at once
    QueriesFail,    \* whether queries of the chain may fail
    MaxOtherCalls,  \* bound of the model: calls the rest of the world makes
    MaxReactions    \* bound of the model: changes to the user's reactions

ASSUME PageAssumption == Me \in Accounts /\ QueriesFail \in BOOLEAN

VARIABLES
    fid,         \* the Farcaster id is known to the page (not "")
    castHash,    \* the cast the page was opened from is known (not "")
    sdkLoaded,   \* Demo's load() has run
    reactions,   \* the user's reactions on the cast, kept by Farcaster
    nfts,        \* the page's NFTs: key -> owner and isSold
    isLoading,
    load,        \* per loadNFTs invocation: where it is and what it has read
    mint,        \* per mintNft invocation: where it is, and its closure
    purchased,   \* how often a mint of this page bought each NFT (history)
    otherCalls, reactionChanges  \* counters of the two bounds

farcaster == <<fid, castHash, sdkLoaded, reactions>>
bounds == <<otherCalls, reactionChanges>>
allVars == <<vars, farcaster, nfts, isLoading, load, mint, purchased, bounds>>

Empty == [k \in {} |-> 0]
Idle == [at |-> "idle"]

------------------------------------------------------------------------------
(***************************************************************************)
(* Demo: the context is read once; outside a cast, or outside Farcaster,   *)
(* parts of it are missing and become "".                                  *)
(***************************************************************************)
DemoLoad(user, cast) ==
    /\ ~sdkLoaded
    /\ sdkLoaded' = TRUE
    /\ fid' = user
    /\ castHash' = cast
    /\ UNCHANGED <<vars, reactions, nfts, isLoading, load, mint, purchased, bounds>>

------------------------------------------------------------------------------
(***************************************************************************)
(* loadNFTs: the keys of all collections, then for each collection its     *)
(* NextItemId, then its NFTs one after the other, each query at the state  *)
(* the chain has by then.  nextItemId.toString() + 1 appends a digit to a  *)
(* string, so the loop for a counter n runs up to 10n + 1 (excluded); ids  *)
(* that no NFT can have are not worth a step here.                         *)
(***************************************************************************)
ScanEnd(n) == LET bound == 10 * n + 1 IN IF bound > MaxItemId THEN MaxItemId + 1 ELSE bound

NewLoad == [at |-> "entries", todo |-> {}, c |-> 0, item |-> 0, end |-> 0, found |-> Empty]

\* The next collection of the list; after the last one, setNfts and the finally
\* block.
NextRound(l, todo, found) ==
    IF todo # {}
    THEN /\ load' = [load EXCEPT ![l] = [NewLoad EXCEPT !.at = "nextItemId", !.todo = todo,
                                                       !.found = found]]
         /\ UNCHANGED <<nfts, isLoading>>
    ELSE /\ load' = [load EXCEPT ![l] = Idle]
         /\ nfts' = found
         /\ isLoading' = FALSE

\* collections.entries() answers.
loadCollections(l) ==
    /\ load[l].at = "entries"
    /\ NextRound(l, DOMAIN Collections, Empty)
    /\ UNCHANGED <<vars, farcaster, mint, purchased, bounds>>

\* nextItemId(c) answers for the next collection of the list.
loadNextItemId(l, c) ==
    /\ load[l].at = "nextItemId"
    /\ c \in load[l].todo
    /\ load' = [load EXCEPT ![l].at = "items", ![l].todo = @ \ {c}, ![l].c = c,
                            ![l].end = ScanEnd(NextItemId[c])]
    /\ UNCHANGED <<vars, farcaster, nfts, isLoading, mint, purchased, bounds>>

\* nfts(c, item) answers.  An empty answer is skipped, and so is, with a toast,
\* a query that failed.
loadItem(l, answered) ==
    LET key == <<load[l].c, load[l].item>>
        found == IF answered /\ key \in DOMAIN Nfts
                 THEN Insert(load[l].found, key, [owner |-> Nfts[key].owner, isSold |-> Nfts[key].is_sold])
                 ELSE load[l].found
    IN
    /\ load[l].at = "items"
    /\ answered \/ QueriesFail
    /\ IF load[l].item + 1 < load[l].end
       THEN /\ load' = [load EXCEPT ![l].item = @ + 1, ![l].found = found]
            /\ UNCHANGED <<nfts, isLoading>>
       ELSE NextRound(l, load[l].todo, found)
    /\ UNCHANGED <<vars, farcaster, mint, purchased, bounds>>

\* A query outside the inner try fails: a toast, and the page keeps its NFTs.
loadFailed(l) ==
    /\ QueriesFail
    /\ load[l].at \in {"entries", "nextItemId"}
    /\ isLoading' = FALSE
    /\ load' = [load EXCEPT ![l] = Idle]
    /\ UNCHANGED <<vars, farcaster, nfts, mint, purchased, bounds>>

------------------------------------------------------------------------------
(***************************************************************************)
(* mintNft.  It keeps the fid and castHash of the render in which it was   *)
(* clicked; without a fid it goes straight to the signature.  Two history  *)
(* fields: the price of the NFT when it was clicked, and whether the user  *)
(* has had both reactions on the cast at any time since.                   *)
(***************************************************************************)
Engaged == reactions = {"like", "recast"}

PriceNow(key) == IF key \in DOMAIN Nfts THEN {Nfts[key].price} ELSE {}

mintNft(s, key) ==
    /\ mint[s] = Idle
    /\ key \in DOMAIN nfts
    /\ ~nfts[key].isSold
    /\ isLoading' = TRUE
    /\ mint' = [mint EXCEPT ![s] =
                   [at |-> IF fid THEN "verifying" ELSE "signing", key |-> key,
                    fid |-> fid, castHash |-> castHash,
                    price |-> PriceNow(key), engaged |-> Engaged]]
    /\ UNCHANGED <<vars, farcaster, nfts, load, purchased, bounds>>

\* Mutant: an early return leaves the flag set.
mintEndsLoading(s) ==
    /\ mint' = [mint EXCEPT ![s] = Idle]
    /\ UNCHANGED <<vars, farcaster, nfts, isLoading, load, purchased, bounds>>

mintEnds(s) ==
    /\ mint' = [mint EXCEPT ![s] = Idle]
    /\ isLoading' = FALSE
    /\ UNCHANGED <<vars, farcaster, nfts, load, purchased, bounds>>

mintGoesOn(s, at) ==
    /\ mint' = [mint EXCEPT ![s].at = at]
    /\ UNCHANGED <<vars, farcaster, nfts, isLoading, load, purchased, bounds>>

\* verifyUser resolved and checkEngagement sends its request...
verified(s) ==
    /\ mint[s].at = "verifying"
    /\ mint[s].castHash
    /\ mintGoesOn(s, "checking")

\* ... unless the cast is not known, or verifyUser threw.
verifyFailed(s) ==
    /\ mint[s].at = "verifying"
    /\ mintEnds(s)

\* Mutant: one reaction is enough.
checkEngagementEither(s) ==
    /\ mint[s].at = "checking"
    /\ "like" \in reactions \/ "recast" \in reactions
    /\ mintGoesOn(s, "signing")

\* The check-engagement route found both reactions.
checkEngagement(s) ==
    /\ mint[s].at = "checking"
    /\ "like" \in reactions /\ "recast" \in reactions
    /\ mintGoesOn(s, "signing")

\* It did not, or the request failed.
notEngaged(s) ==
    /\ mint[s].at = "checking"
    /\ mintEnds(s)

\* The wallet signed and the extrinsic is in the pool: signAndSend resolves.
signAndSend(s) ==
    /\ mint[s].at = "signing"
    /\ mint' = [mint EXCEPT ![s].at = "inPool"]
    /\ isLoading' = FALSE
    /\ UNCHANGED <<vars, farcaster, nfts, load, purchased, bounds>>

\* The user refused to sign, or the node refused the extrinsic.
signFailed(s) ==
    /\ mint[s].at = "signing"
    /\ mintEnds(s)

------------------------------------------------------------------------------
(***************************************************************************)
(* The chain.  An extrinsic of the pool is included, and its dispatch      *)
(* succeeds or leaves no trace; or it is dropped and no callback comes.    *)
(***************************************************************************)
includedOk(s) ==
    /\ mint[s].at = "inPool"
    /\ mint_nft(Me, mint[s].key)
    /\ purchased' = [purchased EXCEPT ![mint[s].key] = @ + 1]
    /\ mint' = [mint EXCEPT ![s].at = "inBlock"]
    /\ UNCHANGED <<farcaster, nfts, isLoading, load, bounds>>

includedError(s) ==
    /\ mint[s].at = "inPool"
    /\ mint_nft_result(Me, mint[s].key) # "Ok"
    /\ mintGoesOn(s, "inBlock")

dropped(s) ==
    /\ mint[s].at = "inPool"
    /\ mint' = [mint EXCEPT ![s] = Idle]
    /\ UNCHANGED <<vars, farcaster, nfts, isLoading, load, purchased, bounds>>

\* status.isInBlock, whether or not the dispatch failed: "Refresh NFTs after purchase".
inBlock(s, l) ==
    /\ mint[s].at = "inBlock"
    /\ load[l] = Idle
    /\ load' = [load EXCEPT ![l] = NewLoad]
    /\ isLoading' = TRUE
    /\ mint' = [mint EXCEPT ![s] = Idle]
    /\ UNCHANGED <<vars, farcaster, nfts, purchased, bounds>>

\* Calls of everybody else.
othersCall(who) ==
    /\ otherCalls < MaxOtherCalls
    /\ otherCalls' = otherCalls + 1
    /\ \/ \E c \in CollectionId : delete_collection(who, c)
       \/ \E c \in CollectionId, m \in Metadata, p \in Prices : create_nft(who, c, m, p)
       \/ \E key \in NftKey, to \in Accounts : transfer_nft(who, key, to)
       \/ \E key \in NftKey : burn_nft(who, key)
       \/ \E key \in NftKey : mint_nft(who, key)
    /\ UNCHANGED <<farcaster, nfts, isLoading, load, mint, purchased, reactionChanges>>

\* The user likes or recasts, or takes it back.
react(new) ==
    /\ reactionChanges < MaxReactions
    /\ new # reactions
    /\ reactionChanges' = reactionChanges + 1
    /\ reactions' = new
    /\ mint' = [s \in Mints |-> IF mint[s] = Idle THEN Idle
                                ELSE [mint[s] EXCEPT !.engaged = @ \/ Engaged']]
    /\ UNCHANGED <<vars, fid, castHash, sdkLoaded, nfts, isLoading, load, purchased, otherCalls>>

------------------------------------------------------------------------------
(***************************************************************************)
(* The page opens when an artist has a collection on the market; nothing   *)
(* is known of Farcaster yet, and the first load is under way.             *)
(***************************************************************************)
CONSTANTS Artist, Listed   \* the artist; item id -> price of the NFTs on sale

ASSUME MarketAssumption == /\ Artist \in Accounts
                           /\ \E n \in ItemId : Listed \in [{i \in ItemId : i < n} -> Prices]

MarketInit ==
    /\ Artists = {Artist}
    /\ Collections = [c \in {0} |-> [creator |-> Artist, metadata |-> 0,
                                     nfts |-> [i \in ItemId |-> IF i \in DOMAIN Listed THEN 1 ELSE 0]]]
    /\ Nfts = [key \in {0} \X DOMAIN Listed |->
                  [owner |-> Artist, metadata |-> 0, is_sold |-> FALSE, price |-> Listed[key[2]]]]
    /\ NextItemId = [c \in CollectionId |-> IF c = 0 THEN Cardinality(DOMAIN Listed) ELSE 0]
    /\ NextCollectionId = SaturatingSucc(0, MaxCollectionId)
    /\ balance = InitialBalance

PageInit ==
    /\ fid = FALSE /\ castHash = FALSE /\ sdkLoaded = FALSE
    /\ reactions = {}
    /\ nfts = Empty
    /\ isLoading = TRUE
    /\ \E l \in Loads : load = [k \in Loads |-> IF k = l THEN NewLoad ELSE Idle]
    /\ mint = [s \in Mints |-> Idle]
    /\ purchased = [key \in NftKey |-> 0]
    /\ otherCalls = 0 /\ reactionChanges = 0

LoadStep(l) ==
    \/ loadCollections(l)
    \/ \E c \in CollectionId : loadNextItemId(l, c)
    \/ \E answered \in BOOLEAN : loadItem(l, answered)
    \/ loadFailed(l)

MintStep(s) ==
    \/ verified(s)
    \/ verifyFailed(s)
    \/ checkEngagement(s)
    \/ notEngaged(s)
    \/ signAndSend(s)
    \/ signFailed(s)

BlockStep(s) ==
    \/ includedOk(s)
    \/ includedError(s)
    \/ dropped(s)
    \/ \E l \in Loads : inBlock(s, l)

PageNext ==
    \/ \E user, cast \in BOOLEAN : DemoLoad(user, cast)
    \/ \E l \in Loads : LoadStep(l)
    \/ \E s \in Mints :
          \/ \E key \in NftKey : mintNft(s, key)
          \/ MintStep(s)
          \/ BlockStep(s)
    \/ \E who \in Accounts \ {Me} : othersCall(who)
    \/ \E new \in SUBSET {"like", "recast"} : react(new)

PageOpens == MarketInit /\ PageInit

MarketSpec == PageOpens /\ [][PageNext]_allVars

\* The node, the API routes and the wallet answer in the end, one way or the
\* other, and collators include or drop what is in the pool.
MarketFairness == /\ \A l \in Loads : WF_allVars(LoadStep(l))
                  /\ \A s \in Mints : WF_allVars(MintStep(s)) /\ WF_allVars(BlockStep(s))

FairMarketSpec == MarketSpec /\ MarketFairness

------------------------------------------------------------------------------
(***************************************************************************)
(* Clicking "Mint" again on an NFT already bought, or that is being        *)
(* bought, or on a stale page, never pays for it a second time.            *)
(***************************************************************************)
PaidOnce == \A key \in NftKey : key[2] # MaxItemId => purchased[key] <= 1

(***************************************************************************)
(* What the user pays is the price the NFT had when "Mint" was clicked,    *)
(* whatever was burned, created or sold before the block: an id never      *)
(* comes to name another NFT.                                              *)
(***************************************************************************)
PaysPriceOfClick ==
    [][\A s \in Mints :
          mint[s].at = "inPool" /\ mint'[s].at = "inBlock" /\ purchased' # purchased
             /\ mint[s].key[2] # MaxItemId
          => mint[s].price = {Nfts[mint[s].key].price}]_allVars

(***************************************************************************)
(* When the page knew the user's fid at the click, nothing is signed       *)
(* unless the user had liked and recasted the cast at some moment since.   *)
(***************************************************************************)
GatedWhenFidKnown ==
    \A s \in Mints : mint[s].at \in {"signing", "inPool", "inBlock"} /\ mint[s].fid
                        => mint[s].engaged

\* The spinner does not stay for ever.
LoadingEnds == isLoading ~> ~isLoading

(***************************************************************************)
(* What README.md says: "users can only mint NFTs if they have liked and   *)
(* recasted the original cast".                                            *)
(***************************************************************************)
MintOnlyIfEngaged == \A s \in Mints : mint[s].at = "inBlock" => mint[s].engaged

(***************************************************************************)
(* What the comments in mintNft and handleTransfer say of the load after a *)
(* purchase: "Refresh NFTs after purchase".  Once every load is done and   *)
(* no callback is due, the page shows what it bought as sold.              *)
(***************************************************************************)
RefreshShowsPurchase ==
    (/\ \A l \in Loads : load[l] = Idle
     /\ \A s \in Mints : mint[s].at # "inBlock")
    => \A key \in DOMAIN nfts : purchased[key] > 0 => nfts[key].isSold

=============================================================================
