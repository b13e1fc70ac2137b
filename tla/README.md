# A TLA+ development for the Polkadot NFT marketplace

The repository is a parachain with one pallet of its own (artists register,
create collections and NFTs, and sell each NFT once), the collator node that
runs it, and a Next.js front end, shown as a Farcaster frame, that drives it
through browser wallets. This directory holds the TLA+ modules that model the
three, the configurations that check them with TLC, and proofs that TLAPS
checks.

    tlc -workers 2 -config MCPallet.cfg MCTemplatePallet   # one run
    tlapm CollationProofs.tla                              # one proof module

`PROJECT.json` lists the runs, which source lines each definition stands for, a
mutant for every property (a plausible bug that TLC must find), the hazards the
properties are for, and the theorems.

## 1. Inventory

| part | source | state | operations |
|---|---|---|---|
| NFT pallet | `pallets/template/src/lib.rs` | `Artists`, `Collections`, `Nfts`, `NextItemId`, `NextCollectionId` | `register_artist`, `create_collection`, `delete_collection`, `create_nft`, `transfer_nft`, `burn_nft`, `mint_nft` |
| balances | `pallet_balances` as set up in `runtime/src/configs/mod.rs` | free balances | transfers with and without KeepAlive, existential deposit, dust |
| runtime | `runtime/src` | nonces, balances, weight of the block, unincluded segment (kept by FRAME pallets, with this runtime's parameters) | `validate_transaction`, `initialize_block`, `apply_extrinsic`, `finalize_block`, `can_build_upon`, genesis |
| collator node | `node/src` | database directories, ports, tasks of a process | subcommands, `new_partial`, `start_parachain_node`, `start_consensus`, `purge-chain` |
| wallet context | `contexts/WalletContext.tsx`, `ConnectWalletModal.tsx`, `app/page.tsx` | connected wallets, selected wallet and account, signer, `isConnecting`, modal | connect, disconnect, choose an account |
| marketplace page | `NFTMarketplace.tsx`, `Demo.tsx` | list of NFTs, `isLoading`, fid and cast | `loadNFTs`, `mintNft`, `handleTransfer` |
| engagement check | `utils/farcaster.ts`, `app/api/*` | none (asks Farcaster) | `verify-user`, `check-engagement`, `cast-details` |
| artist pages | `ArtistDashboard.tsx`, `CollectionManager.tsx`, two modals | `isRegistered`, collections, selection, rows, busy flags | register, load, create, burn, transfer |
| user dashboard | `UserDashboard.tsx` | the user's NFTs, `isLoading` | `loadUserNFTs` |
| chain connection | `ChainContext.tsx`, `utils/chain.ts` | `api`, `isConnecting`, `error` | connect, clean-up |

**How they interact.** A page reads the chain with one query per item and writes
to it with extrinsics: wallet signature, pool, block, callback. The wallet
context gives every page the account and the signer; `Demo` gives the
marketplace the Farcaster id and cast once the SDK has answered. Nothing is
shared between pages but the chain and the connection to it, which
`ChainContext` makes and, when it is replaced, closes. On the other side of the
connection a node of `node/src` keeps the pool, builds blocks with the runtime
when it is its authority's turn, and offers them to the relay chain, which
includes them later or not at all.

**What is hard.**

- The pallet is sequential, and its difficulty is in long sequences of calls:
  ids that must not come back after a burn or a deletion, two places that say
  which NFTs a collection has, counters that saturate, a vector that is full,
  errors after the first write (FRAME rolls them back), money near the
  existential deposit, and an account nobody can sign for.
- The front end is concurrent without threads: every handler is `async`, works
  on the values of the render in which it was started, and any click, answer
  or block can come between two of its steps. Several invocations of the same
  handler overlap, finish in any order, and fail at any `await`.
- The node starts in a dozen steps that each can fail, on a machine where other
  invocations hold directories and ports, and tasks end while it starts.
- Blocks are built ahead of their inclusion by several collators and can be
  retracted; extrinsics compete for nonces, accounts die and take their nonce
  with them, and several limits decide what fits into a block.
- Between a page's read and the block that executes its extrinsic the chain
  moves. The arguments are only ids, so correctness depends on what ids mean.

**What makes each part correct.** Pallet: ids are used once, the vector and the
map agree, an NFT is sold at most once and for its price, deleting a collection
takes nothing from owners, fees stay in the treasury. Wallet: account, signer and
selected wallet belong together, and the busy flag comes down. Marketplace: paying
once, at the price of the click, only when engaged, and showing what was bought.
Artist pages: one fee, rows and selection that belong together, no second
burn. User dashboard: a scan of many blocks that neither loses nor invents.
Connection: whoever has none sees that it failed or that an attempt goes on. Node:
no panic, no collating full node, no collator
that has stopped collating, and a purge that removes what a node wrote. Block
production: nothing applied twice, no money out of nothing, limits kept, nothing
reported and then lost, and what is ready is settled.

## 2. Modules

| module | models | composes |
|---|---|---|
| `TemplatePallet` | the pallet with the balances it moves | |
| `NftRegistry` | abstract: the life cycle of an NFT | |
| `TemplatePalletProofs`, `RegistryRefinement` | theorems about `TemplatePallet` | `TemplatePallet` |
| `Node` | the node binary on a machine | |
| `NodeProofs` | theorems about `Node` | `Node` |
| `Collation` | pool, block building with the runtime's parameters, unincluded segment | |
| `CollationProofs` | theorems about `Collation` | `Collation` |
| `WalletContext` | wallet context and modal | |
| `WalletProofs` | theorems about `WalletContext` | `WalletContext` |
| `ChainContext` | the connection to the chain | |
| `NFTMarketplace` | marketplace page, Demo's context, engagement check | `TemplatePallet` |
| `UserDashboard` | the user's page | `TemplatePallet`, `ChainContext` |
| `ArtistDashboard` | registration, collection manager, modals | `TemplatePallet` |
| `MarketplaceProofs`, `DashboardProofs`, `ArtistProofs` | theorems about the three pages | the page and `TemplatePalletProofs` |
| `MC*` | constants for TLC | one of the above each |

**`TemplatePallet`.** Every call `f` is two definitions: `f_result`, the first
error of its checks in the order of the code or `"Ok"`, and the action `f`,
enabled when the result is `"Ok"`, with all the writes of the call. A call that
fails leaves no trace, because FRAME runs each dispatch in a storage layer; this
also covers `burn_nft`, which removes the NFT before it finds the collection
missing, and `create_nft`, which inserts the NFT before `try_push` fails. The
`nfts` vector is a bag (item id to number of occurrences), since nothing reads
its order; metadata is its length; the id counters are bounded by constants that
stand for `u32::MAX` and saturate there, as `saturating_add` does.
`pallet_balances` is external: a transfer needs the funds, must not leave the
receiver below the existential deposit, with KeepAlive not the sender either, and
a sender that falls below it loses the dust. Zero transfers and transfers to
oneself do nothing.

**`NftRegistry`.** A token is unborn, then on sale at a fixed price, then sold
(for exactly that price), given away, or burned; burned is final. The mapping
`Tokens` reads the state of a token off the pallet's storage: an id not in
storage is burned when the counter has passed it and unborn otherwise. Ids at the
saturation point are outside the mapping: there the code overwrites.

**`Node`.** A process is a record of the stage it has reached and of what it
holds. A command line (`Invocation`) is what the code looks at: subcommand,
chain, `--dev`, base path, flags, and the chain and base path after `--`. One
action per stage of `run` and `start_parachain_node`; every stage with a `?` can
end the process instead (`startFails`), a kill or a signal can come at any
stage, and any task can end. Directories are paths, so that the code that
derives the relay chain's directory from the parachain's configuration is
modelled by what it computes. `wrote` records which directories nodes with
given arguments have opened; it and `taken`, `removed` are read by properties
only. Database locks, the fallback to another port and the task manager are
external, and so is the end of a process (`Ended`): that it gives back what it held
is the operating system's doing and no property is about it. The keyring flags
(`--alice` and the others), which make an authority as `--collator`, `--validator` and
`--dev` do, stand as one flag. The prompt of `purge-chain` and its `--parachain` and
`--relaychain` are left out: it purges both. Removal of the temporary directory of `--dev` is left out, and the
error for a specification without a parachain id cannot be reached (the
extension is not optional).

**`Collation`.** Weights are in units of `ExtrinsicBaseWeight` (125 microseconds)
and money in `MICRO_UNIT`s; in these units all the constants of the runtime are
exact. An extrinsic has a signer, a nonce, a dispatch class, a weight and a
length, and its call makes a transfer, as `mint_nft` does. A state of the chain
has nonces and balances, the slot of its last block (counted back from the
current one; from two slots ago on all are alike) and how many blocks that slot
had; `applied` and `deaths` are history. `initialize_block` is guarded by
`can_build_upon` for the current slot or the one before and takes what the
message queue uses, and what every block has to carry: two inherents
(`timestamp.set` and `set_validation_data`), a base weight each, and
`HooksWeight`, a constant for their calls and for the hooks of the other pallets, at
most the 5% that the runtime assumes for them (the weights of those calls are the
libraries', so the constant is any number up to that); `apply_extrinsic` is guarded by nonce, fee and `Fits`
(CheckWeight with this runtime's `BlockWeights`); `finalize_block` seals, appends
to the segment and prunes the pool; `include` and `retract` are the relay chain;
`crash` loses the block under construction. FRAME, the pool and the relay chain
are external, their parameters and composition are the repository's.

**`ChainContext`.** `effect` is a render after `api` changed: the clean-up of the
effect before closes that effect's connection and takes the api away, then
`initChain` runs unless there is an api. `connectToChain` waits for ever for a
node that cannot be reached (the provider retries) and fails only when a query
after `isReady` does; both are left to `connected` and `connectFails`, and nothing
says that either ever happens. `isConnecting`, which overlapping attempts share, and
`error` are what the header makes `ChainStatus` of. What `Demo` shows instead of the
views, a spinner for as long as there is no api, is not a property's matter.
`UserDashboard` puts its effects into the same render (`render`).

**`WalletContext`.** `call[k]` is an invocation of a handler: the promise it waits
for, and its closure. Clicks start one; each answer or refusal of a wallet runs
the code up to the next `await`.

**`NFTMarketplace`, `UserDashboard`, `ArtistDashboard`.** Each extends the pallet.
A load is a record of where it is in its loops; each query is a step that reads
the chain as it is then. An extrinsic goes through `signing`, `inPool`,
`inBlock`; in the pool it is included with success, included with a dispatch
error, or dropped without a callback. In `UserDashboard` several scans run at
once, each with the account and the connection of its closure; a closed
connection answers nothing. Answers and block notifications come over
one WebSocket in the order in which the node produced them, so a query is
evaluated when it is delivered. `nextItemId.toString() + 1` appends the digit 1
to a string, so the loops of `loadNFTs` run up to `10n + 1`; the models keep this
bound and cut off ids that no NFT can have. History variables (`purchased`,
`done`, `rowsOf`, `source`, `kept`, `ever`, and the price and the reactions kept with a mint)
are read by no guard.

## 3. Runs

| run | question | bounds | result |
|---|---|---|---|
| `pallet` | ids, vector and map, orphans, fees, sales, refinement | ids up to 1 for collections and items, vector of 2, deposit 2, amounts that leave dust | holds, about 77,000 states |
| `wallet_overlapping` | consistency, busy flag | 2 wallets sharing an address, 2 handlers at once | holds, about 19,000 states |
| `wallet_previous` | "Disconnect any previously connected wallet" | 2 handlers | **violated** |
| `market_purchase` | paid once, at the price of the click | 2 mints, 2 calls of others, 2 prices | holds, about 413,000 states |
| `market_gate` | engagement when the fid is known, spinner | 3 changes of reactions, failing queries | holds, about 5,500 states |
| `market_ungated` | "users can only mint NFTs if they have liked and recasted" | 1 mint | **violated** |
| `market_refresh` | "Refresh NFTs after purchase" | 2 mints, 2 loads | **violated** |
| `user_dashboard` | scans over a replaced connection against a moving chain, spinner, what is shown of the connection | 3 collection ids, 2 calls during scans, 1 click on a view or an account, failures, double first effect | holds, about 396,000 states |
| `artist` | one fee, no id burned twice, no false registration, buttons | a visitor or an artist, 2 extrinsics at once, 2 clicks, a payment elsewhere, a buyer, failures | holds, about 385,000 states |
| `artist_rows` | "NFTs in" the selected collection | 2 collections, 2 loads | **violated** |
| `node` | key and role, ports, directories, tasks, purge, idle collators | 2 processes, 10 command lines, 2 invocations, 1 fault | holds, about 107,000 states |
| `collation` | replay, money, weights, segment, retraction, progress | 2 collators, 2 accounts, 3 extrinsics, busy message queue, 1 retraction | holds, about 58,000 states |

**Why the bounds are enough.** The id spaces are so small that both counters
reach the value at which they stop and are used there; the vector fills up;
metadata is once below and once above its bound. Two accounts are enough for
every relation the pallet compares (creator or not, owner or not, artist or not),
with the treasury as the account that cannot sign. Balances are chosen so that
one account can, and one cannot, afford the fee, and so that a transfer leaves
dust. On the pages two invocations overlap, which is what an ordering error
needs; a bound on clicks and on other people's calls keeps the runs finite and
lets an NFT be created, sold or burned between any two steps of the page. The
ten command lines of `node` are the ones that differ for the code (full nodes
with an embedded and an external relay chain, collators by flag and by keyring,
one with both chains under one base path, `--dev`, two purges, a
command with a database, a specification and a relay chain that do not exist);
two of them meet on the machine, which is what a lock, a port or a purge needs.
The three extrinsics of `collation` are chosen at the edges: two compete for a
nonce, one of them leaves its account below the existential deposit and the
other fills a block with a busy queue and the inherents (with a `HooksWeight` of 4)
to the last unit; the third is
operational, exceeds the reserved part by one and brings the dead account back.
The segment is filled up to its capacity, and the retraction takes any part of
it back. Ids
at the saturation point are excluded by name in the properties that the code
does not keep there.

**Deadlock** is not checked on the pages, in the pallet and in `node`: a user or
an operator may stop, and the bounds end the behaviours. It is checked in
`collation`, where slots go on for ever.

**Fairness.** Liveness assumes weak fairness of what answers a promise, never of
a user's click: a wallet, a node or an API route answers in the end or fails (a
failure is always an allowed answer), and a collator includes or drops what is
in the pool. The handlers have no other way to wait. Nothing is assumed about which
answer comes, so each of `ConnectingEnds`, `LoadingEnds`, `DashboardLoadingEnds`
and `ButtonsComeBack` is about the error paths as much as about success.
`DashboardLoadingEnds` also assumes that a state that was set is rendered, and
nothing of attempts to connect, which may go on for ever. In `Node` only
`run_node_until_exit` is fair: a node that runs sees a signal or the end of an
essential task (`NoIdleCollator`). The start has awaits that may hang
(`service.rs:251-280`, an external relay chain that cannot be reached), so nothing
is assumed of it and nothing is claimed about its end.
`ReadySettles` needs more: slots pass and the relay chain includes what it is
offered (weak fairness); a collator whose turn comes again and again gets to
build, to seal the block with a given extrinsic, and to take from the pool what it could
take again and again (strong fairness). The last three are what
`start_consensus` sets up: authoring has two of the six seconds of a slot, and
the proposer goes through all that is ready. Nothing is assumed about
submissions, retractions and crashes, of which the latter may come any number of times.

**What the violations show.**

- `wallet_previous`: two clicks on wallets both see an empty `connectedWallets`,
  or a wallet refuses to disconnect and the error is swallowed; two wallets end
  up connected.
- `market_ungated`: the check runs only `if (fid)`; before the context has
  answered, or outside Farcaster, a mint is not gated.
- `market_refresh`: two purchases start two loads; the first to start may be the
  last to finish, and the page shows an NFT just bought as available.
- `artist_rows`: the same with two collections; the rows of one stand under
  the name of the other, and their Burn buttons act on that other one.

## 4. Proofs

For every value of the constants, under the named assumptions of each module.

**The pallet** (`TemplatePalletProofs`, `RegistryRefinement`): the accounts are a
finite set without the pallet's account, and bounds, prices, lengths and
balances are natural numbers.

- `TypeCorrect`: storage keeps its types. Balances stay natural numbers because
  every debit is preceded by the check that the funds are there (`TransferFacts`).
- `IdsCorrect`: `IdsBelowCounters`, `ListMatchesStorage` and `ListedOnce`. The
  inductive invariant is `IdsInv`, their conjunction with `TypeOK`. None of the
  last two is inductive alone: that `create_nft` writes a fresh id follows only
  from all ids being below the counters, the ids of deleted collections
  included; and that `create_collection` starts with an empty vector under an id
  without NFTs needs the same fact of collections. Every item id in
  the vector is also below the counter, which is what makes `try_push` add it
  for the first time.
- `MoneyCorrect`: `TreasuryCoversFees` and `ProceedsAreSpendable`, with `MoneyInv`.
  Since nobody signs for the treasury no step lowers its balance
  (`PalletAccountOnlyReceives`), and the one step that adds an artist adds the fee.
- `CollectionIdsUsedOnceHolds`, `OrphansPersistHolds`: action properties, from
  `IdsInv`.
- `PalletImplementsRegistry`: the refinement. Genesis maps to no tokens, and each
  call to one step of the registry: `create_nft` to `Create` (it needs
  `IdsBelowCounters` to know that the token was unborn), `transfer_nft` to `Give`,
  `mint_nft` to `Sell`, `burn_nft` to `Burn`, registration and plain transfers to
  `Pay`, the rest to stuttering; the same calls at the saturation point leave
  all tokens alone.

The effect of each call on storage is a lemma of its own (`CreateNftEffect`,
`BurnNftEffect`, ...) that the invariants and the refinement share.
`IdNamesOneNft` is what the pallet promises to a client that remembers an id:
once the counter has passed it, no call brings another NFT under it, changes the
price of the one there is, or takes back a sale. The proofs of the pages use the
pallet only through this lemma, `IdsInv` and the effects of their own calls.

**The node** (`NodeProofs`), for any processes, command lines, specifications
and number of faults. `NodeInv` says of each process what its stage has set up:
from `new_partial` on the pool and the import queue, from the relay chain
interface on the relay tasks and, for an authority, the key, and so on, unless an
essential task has ended and that was noted. This is what makes the properties
inductive: that `start_consensus` finds a key is decided three stages earlier.
From it follow `CollatorKeyAlwaysThere` (the
`expect` in the code says "Command line arguments do not allow this. qed"; this
is that proof), `CollatorsAreAuthorities` (over an external relay chain a full node
has a key as well, and does not use it) and `RunningNodesAreWhole`.

What processes share needs a second invariant, `SharedInv`: what a process holds
open and what a purge has removed are databases of its own command line, the
parachain's before the relay chain's, the ports of the two chains are taken one
after the other, and everything in `wrote` is a database of some command line.
Two lemmas about directories carry it: a database has a path of its own below
its base path (`DatabaseBelowPlace`, `SamePlace`), and the two databases of a
command line differ (`DatabasesDiffer`); and that run and purge, which build
their configurations in different places of `command.rs`, arrive at the same
directories is `DatabasesOfArguments`. From these follow `NeverInItsOwnWay` and
`PurgeMatchesRun`. They assume of the operator (`PathsAssumption`) that no base
path is named like the default one or a temporary one, and that with one base
path for both chains the ids of the two chains differ. Without the second one
the code does open one directory for two chains; the instance has such a command
line.

**Block production** (`CollationProofs`), for any accounts, extrinsics,
authorities, queue loads and number of retractions. The inductive invariant
`IInv` has six parts: the types; `StatesGood`: in every state of the chain an
extrinsic was applied as often as its account died, and once more only if the
nonce has passed it, the money is accounted for (`MoneyOK`), and the slots of the
segment do not go back; `NoncesPass`: a
nonce passes along the segment only by an extrinsic with it in a block;
`BlocksAdmissible`: what is in a block would be valid again; `ReportedKept`: what
was reported is accounted for seen from every block of the segment, not only
from the best one, which is what a retraction needs (together with the two
parts before it); `BuildingGood`: the same of the block under construction
compared with its parent, and its weights. The theorems are `PoolCorrect`, `NoReplay`,
`MoneyAccountedFor`, `BlocksWithinLimits`, `SegmentKeepsBounds` and
`NoReportedExtrinsicLost`.

The money needs a theory of sums, the first part of the module. `SumFunction` of
the community modules is a recursive function over the subsets of the domain
that takes one element away at a time. The library's induction rules cannot be
used here (they take an operator as their parameter), so each fact is shown by
looking at a smallest subset that violates it (`SmallestSubset`, from the
well-foundedness of strict inclusion on finite sets): the recursive equation has
a solution, solutions agree, sums of naturals are naturals, any element may be
taken first (`SumOfAny`), a change of one value changes the sum by as much
(`SumChange`), and what one value on a part of the set sums up to (`SumOfPart`, for
the genesis). The property is about three sums of the state: what the accounts
hold, the fees of all that was applied, and the deaths. A fee leaves the first sum and
enters the second, a transfer leaves them alone, and the removal of an account
lowers the first by less than an existential deposit and raises the third by one.
It assumes that the extrinsics are finitely many, as they are: their length is bounded.

**The wallet** (`WalletProofs`), for any wallets, addresses and number of
handlers at once; `None` is neither a wallet nor an account. The inductive
invariant `WalletInv` adds `CallsOK` to the properties: what each handler under
way carries in its closure, a wallet while it connects and an account of the
wallet it asked while it selects. It is needed because the signer set at the end
of a handler comes from that closure and not from the state of the moment. The
theorems are `WalletTypeCorrect`, `OfferIsOfSelectedWallet`, `SignerIsOfAccount`
and `BusyFlagComesDown`.

**The marketplace** (`MarketplaceProofs`), for any NFTs on sale, prices and
balances and any number of loads and purchases at once. The artist has an
account, and the listed NFTs have the first ids and prices of the model
(`MarketAssumption`). `MarketInv` is about what the page remembers: every id that
it shows, has read in a load under way or was asked to buy was handed out by the
counter (`HandedOut`), so that `IdNamesOneNft` applies to it from then on; a
purchase under way has in its closure the price that the NFT still has, if it is
still there (`ClickHolds`), and, once something is to be signed for a known user,
the reactions (`GateHolds`); what was bought is stored as sold (`Bought`), and
the pallet sells nothing twice. `PaidOnce` alone is not inductive: that a
second click fails needs the sale in storage, and that the id does not come to
name a new NFT needs the counter. The theorems are `NeverPaidTwice`,
`PriceOfClickIsPaid` (an action property) and `GateHoldsForKnownUsers`.

**The artist's pages** (`ArtistProofs`), for any number of extrinsics and loads at
once, from genesis or from an artist with collections that have the first ids
(`StudioAssumption`; the price of its NFTs is zero). `ArtistInv` says of each
extrinsic which call it carries and, when its callback is due without an error,
that the registration is on chain; of each call that took effect that it cannot
again (`Spent`: the user is an artist, the NFT is gone and its id passed); and of
the page that "Create NFT" is open only over a selected collection. The theorems
are `FeeNeverPaidTwice`, `NothingBurnedTwice` and `ShownAsArtistIsArtist`.

**The user dashboard** (`DashboardProofs`), for any accounts, ids and number of
scans at once and connections that come and go; the instance from which the
page starts needs two collections and a free NFT (`CollectorsAssumption`). A scan
reads each counter once and each item at another moment, so its invariant
(`GoodScan`) is about what its account has kept all the time: that is below the
bounds the scan has read, because what is stored is below the counters (`IdsInv`)
and counters do not go back, and what the loops went past of it was found. What
was found was owned when it was read. The theorems are `ScanMissesNothingKept` and
`NothingOfOthersShown`. `ConnectionNeverLost` is about the connection alone, for any
number of attempts: `ConnectionInv` says that an api that is set is open, and that
without one, and with the effect for that having run, there is an error or an
attempt that the flag tells of. The flag is shared, so this holds only because an
attempt that lowers it leaves an api or an error behind, and because the effect that
runs after the api was taken away clears the error and raises the flag together.

**Only model-checked.** Liveness (`ConnectingEnds`, `LoadingEnds`,
`DashboardLoadingEnds`, `ButtonsComeBack`,
`NoIdleCollator`, `ReadySettles`): fairness is out of the prover's reach. All the
safety properties of the passing runs are theorems.

## 5. Not modelled

- Events and the benchmarked weights of calls. The pallet's model has no
  transaction fees and nonces: `Collation` has them, with a transfer as its call.
- The proof size (second dimension of a weight), the length of blocks, the fee
  multiplier, tips and mortal eras.
- `pallet_sudo` and XCM: whoever holds the root key can change any storage;
  incoming messages are a load of the message queue. Changes of the collator
  set by `pallet_collator_selection`: the authorities are those of the genesis.
- The inside of what the node starts: networking, RPC methods, databases,
  telemetry.
- A change of account under a mounted marketplace or artist page (the user
  dashboard has it), and form fields.
- The text of metadata. The collection manager filters by the creator in the
  metadata; for collections made by the modal this is the sender, and the model
  takes it so.
- `connectWallet`, `selectWallet`, `disconnectWallet()` without argument,
  `getCastDetails` and its route: exported, no caller. `handleTransfer` is only
  called with an empty recipient and `transferNFT` passes no signer: both
  fail before anything is signed.
- `pallets/template/src/tests.rs` and `benchmarking.rs` refer to calls that the
  pallet no longer has.

## 6. Observations made while modelling

No run is about these; a reader of the code may want to know of them.

- `UserDashboard.tsx:43`: after another account is selected, the scan for the
  account before may finish last, and its NFTs stay under "Your NFT Collection";
  a failed load leaves them there too. `ShowsOnlyMine` is therefore about the
  account of the scan, not about the one selected.
- `ChainContext.tsx:50`: when both connections of the double first effect arrive
  before one render, the first is never closed; nor is one whose first queries
  failed.
- `ChainContext.tsx:35`: a success does not clear `error`. When one of the two
  attempts of the double first effect fails and the other succeeds, the header
  says "Chain Error" over a connection that works; and `Demo` shows its spinner
  "Connecting to chain..." after a failure as well, since it looks at `api` alone.
- `service.rs:251`: the start waits without a timeout for a relay chain that
  cannot be reached, and acts on a signal only once it is done.
- `runtime/src/lib.rs:124`: the comment maps the base weight to 1/10
  `MILLI_UNIT`; with `q = 100 * base` it is 1/1000 of a `MILLI_UNIT`.
- `runtime/src/lib.rs:207`: the largest extrinsic assumes 5% for `on_initialize`,
  the message queue may take 35%. A normal extrinsic between `10358 - HooksWeight`
  and 11199 units is valid, and never fits while the queue is busy: `ReadySettles`
  excepts it.
- An account that dies loses its nonce, and an immortal extrinsic it signed can
  be applied once more when the account is funded again (`AppliedOnce` says how
  often at most).
- `purge-chain` removes directories without taking their lock, so also under a
  running node; the lock goes with the directory, so that another node may then open
  a new one at the same place (in the model it is still refused).
- `node/src/chain_spec.rs:29`: `development_config` builds `properties` and does
  not pass them on.
- `CreateCollectionModal.tsx:57`: a callback that comes after the modal was closed
  and opened again clears and closes it.

## 7. Plan

Done: the pallet with its abstraction, the wallet, the node, block production, the
three pages and the connection, with proofs of all safety properties. Next:

1. Lemmas towards the liveness properties that need no fairness: steps under way
   on a page get fewer (a measure that each answer lowers), and a block with a
   given extrinsic in it is not taken apart but by a retraction.
2. The pages on top of `Collation`: callbacks for blocks that are retracted
   later, with the pallet's calls as the extrinsics.
3. The marketplace and artist pages under a change of account.
